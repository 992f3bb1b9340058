------------------------------ MODULE WebProofs ------------------------------
(***************************************************************************)
(* Proofs about the web application: marks, accounts, songs and plans, for *)
(* any number of tabs, browsers, accounts and documents, any import, and   *)
(* any bounds.  Each part has its own inductive invariant; a step of       *)
(* another part leaves it alone.                                           *)
(***************************************************************************)
EXTENDS Web, FiniteSetTheorems, FunctionTheorems, SequenceTheorems, TLAPS

-----------------------------------------------------------------------------
(***************************************************************************)
(* The marks.                                                              *)
(***************************************************************************)
MarkTypeOK ==
    /\ mark \in [Kinds -> Mark]
    /\ tab \in [Tabs -> [Kinds -> Mark \cup {"not open"}]]
    /\ asked \in [Tabs -> [Kinds -> MarkRequest \cup {NoMark}]]
    /\ synced \in [Tabs -> [Kinds -> BOOLEAN]]

\* A tab that shows a mark shows it for good, and only then sends requests.
OpenOrNot ==
    \A t \in Tabs :
        \/ tab[t] = NotOpen /\ \A k \in Kinds : asked[t][k] = NoMark
        \/ tab[t] \in [Kinds -> Mark]

\* Favourites are set to "yes" by POST and cleared by DELETE.
AskedFavorite ==
    \A t \in Tabs : asked[t]["favorite"] # NoMark =>
        favorite(asked[t]["favorite"].method) = asked[t]["favorite"].value

\* Until its request is served a tab in step shows the mark; then the request has it.
InStep ==
    \A t \in Tabs, k \in Kinds : synced[t][k] =>
        IF asked[t][k] = NoMark THEN tab[t][k] = mark[k]
        ELSE IF asked[t][k].served THEN asked[t][k].value = mark[k] ELSE tab[t][k] = mark[k]

MarkInv == MarkTypeOK /\ OpenOrNot /\ AskedFavorite /\ InStep

LEMMA MarkInitInv == MarkInit => MarkInv
<1> SUFFICES ASSUME MarkInit PROVE MarkInv
  OBVIOUS
<1>1. NoMark \in Mark /\ "favorite" \in Kinds
  BY DEF Mark, Kinds
<1>2. NotOpen \in [Kinds -> Mark \cup {"not open"}]
  BY DEF NotOpen
<1> QED BY <1>1, <1>2 DEF MarkInit, MarkInv, MarkTypeOK, OpenOrNot, AskedFavorite, InStep

LEMMA AskInv ==
    ASSUME MarkInv, NEW t \in Tabs, NEW k \in Kinds, NEW method \in {"POST", "DELETE", "PUT"},
           NEW value \in Mark, Ask(t, k, method, value),
           k = "favorite" => favorite(method) = value
    PROVE  MarkInv'
<1> DEFINE r == [method |-> method, value |-> value, served |-> FALSE]
<1>1. r \in MarkRequest /\ r # NoMark
  <2>1. r \in MarkRequest
    BY DEF MarkRequest
  <2> QED BY <2>1, MarksAssumption
<1>2. asked' = [asked EXCEPT ![t] = [asked[t] EXCEPT ![k] = r]] /\ UNCHANGED <<mark, tab, synced>>
  BY DEF Ask
<1>3. tab[t] \in [Kinds -> Mark] /\ asked[t][k] = NoMark
  BY DEF Ask, MarkInv, OpenOrNot
<1>4. r.method = method /\ r.value = value /\ r.served = FALSE
  OBVIOUS
<1> HIDE DEF r
<1>5. /\ \A u \in Tabs, j \in Kinds : asked'[u][j] = IF u = t /\ j = k THEN r ELSE asked[u][j]
      /\ asked' \in [Tabs -> [Kinds -> MarkRequest \cup {NoMark}]]
  BY <1>1, <1>2 DEF MarkInv, MarkTypeOK
<1>6. MarkTypeOK'
  BY <1>2, <1>5 DEF MarkInv, MarkTypeOK
<1>7. OpenOrNot'
  BY <1>2, <1>3, <1>5 DEF MarkInv, OpenOrNot
<1>8. AskedFavorite'
  BY <1>2, <1>4, <1>5 DEF MarkInv, AskedFavorite, Kinds
<1>9. InStep'
  BY <1>1, <1>2, <1>3, <1>4, <1>5 DEF MarkInv, InStep
<1> QED BY <1>6, <1>7, <1>8, <1>9 DEF MarkInv

LEMMA MarkStepInv == ASSUME MarkInv, MarkStep PROVE MarkInv'
<1> USE MarksAssumption
<1> PICK t \in Tabs :
        \/ openSong(t) \/ toggle(t)
        \/ \E status \in Statuses : handleChange(t, status)
        \/ \E k \in Kinds : serveMark(t, k) \/ answerMark(t, k) \/ loseMark(t, k)
  BY DEF MarkStep
<1>1. CASE openSong(t)
  <2>1. /\ tab[t] = NotOpen /\ \A k \in Kinds : asked[t][k] = NoMark
        /\ tab' = [tab EXCEPT ![t] = mark]
        /\ synced' = [synced EXCEPT ![t] = [k \in Kinds |-> TRUE]]
        /\ UNCHANGED <<mark, asked>>
    <3>1. tab[t]["favorite"] = "not open"
      BY <1>1 DEF openSong, NotOpen, Kinds
    <3>2. tab[t] \notin [Kinds -> Mark]
      BY <3>1 DEF Kinds
    <3> QED BY <1>1, <3>2 DEF openSong, MarkInv, OpenOrNot
  <2> QED BY <2>1 DEF MarkInv, MarkTypeOK, OpenOrNot, AskedFavorite, InStep
<1>2. CASE toggle(t)
  BY <1>2, AskInv DEF toggle, favorite, Mark, Kinds
<1>3. ASSUME NEW status \in Statuses, handleChange(t, status) PROVE MarkInv'
  BY <1>3, AskInv DEF handleChange, Mark, Kinds
<1>4. ASSUME NEW k \in Kinds, serveMark(t, k) PROVE MarkInv'
  <2> DEFINE r == [asked[t][k] EXCEPT !.served = TRUE]
  <2>1. asked[t][k] # NoMark /\ asked[t][k] \in MarkRequest /\ ~asked[t][k].served
    BY <1>4 DEF serveMark, MarkInv, MarkTypeOK
  <2>2. /\ r \in MarkRequest /\ r # NoMark /\ r.served
        /\ r.value = asked[t][k].value /\ r.method = asked[t][k].method
    BY <2>1 DEF MarkRequest
  <2>3. /\ mark' = [mark EXCEPT ![k] = asked[t][k].value]
        /\ asked' = [asked EXCEPT ![t] = [asked[t] EXCEPT ![k] = r]]
        /\ synced' = [u \in Tabs |-> [synced[u] EXCEPT ![k] = u = t]] /\ UNCHANGED tab
    BY <1>4, <2>1 DEF serveMark, MarkInv, AskedFavorite
  <2> HIDE DEF r
  <2>4. /\ \A u \in Tabs, j \in Kinds : asked'[u][j] = IF u = t /\ j = k THEN r ELSE asked[u][j]
        /\ asked' \in [Tabs -> [Kinds -> MarkRequest \cup {NoMark}]]
        /\ \A u \in Tabs, j \in Kinds : synced'[u][j] = IF j = k THEN u = t ELSE synced[u][j]
        /\ \A j \in Kinds : mark'[j] = IF j = k THEN asked[t][k].value ELSE mark[j]
    BY <2>2, <2>3 DEF MarkInv, MarkTypeOK
  <2>5. mark' \in [Kinds -> Mark] /\ synced' \in [Tabs -> [Kinds -> BOOLEAN]]
    BY <2>1, <2>3 DEF MarkInv, MarkTypeOK, MarkRequest
  <2>6. OpenOrNot'
    BY <2>1, <2>3, <2>4 DEF MarkInv, OpenOrNot
  <2>7. AskedFavorite'
    <3> SUFFICES ASSUME NEW u \in Tabs, asked'[u]["favorite"] # NoMark
                 PROVE  favorite(asked'[u]["favorite"].method) = asked'[u]["favorite"].value
      BY DEF AskedFavorite
    <3>1. CASE u = t /\ k = "favorite"
      <4>1. asked'[u]["favorite"] = r
        BY <2>4, <3>1
      <4>2. favorite(asked[t]["favorite"].method) = asked[t]["favorite"].value
        BY <2>1, <3>1 DEF MarkInv, AskedFavorite
      <4> QED BY <2>2, <3>1, <4>1, <4>2
    <3>2. CASE ~(u = t /\ k = "favorite")
      BY <2>4, <3>2 DEF MarkInv, AskedFavorite, Kinds
    <3> QED BY <3>1, <3>2
  <2>8. InStep'
    <3> SUFFICES ASSUME NEW u \in Tabs, NEW j \in Kinds, synced'[u][j]
                 PROVE  IF asked'[u][j] = NoMark THEN tab'[u][j] = mark'[j]
                        ELSE IF asked'[u][j].served THEN asked'[u][j].value = mark'[j]
                        ELSE tab'[u][j] = mark'[j]
      BY DEF InStep
    <3>1. CASE j = k
      BY <2>2, <2>4, <3>1
    <3>2. CASE j # k
      <4>1. synced[u][j] /\ asked'[u][j] = asked[u][j] /\ mark'[j] = mark[j] /\ tab' = tab
        BY <2>3, <2>4, <3>2
      <4> QED BY <4>1 DEF MarkInv, InStep
    <3> QED BY <3>1, <3>2
  <2> QED BY <2>3, <2>4, <2>5, <2>6, <2>7, <2>8 DEF MarkInv, MarkTypeOK
<1>5. ASSUME NEW k \in Kinds, answerMark(t, k) \/ loseMark(t, k) PROVE MarkInv'
  <2>1. /\ asked[t][k] # NoMark /\ asked[t][k] \in MarkRequest
        /\ asked' = [asked EXCEPT ![t] = [asked[t] EXCEPT ![k] = NoMark]]
        /\ UNCHANGED mark
    <3>1. asked[t][k] \in MarkRequest \cup {NoMark}
      BY DEF MarkInv, MarkTypeOK
    <3> QED BY <1>5, <3>1 DEF answerMark, loseMark
  <2>2. asked[t][k].value \in Mark /\ asked[t][k].served \in BOOLEAN /\ tab[t] \in [Kinds -> Mark]
    BY <2>1 DEF MarkRequest, MarkInv, OpenOrNot
  <2>3. /\ \A u \in Tabs, j \in Kinds :
              asked'[u][j] = IF u = t /\ j = k THEN NoMark ELSE asked[u][j]
        /\ asked' \in [Tabs -> [Kinds -> MarkRequest \cup {NoMark}]]
    BY <2>1 DEF MarkInv, MarkTypeOK
  <2>4. CASE answerMark(t, k)
    <3>1. /\ asked[t][k].served /\ UNCHANGED synced
          /\ tab' = [tab EXCEPT ![t] = [tab[t] EXCEPT ![k] = asked[t][k].value]]
      BY <2>4 DEF answerMark
    <3>2. /\ \A u \in Tabs, j \in Kinds :
                tab'[u][j] = IF u = t /\ j = k THEN asked[t][k].value ELSE tab[u][j]
          /\ \A u \in Tabs : tab'[u] = IF u = t THEN tab'[t] ELSE tab[u]
          /\ tab'[t] \in [Kinds -> Mark]
          /\ tab' \in [Tabs -> [Kinds -> Mark \cup {"not open"}]]
      BY <2>2, <3>1 DEF MarkInv, MarkTypeOK
    <3>3. OpenOrNot'
      BY <2>3, <3>2 DEF MarkInv, OpenOrNot
    <3>4. AskedFavorite'
      BY <2>3 DEF MarkInv, AskedFavorite, Kinds
    <3>5. InStep'
      <4> SUFFICES ASSUME NEW u \in Tabs, NEW j \in Kinds, synced'[u][j]
                   PROVE  IF asked'[u][j] = NoMark THEN tab'[u][j] = mark'[j]
                          ELSE IF asked'[u][j].served THEN asked'[u][j].value = mark'[j]
                          ELSE tab'[u][j] = mark'[j]
        BY DEF InStep
      <4>1. CASE u = t /\ j = k
        <5>1. synced[t][k] => asked[t][k].value = mark[k]
          BY <2>1, <3>1 DEF MarkInv, InStep
        <5>2. asked'[u][j] = NoMark /\ tab'[u][j] = asked[t][k].value /\ mark'[j] = mark[k]
          BY <2>1, <2>3, <3>2, <4>1
        <5> QED BY <3>1, <4>1, <5>1, <5>2
      <4>2. CASE ~(u = t /\ j = k)
        <5>1. /\ synced[u][j] /\ asked'[u][j] = asked[u][j] /\ mark'[j] = mark[j]
              /\ tab'[u][j] = tab[u][j]
          <6>1. synced' = synced /\ mark' = mark
            BY <2>1, <3>1
          <6>2. asked'[u][j] = asked[u][j]
            BY <2>3, <4>2
          <6>3. tab'[u][j] = tab[u][j]
            BY <3>2, <4>2
          <6> QED BY <6>1, <6>2, <6>3
        <5> QED BY <5>1 DEF MarkInv, InStep
      <4> QED BY <4>1, <4>2
    <3> QED BY <2>1, <2>3, <3>1, <3>2, <3>3, <3>4, <3>5 DEF MarkInv, MarkTypeOK
  <2>5. CASE loseMark(t, k)
    <3>1. /\ UNCHANGED tab
          /\ synced' = [synced EXCEPT ![t] =
                          [synced[t] EXCEPT ![k] = synced[t][k] /\ ~asked[t][k].served]]
      BY <2>5 DEF loseMark
    <3>2. /\ \A u \in Tabs, j \in Kinds :
                synced'[u][j] = IF u = t /\ j = k THEN synced[t][k] /\ ~asked[t][k].served
                                                  ELSE synced[u][j]
          /\ synced' \in [Tabs -> [Kinds -> BOOLEAN]]
      BY <2>2, <3>1 DEF MarkInv, MarkTypeOK
    <3>3. OpenOrNot'
      BY <2>3, <2>2, <3>1 DEF MarkInv, OpenOrNot
    <3>4. AskedFavorite'
      BY <2>3 DEF MarkInv, AskedFavorite, Kinds
    <3>5. InStep'
      <4> SUFFICES ASSUME NEW u \in Tabs, NEW j \in Kinds, synced'[u][j]
                   PROVE  IF asked'[u][j] = NoMark THEN tab'[u][j] = mark'[j]
                          ELSE IF asked'[u][j].served THEN asked'[u][j].value = mark'[j]
                          ELSE tab'[u][j] = mark'[j]
        BY DEF InStep
      <4>1. CASE u = t /\ j = k
        <5>1. synced[t][k] /\ ~asked[t][k].served
          BY <3>2, <4>1
        <5>2. tab[t][k] = mark[k]
          BY <2>1, <5>1 DEF MarkInv, InStep
        <5>3. asked'[u][j] = NoMark /\ tab' = tab /\ mark' = mark
          BY <2>1, <2>3, <3>1, <4>1
        <5> QED BY <4>1, <5>2, <5>3
      <4>2. CASE ~(u = t /\ j = k)
        <5>1. /\ synced[u][j] /\ asked'[u][j] = asked[u][j] /\ mark'[j] = mark[j]
              /\ tab'[u][j] = tab[u][j]
          BY <2>1, <2>3, <3>1, <3>2, <4>2
        <5> QED BY <5>1 DEF MarkInv, InStep
      <4> QED BY <4>1, <4>2
    <3> QED BY <2>1, <2>3, <3>1, <3>2, <3>3, <3>4, <3>5 DEF MarkInv, MarkTypeOK
  <2> QED BY <1>5, <2>4, <2>5
<1> QED BY <1>1, <1>2, <1>3, <1>4, <1>5

\* A tab whose request was the last one served, and answered, shows the mark that
\* the database has (FavoriteToggle.tsx, LearningSelect.tsx and their routes), for
\* any number of tabs and of requests whose answers are lost.
THEOREM MarkTheorem == WebSpec => []MarkShown
<1>1. WebInit => MarkInv
  BY MarkInitInv DEF WebInit
<1>2. MarkInv /\ [WebNext]_webVars => MarkInv'
  <2>1. ASSUME MarkInv, UNCHANGED markVars PROVE MarkInv'
    BY <2>1 DEF MarkInv, MarkTypeOK, OpenOrNot, AskedFavorite, InStep, markVars
  <2> QED BY <2>1, MarkStepInv DEF WebNext, webVars
<1>3. MarkInv => MarkShown
  BY DEF MarkInv, InStep, MarkShown
<1> QED BY <1>1, <1>2, <1>3, PTL DEF WebSpec

-----------------------------------------------------------------------------
(***************************************************************************)
(* The accounts.                                                           *)
(***************************************************************************)
UserTypeOK ==
    /\ users \in [Accounts -> Account \cup {NoAccount}]
    /\ session \in [Managers -> Session \cup {NoSession}]
    /\ table \in [Managers -> Table \cup {NoTable}]
    /\ rowCall \in [Managers -> RowCall \cup {NoCall}]
    /\ dialogCall \in [Managers -> DialogCall \cup {NoCall}]
    /\ grantor \in [Accounts -> AppRole \cup {NoAccount}]
    /\ workers \subseteq Managers
    /\ unsure \in [Managers -> SUBSET Accounts]

\* What a browser has under way comes from its page, and its page from its login.
CallsLinked ==
    \A m \in Managers :
        /\ table[m] # NoTable => session[m] # NoSession
        /\ rowCall[m] # NoCall =>
              /\ table[m] # NoTable /\ rowCall[m].id \in DOMAIN table[m].rows
              /\ session[m].role = "ADMIN"
        /\ dialogCall[m] # NoCall =>
              /\ session[m] # NoSession
              /\ dialogCall[m].op = "create" => table[m] # NoTable
              /\ dialogCall[m].op = "create" /\ dialogCall[m].stage = "checked"
                   => dialogCall[m].role \in allowedRolesToAssign(session[m].role)
              /\ dialogCall[m].op = "create" /\ dialogCall[m].stage = "ok"
                   => dialogCall[m].id \in Accounts /\ grantor[dialogCall[m].id] # NoAccount

\* An identifier without a grantor is nowhere.
IdsFresh ==
    \A u \in Accounts : grantor[u] = NoAccount =>
        /\ users[u] = NoAccount
        /\ \A m \in Managers : table[m] # NoTable => u \notin DOMAIN table[m].rows

\* The only browser that manages the accounts works with an account that is there,
\* and never on that account.
Governs(m) ==
    session[m] # NoSession =>
        /\ users[session[m].id] # NoAccount /\ users[session[m].id].active
        /\ users[session[m].id].role = session[m].role
        /\ table[m] # NoTable => table[m].self = session[m].id
        /\ rowCall[m] # NoCall => rowCall[m].id # session[m].id

WorkerGoverns == \A m \in Managers : workers \subseteq {m} => Governs(m)

\* AdminRemains, without counting.
AdminThere ==
    (workers = {} \/ \E m \in Managers : workers \subseteq {m})
        => \E u \in Accounts : users[u] # NoAccount /\ users[u].role = "ADMIN" /\ users[u].active

\* What is done of the calls of m, and not yet in its table.
Served(m, op) == rowCall[m] # NoCall /\ rowCall[m].stage = "ok" /\ rowCall[m].op = op

Made(m) ==
    dialogCall[m] # NoCall /\ dialogCall[m].stage = "ok" /\ dialogCall[m].op = "create"

\* The table and the answers that are awaited make the database, but for the
\* accounts that were changed and not answered.
TableWithAnswers(m) ==
    /\ Made(m) => dialogCall[m].id \notin DOMAIN table[m].rows
    /\ \A u \in Accounts \ unsure[m] :
          users[u] # NoAccount <=>
              \/ Made(m) /\ u = dialogCall[m].id
              \/ u \in DOMAIN table[m].rows /\ ~(Served(m, "delete") /\ u = rowCall[m].id)
    /\ \A u \in Accounts \ unsure[m] : users[u] # NoAccount =>
          users[u].active = IF Made(m) /\ u = dialogCall[m].id THEN TRUE
                            ELSE IF Served(m, "toggle") /\ u = rowCall[m].id THEN rowCall[m].to
                            ELSE table[m].rows[u]

WorkerTable ==
    \A m \in Managers : workers \subseteq {m} /\ table[m] # NoTable => TableWithAnswers(m)

UserInv ==
    /\ UserTypeOK /\ CallsLinked /\ IdsFresh /\ RolesGranted
    /\ WorkerGoverns /\ AdminThere /\ WorkerTable

LEMMA RowsShape ==
    /\ \A rows \in Rows : /\ DOMAIN rows \subseteq Accounts
                          /\ \A u \in DOMAIN rows : rows[u] \in BOOLEAN
                          /\ rows = [u \in DOMAIN rows |-> rows[u]]
    /\ \A shown \in SUBSET Accounts : [shown -> BOOLEAN] \subseteq Rows
BY DEF Rows

LEMMA WithRowType ==
    ASSUME NEW rows \in Rows, NEW id \in Accounts PROVE WithRow(rows, id) \in Rows
<1> DEFINE e(v) == IF v = id THEN TRUE ELSE rows[v]
<1>1. \A v \in {id} \cup DOMAIN rows : e(v) \in BOOLEAN
  BY RowsShape
<1>2. WithRow(rows, id) = [v \in {id} \cup DOMAIN rows |-> e(v)]
  BY DEF WithRow
<1> HIDE DEF e
<1>3. WithRow(rows, id) \in [{id} \cup DOMAIN rows -> BOOLEAN]
  BY <1>1, <1>2
<1>4. {id} \cup DOMAIN rows \subseteq Accounts
  BY RowsShape
<1> QED BY <1>3, <1>4, RowsShape

LEMMA Roles ==
    /\ \A role \in AppRole : level(role) \in Nat
    /\ \A role \in AppRole : canChangeUserRole(role) => role = "ADMIN"
    /\ \A role : allowedRolesToAssign(role) \subseteq AppRole
    /\ \A role, new : new \in allowedRolesToAssign(role)
                         => role = "ADMIN" \/ level(new) < level(role)
    /\ "ADMIN" \in AppRole /\ "RESPONSABLE_CHANTRE" \in AppRole
    /\ level("ADMIN") = 100 /\ level("RESPONSABLE_CHANTRE") = 70
<1>1. \A role \in AppRole : level(role) \in Nat
  BY DEF AppRole, level
<1>2. \A role \in AppRole : canChangeUserRole(role) => role = "ADMIN"
  BY DEF AppRole, level, canChangeUserRole, atLeast
<1> QED BY <1>1, <1>2 DEF AppRole, allowedRolesToAssign, level

LEMMA UserInitInv == UserInit => UserInv
<1> SUFFICES ASSUME UserInit PROVE UserInv
  OBVIOUS
<1> USE UsersAssumption
<1>1. \A u \in {1, 2, 3} : \A role \in AppRole :
          /\ account(role, u) \in Account /\ account(role, u) # NoAccount
          /\ account(role, u).role = role /\ account(role, u).active
  <2>1. \A u \in {1, 2, 3} : \A role \in AppRole :
            /\ account(role, u) \in Account
            /\ account(role, u).role = role /\ account(role, u).active
    BY DEF account, Account
  <2> QED BY <2>1
<1>2. /\ users[1] = account("ADMIN", 1)
      /\ \A u \in Accounts : \/ u \in {1, 2} /\ users[u] = account("ADMIN", u)
                             \/ u = 3 /\ users[u] = account("RESPONSABLE_CHANTRE", u)
                             \/ u \notin {1, 2, 3} /\ users[u] = NoAccount
  BY DEF UserInit
<1>3. \A u \in Accounts : grantor[u] = IF u <= 3 THEN "ADMIN" ELSE NoAccount
  BY DEF UserInit
<1>4. UserTypeOK
  <2>1. users \in [Accounts -> Account \cup {NoAccount}]
    BY <1>1, <1>2, Roles DEF UserInit
  <2> QED BY <2>1, <1>3, Roles DEF UserTypeOK, UserInit
<1>5. IdsFresh
  BY <1>2, <1>3, Roles DEF IdsFresh, UserInit
<1>6. RolesGranted
  BY <1>1, <1>2, <1>3, Roles DEF RolesGranted, Existing
<1>7. AdminThere
  BY <1>1, <1>2, Roles DEF AdminThere
<1> QED BY <1>4, <1>5, <1>6, <1>7
        DEF UserInv, CallsLinked, WorkerGoverns, Governs, WorkerTable, UserInit

\* What a browser has done stays true of the accounts that are as they were.
LEMMA TableKept ==
    ASSUME NEW n \in Managers, TableWithAnswers(n),
           table'[n] = table[n], rowCall'[n] = rowCall[n], dialogCall'[n] = dialogCall[n],
           unsure'[n] = unsure[n],
           \A u \in Accounts : /\ users'[u] = NoAccount <=> users[u] = NoAccount
                               /\ users[u] # NoAccount => users'[u].active = users[u].active
    PROVE  TableWithAnswers(n)'
<1>1. /\ Made(n)' <=> Made(n)
      /\ \A op : Served(n, op)' <=> Served(n, op)
  BY DEF Made, Served
<1> QED BY <1>1 DEF TableWithAnswers

LEMMA AuthorizeInv ==
    ASSUME UserInv, NEW m \in Managers, NEW u \in Accounts, authorize(m, u) PROVE UserInv'
<1>1. /\ session[m] = NoSession /\ users[u] # NoAccount /\ users[u].active
      /\ session' = [session EXCEPT ![m] = [id |-> u, role |-> users[u].role]]
      /\ UNCHANGED <<users, table, rowCall, dialogCall, grantor, workers, unsure>>
  BY DEF authorize, Existing
<1>2. /\ session'[m] = [id |-> u, role |-> users[u].role]
      /\ \A n \in Managers \ {m} : session'[n] = session[n]
  BY <1>1 DEF UserInv, UserTypeOK
<1>3. table[m] = NoTable /\ rowCall[m] = NoCall /\ dialogCall[m] = NoCall
  BY <1>1 DEF UserInv, CallsLinked
<1>4. users[u] \in Account
  BY <1>1 DEF UserInv, UserTypeOK
<1>5. UserTypeOK'
  BY <1>1, <1>4 DEF UserInv, UserTypeOK, Session, Account
<1>6. CallsLinked' /\ IdsFresh'
  BY <1>1, <1>2, <1>3 DEF UserInv, CallsLinked, IdsFresh
<1>7. WorkerGoverns'
  BY <1>1, <1>2, <1>3 DEF UserInv, WorkerGoverns, Governs
<1>8. RolesGranted' /\ AdminThere'
  BY <1>1 DEF UserInv, RolesGranted, Existing, AdminThere
<1>9. WorkerTable'
  BY <1>1, TableKept DEF UserInv, WorkerTable
<1> QED BY <1>5, <1>6, <1>7, <1>8, <1>9 DEF UserInv

LEMMA PageInv == ASSUME UserInv, NEW m \in Managers, AdminUsersPage(m) PROVE UserInv'
<1> DEFINE page == [self |-> SessionId(m), rows |-> [u \in Existing |-> users[u].active]]
<1> USE UsersAssumption
<1>1. /\ session[m] # NoSession /\ rowCall[m] = NoCall /\ dialogCall[m] = NoCall
      /\ table' = [table EXCEPT ![m] = page]
      /\ unsure' = [unsure EXCEPT ![m] = {}]
      /\ UNCHANGED <<users, session, rowCall, dialogCall, grantor, workers>>
  BY DEF AdminUsersPage
<1>2. /\ page.self = SessionId(m) /\ DOMAIN page.rows = Existing
      /\ \A u \in Existing : page.rows[u] = users[u].active
  OBVIOUS
<1>3. page \in Table /\ page # NoTable
  <2>1. session[m] \in Session
    BY <1>1 DEF UserInv, UserTypeOK
  <2>2. SessionId(m) \in Accounts \cup {Nobody}
    BY <2>1 DEF SessionId, Session
  <2>3. \A u \in Existing : users[u].active \in BOOLEAN
    BY DEF UserInv, UserTypeOK, Existing, Account
  <2>4. page.rows \in [Existing -> BOOLEAN] /\ Existing \subseteq Accounts
    BY <2>3 DEF Existing
  <2>5. page.rows \in Rows
    BY <2>4, RowsShape
  <2>6. page \in Table
    BY <2>2, <2>5 DEF Table
  <2> QED BY <2>6
<1> HIDE DEF page
<1>4. /\ table'[m] = page /\ \A n \in Managers \ {m} : table'[n] = table[n]
      /\ unsure' \in [Managers -> SUBSET Accounts]
      /\ \A n \in Managers \ {m} : unsure'[n] = unsure[n]
  BY <1>1 DEF UserInv, UserTypeOK
<1>5. rowCall[m] = NoCall /\ ~Made(m)
  BY <1>1 DEF UserInv, CallsLinked, Made
<1>6. UserTypeOK'
  BY <1>1, <1>3, <1>4 DEF UserInv, UserTypeOK
<1>7. CallsLinked'
  BY <1>1, <1>3, <1>4, <1>5 DEF UserInv, CallsLinked
<1>8. IdsFresh'
  BY <1>1, <1>2, <1>4 DEF UserInv, IdsFresh, Existing
<1>9. WorkerGoverns'
  <2>1. ASSUME workers \subseteq {m} PROVE page.self = session[m].id
    BY <1>1, <1>2, <2>1 DEF UserInv, UserTypeOK, WorkerGoverns, Governs, SessionId, Existing, Session
  <2> QED BY <1>1, <1>4, <1>5, <2>1 DEF UserInv, WorkerGoverns, Governs
<1>10. RolesGranted' /\ AdminThere'
  BY <1>1 DEF UserInv, RolesGranted, Existing, AdminThere
<1>11. WorkerTable'
  <2>1. TableWithAnswers(m)'
    BY <1>1, <1>2, <1>4, <1>5 DEF TableWithAnswers, Made, Served, Existing
  <2> QED BY <1>1, <1>4, <2>1, TableKept DEF UserInv, WorkerTable
<1> QED BY <1>6, <1>7, <1>8, <1>9, <1>10, <1>11 DEF UserInv

LEMMA CallRowInv ==
    ASSUME UserInv, NEW m \in Managers, NEW u \in Accounts, toggleActive(m, u) \/ doDelete(m, u)
    PROVE  UserInv'
<1> USE UsersAssumption
<1>1. PICK op \in {"toggle", "delete"}, to \in BOOLEAN :
          /\ Row(m, u) /\ canChangeUserRole(session[m].role) /\ u # table[m].self
          /\ CallRow(m, op, u, to)
  <2>1. CASE toggleActive(m, u)
    <3>1. table[m] \in Table /\ u \in DOMAIN table[m].rows
      BY <2>1 DEF toggleActive, Row, UserInv, UserTypeOK
    <3>2. (~table[m].rows[u]) \in BOOLEAN
      BY <3>1, RowsShape DEF Table
    <3> QED BY <2>1, <3>2 DEF toggleActive
  <2>2. CASE doDelete(m, u)
    BY <2>2 DEF doDelete, canDeleteUser, canChangeUserRole
  <2> QED BY <2>1, <2>2
<1> DEFINE call == [op |-> op, id |-> u, to |-> to, stage |-> "sent"]
<1>2. /\ rowCall' = [rowCall EXCEPT ![m] = call]
      /\ UNCHANGED <<users, session, table, dialogCall, grantor, workers, unsure>>
  BY <1>1 DEF CallRow
<1>3. call \in RowCall /\ call # NoCall /\ call.id = u /\ call.stage = "sent"
  <2>1. call \in RowCall
    BY DEF RowCall
  <2> QED BY <2>1
<1> HIDE DEF call
<1>4. rowCall'[m] = call /\ \A n \in Managers \ {m} : rowCall'[n] = rowCall[n]
  BY <1>2 DEF UserInv, UserTypeOK
<1>5. rowCall[m] = NoCall /\ table[m] # NoTable /\ u \in DOMAIN table[m].rows
  BY <1>1 DEF Row
<1>6. session[m].role = "ADMIN"
  <2>1. session[m] \in Session
    BY <1>5 DEF UserInv, UserTypeOK, CallsLinked
  <2> QED BY <1>1, <2>1, Roles DEF Session
<1>7. UserTypeOK'
  BY <1>2, <1>3 DEF UserInv, UserTypeOK
<1>8. CallsLinked'
  BY <1>2, <1>3, <1>4, <1>5, <1>6 DEF UserInv, CallsLinked
<1>9. WorkerGoverns'
  <2>1. workers \subseteq {m} => table[m].self = session[m].id
    BY <1>5 DEF UserInv, WorkerGoverns, Governs, CallsLinked
  <2> QED BY <1>1, <1>2, <1>3, <1>4, <2>1 DEF UserInv, WorkerGoverns, Governs
<1>10. IdsFresh' /\ RolesGranted' /\ AdminThere'
  BY <1>2 DEF UserInv, IdsFresh, RolesGranted, Existing, AdminThere
<1>11. WorkerTable'
  <2>1. ASSUME TableWithAnswers(m) PROVE TableWithAnswers(m)'
    <3>1. \A op1 : ~Served(m, op1) /\ ~Served(m, op1)'
      BY <1>3, <1>4, <1>5 DEF Served
    <3>2. Made(m)' <=> Made(m)
      BY <1>2 DEF Made
    <3> QED BY <1>2, <2>1, <3>1, <3>2 DEF TableWithAnswers
  <2> QED BY <1>2, <1>4, <2>1, TableKept DEF UserInv, WorkerTable
<1> QED BY <1>7, <1>8, <1>9, <1>10, <1>11 DEF UserInv

\* The answer of a row: the table does what the route did.
LEMMA AnswerRowInv == ASSUME UserInv, NEW m \in Managers, answerRow(m) PROVE UserInv'
<1> USE UsersAssumption
<1> DEFINE r == rowCall[m]
           rows == table[m].rows
           done == IF r.stage = "failed" THEN rows
                   ELSE IF r.op = "delete" THEN [v \in DOMAIN rows \ {r.id} |-> rows[v]]
                   ELSE [rows EXCEPT ![r.id] = r.to]
           page == [table[m] EXCEPT !.rows = done]
<1>1. /\ r # NoCall /\ r \in RowCall /\ r.stage \in {"ok", "failed"}
      /\ rowCall' = [rowCall EXCEPT ![m] = NoCall]
      /\ UNCHANGED <<users, session, dialogCall, grantor, workers, unsure>>
  <2>1. r \in RowCall \cup {NoCall}
    BY DEF UserInv, UserTypeOK
  <2> QED BY <2>1 DEF answerRow
<1>2. /\ table[m] \in Table /\ table[m] # NoTable /\ r.id \in DOMAIN rows
      /\ session[m].role = "ADMIN"
  BY <1>1 DEF UserInv, CallsLinked, UserTypeOK
<1>3. /\ rows \in Rows /\ DOMAIN rows \subseteq Accounts /\ rows \in [DOMAIN rows -> BOOLEAN]
      /\ r.to \in BOOLEAN /\ r.op \in {"toggle", "delete"} /\ r.id \in Accounts
  <2>1. rows \in Rows /\ r.to \in BOOLEAN /\ r.op \in {"toggle", "delete"} /\ r.id \in Accounts
    BY <1>1, <1>2 DEF Table, RowCall
  <2> QED BY <2>1, RowsShape
<1>4. table' = [table EXCEPT ![m] = page]
  <2>1. CASE r.stage = "failed"
    <3>1. table' = table /\ done = rows
      BY <1>1, <2>1 DEF answerRow
    <3>2. page = table[m]
      BY <1>2, <3>1 DEF Table
    <3> QED BY <3>1, <3>2 DEF UserInv, UserTypeOK
  <2>2. CASE r.stage = "ok" /\ r.op = "delete"
    <3>1. table' = [table EXCEPT ![m] = [table[m] EXCEPT !.rows = Restrict(rows, DOMAIN rows \ {r.id})]]
      BY <1>1, <1>2, <2>2 DEF answerRow
    <3>2. Restrict(rows, DOMAIN rows \ {r.id}) = done
      BY <2>2 DEF Restrict
    <3> QED BY <3>1, <3>2
  <2>3. CASE r.stage = "ok" /\ r.op = "toggle"
    BY <1>1, <1>2, <2>3 DEF answerRow
  <2> QED BY <1>1, <1>3, <2>1, <2>2, <2>3
<1>5. /\ done \in Rows /\ DOMAIN done \subseteq DOMAIN rows
      /\ DOMAIN done = IF r.stage = "ok" /\ r.op = "delete" THEN DOMAIN rows \ {r.id} ELSE DOMAIN rows
      /\ \A v \in DOMAIN done :
            done[v] = IF r.stage = "ok" /\ r.op = "toggle" /\ v = r.id THEN r.to ELSE rows[v]
  <2>1. CASE r.stage = "ok" /\ r.op = "delete"
    <3>1. done \in [DOMAIN rows \ {r.id} -> BOOLEAN]
      BY <1>3, <2>1
    <3>2. done \in Rows
      BY <1>3, <3>1, RowsShape
    <3> QED BY <1>3, <2>1, <3>2
  <2>2. CASE ~(r.stage = "ok" /\ r.op = "delete")
    <3>1. done \in [DOMAIN rows -> BOOLEAN]
      BY <1>1, <1>3, <2>2
    <3>2. done \in Rows
      BY <1>3, <3>1, RowsShape
    <3> QED BY <1>1, <1>2, <1>3, <2>2, <3>2
  <2> QED BY <2>1, <2>2
<1>6. page.rows = done /\ page.self = table[m].self /\ page \in Table /\ page # NoTable
  <2>1. page.rows = done /\ page.self = table[m].self /\ page \in Table
    BY <1>2, <1>5 DEF Table
  <2> QED BY <2>1
<1> HIDE DEF page, done
<1>7. /\ table'[m] = page /\ \A n \in Managers \ {m} : table'[n] = table[n]
      /\ rowCall'[m] = NoCall /\ \A n \in Managers \ {m} : rowCall'[n] = rowCall[n]
  BY <1>1, <1>4 DEF UserInv, UserTypeOK
<1>8. UserTypeOK'
  BY <1>1, <1>4, <1>6 DEF UserInv, UserTypeOK
<1>9. CallsLinked'
  BY <1>1, <1>2, <1>6, <1>7 DEF UserInv, CallsLinked
<1>10. IdsFresh'
  BY <1>1, <1>2, <1>5, <1>6, <1>7 DEF UserInv, IdsFresh
<1>11. WorkerGoverns'
  BY <1>1, <1>2, <1>6, <1>7 DEF UserInv, WorkerGoverns, Governs
<1>12. RolesGranted' /\ AdminThere'
  BY <1>1 DEF UserInv, RolesGranted, Existing, AdminThere
<1>13. WorkerTable'
  <2>1. ASSUME TableWithAnswers(m) PROVE TableWithAnswers(m)'
    <3>1. Made(m)' <=> Made(m)
      BY <1>1 DEF Made
    <3>2. \A op : ~Served(m, op)'
      BY <1>7 DEF Served
    <3>3. \A op : Served(m, op) <=> r.stage = "ok" /\ r.op = op
      BY <1>1 DEF Served
    <3>4. Made(m)' => dialogCall'[m].id \notin DOMAIN table'[m].rows
      BY <1>1, <1>5, <1>6, <1>7, <2>1, <3>1 DEF TableWithAnswers
    <3>5. ASSUME NEW v \in Accounts \ unsure[m]
          PROVE  users'[v] # NoAccount <=>
                    \/ Made(m)' /\ v = dialogCall'[m].id
                    \/ v \in DOMAIN table'[m].rows
      BY <1>1, <1>2, <1>5, <1>6, <1>7, <2>1, <3>1, <3>3 DEF TableWithAnswers
    <3>6. ASSUME NEW v \in Accounts \ unsure[m], users'[v] # NoAccount
          PROVE  users'[v].active = IF Made(m)' /\ v = dialogCall'[m].id THEN TRUE
                                    ELSE table'[m].rows[v]
      <4>1. users[v] # NoAccount /\ users'[v] = users[v]
        BY <1>1, <3>6
      <4>2. users[v].active = IF Made(m) /\ v = dialogCall[m].id THEN TRUE
                              ELSE IF Served(m, "toggle") /\ v = r.id THEN r.to ELSE rows[v]
        BY <2>1, <4>1 DEF TableWithAnswers
      <4>3. v \in DOMAIN done \/ (Made(m) /\ v = dialogCall[m].id)
        BY <1>6, <1>7, <1>1, <3>1, <3>5, <3>6
      <4>4. CASE Made(m) /\ v = dialogCall[m].id
        BY <1>1, <3>1, <4>1, <4>2, <4>4
      <4>5. CASE ~(Made(m) /\ v = dialogCall[m].id)
        <5>1. table'[m].rows[v] =
                 IF r.stage = "ok" /\ r.op = "toggle" /\ v = r.id THEN r.to ELSE rows[v]
          BY <1>5, <1>6, <1>7, <4>3, <4>5
        <5> QED BY <1>1, <3>1, <3>3, <4>1, <4>2, <4>5, <5>1
      <4> QED BY <4>4, <4>5
    <3> QED BY <1>1, <3>2, <3>4, <3>5, <3>6 DEF TableWithAnswers
  <2> QED BY <1>1, <1>2, <1>7, <2>1, TableKept DEF UserInv, WorkerTable
<1> QED BY <1>8, <1>9, <1>10, <1>11, <1>12, <1>13 DEF UserInv

\* The routes of a row, which a browser that governs runs on another account.
LEMMA ServeRowInv == ASSUME UserInv, NEW m \in Managers, serveRow(m) PROVE UserInv'
<1> USE UsersAssumption
<1> DEFINE r == rowCall[m]
           u == r.id
           ok == u \in Existing /\ (r.op = "delete" => u # SessionId(m))
           next == [r EXCEPT !.stage = IF ok THEN "ok" ELSE "failed"]
<1>1. /\ r # NoCall /\ r \in RowCall /\ r.stage = "sent"
      /\ u \in Accounts /\ r.to \in BOOLEAN /\ r.op \in {"toggle", "delete"}
  <2>1. r # NoCall /\ r \in RowCall /\ r.stage = "sent"
    <3>1. r \in RowCall \cup {NoCall}
      BY DEF UserInv, UserTypeOK
    <3> QED BY <3>1 DEF serveRow
  <2> QED BY <2>1 DEF RowCall
<1>2. /\ rowCall' = [rowCall EXCEPT ![m] = next]
      /\ UNCHANGED <<session, table, dialogCall, grantor>>
  BY <1>1 DEF serveRow, Stage
<1>3. /\ next \in RowCall /\ next # NoCall /\ next.id = u /\ next.to = r.to /\ next.op = r.op
      /\ next.stage = IF ok THEN "ok" ELSE "failed"
  <2>1. /\ next \in RowCall /\ next.id = u /\ next.to = r.to /\ next.op = r.op
        /\ next.stage = IF ok THEN "ok" ELSE "failed"
    BY <1>1 DEF RowCall
  <2> QED BY <2>1
<1>4. rowCall'[m] = next /\ \A n \in Managers \ {m} : rowCall'[n] = rowCall[n]
  BY <1>2 DEF UserInv, UserTypeOK
<1> HIDE DEF next
<1>5. /\ table[m] # NoTable /\ u \in DOMAIN table[m].rows /\ session[m].role = "ADMIN"
      /\ session[m] # NoSession
  BY <1>1 DEF UserInv, CallsLinked
<1>6. CASE ~ok
  <2>1. UNCHANGED <<users, workers, unsure>>
    BY <1>6 DEF serveRow
  <2>2. WorkerTable'
    <3>1. ASSUME TableWithAnswers(m) PROVE TableWithAnswers(m)'
      <4>1. Made(m)' <=> Made(m)
        BY <1>2 DEF Made
      <4>2. \A op : ~Served(m, op) /\ ~Served(m, op)'
        BY <1>1, <1>3, <1>4, <1>6 DEF Served
      <4> QED BY <1>2, <2>1, <3>1, <4>1, <4>2 DEF TableWithAnswers
    <3> QED BY <1>2, <1>4, <2>1, <3>1, TableKept DEF UserInv, WorkerTable
  <2>3. UserTypeOK' /\ CallsLinked' /\ IdsFresh'
    BY <1>1, <1>2, <1>3, <1>4, <2>1 DEF UserInv, UserTypeOK, CallsLinked, IdsFresh
  <2>4. WorkerGoverns'
    BY <1>1, <1>2, <1>3, <1>4, <2>1 DEF UserInv, WorkerGoverns, Governs
  <2>5. RolesGranted' /\ AdminThere'
    BY <1>2, <2>1 DEF UserInv, RolesGranted, Existing, AdminThere
  <2> QED BY <2>2, <2>3, <2>4, <2>5 DEF UserInv
<1>7. CASE ok
  <2> DEFINE one == IF r.op = "delete" THEN NoAccount ELSE [users[u] EXCEPT !.active = r.to]
  <2>1. users[u] # NoAccount /\ users[u] \in Account
    BY <1>1, <1>7 DEF Existing, UserInv, UserTypeOK
  <2>2. /\ users' = [users EXCEPT ![u] = one] /\ workers' = workers \cup {m}
        /\ unsure' = [unsure EXCEPT ![m] = @ \ {u}]
    BY <1>7, <1>1 DEF serveRow
  <2>3. r.op = "toggle" => /\ one \in Account /\ one # NoAccount /\ one.active = r.to
                           /\ one.role = users[u].role
    <3>1. r.op = "toggle" => one \in Account /\ one.active = r.to /\ one.role = users[u].role
      BY <1>1, <2>1 DEF Account
    <3> QED BY <3>1
  <2>4. r.op = "delete" => one = NoAccount
    OBVIOUS
  <2> HIDE DEF one
  <2>5. users'[u] = one /\ \A v \in Accounts \ {u} : users'[v] = users[v]
    BY <2>2, <1>1 DEF UserInv, UserTypeOK
  <2>a. unsure' \in [Managers -> SUBSET Accounts] /\ unsure'[m] = unsure[m] \ {u}
    BY <2>2 DEF UserInv, UserTypeOK
  <2>6. UserTypeOK'
    BY <1>1, <1>2, <1>3, <2>2, <2>3, <2>4, <2>a DEF UserInv, UserTypeOK
  <2>7. CallsLinked'
    BY <1>1, <1>2, <1>3, <1>4 DEF UserInv, CallsLinked
  <2>8. IdsFresh'
    BY <1>2, <2>1, <2>5 DEF UserInv, IdsFresh
  <2>9. RolesGranted'
    BY <1>1, <1>2, <2>1, <2>3, <2>4, <2>5 DEF UserInv, RolesGranted, Existing
  <2>10. WorkerGoverns'
    <3> SUFFICES ASSUME NEW n \in Managers, workers' \subseteq {n}, session'[n] # NoSession
                 PROVE  Governs(n)'
      BY DEF WorkerGoverns, Governs
    <3>1. n = m /\ workers \subseteq {m}
      BY <2>2
    <3>2. Governs(m)
      BY <3>1 DEF UserInv, WorkerGoverns
    <3>3. session[m].id # u /\ session[m].id \in Accounts
      BY <1>1, <1>5, <3>2 DEF Governs, UserInv, UserTypeOK, Session
    <3>4. /\ session'[m] = session[m] /\ session[m] # NoSession
          /\ users'[session[m].id] = users[session[m].id]
      BY <1>2, <1>5, <2>5, <3>3
    <3>5. /\ rowCall'[m].id = u
          /\ table'[m] = table[m] /\ grantor'[m] = grantor[m] /\ dialogCall'[m] = dialogCall[m]
      BY <1>2, <1>3, <1>4
    <3> QED BY <3>1, <3>2, <3>3, <3>4, <3>5 DEF Governs
  <2>11. AdminThere'
    <3> SUFFICES ASSUME workers' = {} \/ \E n \in Managers : workers' \subseteq {n}
                 PROVE  \E v \in Accounts : users'[v] # NoAccount /\ users'[v].role = "ADMIN" /\ users'[v].active
      BY DEF AdminThere
    <3>1. workers \subseteq {m}
      BY <2>2
    <3>2. Governs(m)
      BY <3>1 DEF UserInv, WorkerGoverns
    <3>3. session[m].id # u /\ session[m].id \in Accounts
      BY <1>1, <1>5, <3>2 DEF Governs, UserInv, UserTypeOK, Session
    <3>4. /\ users'[session[m].id] # NoAccount /\ users'[session[m].id].active
          /\ users'[session[m].id].role = "ADMIN"
      BY <1>5, <2>5, <3>2, <3>3 DEF Governs
    <3> QED BY <3>3, <3>4
  <2>12. WorkerTable'
    <3> SUFFICES ASSUME NEW n \in Managers, workers' \subseteq {n}, table'[n] # NoTable
                 PROVE  TableWithAnswers(n)'
      BY DEF WorkerTable
    <3>1. n = m /\ workers \subseteq {m}
      BY <2>2
    <3>2. TableWithAnswers(m)
      BY <1>5, <3>1 DEF UserInv, WorkerTable
    <3>3. Made(m)' <=> Made(m)
      BY <1>2 DEF Made
    <3>4. /\ \A op : ~Served(m, op)
          /\ \A op : Served(m, op)' <=> r.op = op
      BY <1>1, <1>3, <1>4, <1>7 DEF Served
    <3>5. Made(m) => dialogCall[m].id # u
      BY <1>5, <3>2 DEF TableWithAnswers
    <3>6. ASSUME NEW v \in Accounts \ unsure'[m]
          PROVE  users'[v] # NoAccount <=>
                    \/ Made(m)' /\ v = dialogCall'[m].id
                    \/ v \in DOMAIN table'[m].rows /\ ~(Served(m, "delete")' /\ v = rowCall'[m].id)
      <4>1. rowCall'[m].id = u /\ table' = table /\ dialogCall' = dialogCall
        BY <1>2, <1>3, <1>4
      <4>2. CASE v = u
        <5>1. users'[v] # NoAccount <=> r.op = "toggle"
          BY <1>1, <2>3, <2>4, <2>5, <4>2
        <5> QED BY <1>1, <1>5, <3>3, <3>4, <3>5, <4>1, <4>2, <5>1
      <4>3. CASE v # u
        <5>1. users[v] # NoAccount <=> (Made(m) /\ v = dialogCall[m].id) \/ v \in DOMAIN table[m].rows
          BY <2>a, <3>2, <3>4, <4>3 DEF TableWithAnswers
        <5> QED BY <2>5, <3>3, <4>1, <4>3, <5>1
      <4> QED BY <4>2, <4>3
    <3>7. ASSUME NEW v \in Accounts \ unsure'[m], users'[v] # NoAccount
          PROVE  users'[v].active = IF Made(m)' /\ v = dialogCall'[m].id THEN TRUE
                                    ELSE IF Served(m, "toggle")' /\ v = rowCall'[m].id
                                    THEN rowCall'[m].to ELSE table'[m].rows[v]
      <4>1. CASE v = u
        <5>1. r.op = "toggle" /\ users'[v].active = r.to
          BY <1>1, <2>3, <2>4, <2>5, <3>7, <4>1
        <5> QED BY <1>2, <1>3, <1>4, <3>3, <3>4, <3>5, <4>1, <5>1
      <4>2. CASE v # u
        <5>1. users[v] # NoAccount /\ users'[v] = users[v]
          BY <2>5, <3>7, <4>2
        <5>2. users[v].active = IF Made(m) /\ v = dialogCall[m].id THEN TRUE ELSE table[m].rows[v]
          BY <2>a, <3>2, <3>4, <4>2, <5>1 DEF TableWithAnswers
        <5> QED BY <1>2, <1>3, <1>4, <3>3, <4>2, <5>1, <5>2
      <4> QED BY <4>1, <4>2
    <3>8. Made(m)' => dialogCall'[m].id \notin DOMAIN table'[m].rows
      BY <1>2, <3>2, <3>3 DEF TableWithAnswers
    <3> QED BY <3>1, <3>6, <3>7, <3>8 DEF TableWithAnswers
  <2> QED BY <2>6, <2>7, <2>8, <2>9, <2>10, <2>11, <2>12 DEF UserInv
<1> QED BY <1>6, <1>7

LEMMA CallDialogInv ==
    ASSUME UserInv, NEW m \in Managers, NEW role, NEW pseudo \in Pseudos,
           submitUser(m, role, pseudo) \/ saveInfo(m, pseudo)
    PROVE  UserInv'
<1> USE UsersAssumption
<1>1. PICK call \in DialogCall :
          /\ CallDialog(m, call) /\ session[m] # NoSession
          /\ call.stage = "sent" /\ (call.op = "create" => table[m] # NoTable)
  <2>1. CASE submitUser(m, role, pseudo)
    <3> DEFINE call == [op |-> "create", id |-> 0, role |-> role, pseudo |-> pseudo,
                        stage |-> "sent", rows |-> table[m].rows]
    <3>1. table[m] \in Table /\ role \in AppRole /\ table[m] # NoTable
      BY <2>1, Roles DEF submitUser, UserInv, UserTypeOK
    <3>2. call \in DialogCall
      BY <3>1 DEF DialogCall, Table
    <3>3. session[m] # NoSession
      BY <3>1 DEF UserInv, CallsLinked
    <3> QED BY <2>1, <3>1, <3>2, <3>3 DEF submitUser
  <2>2. CASE saveInfo(m, pseudo)
    <3> DEFINE call == [op |-> "rename", id |-> session[m].id, role |-> "", pseudo |-> pseudo,
                        stage |-> "sent", rows |-> <<>>]
    <3>1. session[m] # NoSession /\ session[m] \in Session
      BY <2>2 DEF saveInfo, UserInv, UserTypeOK
    <3>2. <<>> \in [{} -> BOOLEAN]
      OBVIOUS
    <3>3. <<>> \in Rows
      BY <3>2, RowsShape
    <3>4. call \in DialogCall
      BY <3>1, <3>3 DEF DialogCall, Session
    <3> QED BY <2>2, <3>1, <3>4 DEF saveInfo
  <2> QED BY <2>1, <2>2
<1>2. /\ dialogCall[m] = NoCall /\ dialogCall' = [dialogCall EXCEPT ![m] = call]
      /\ UNCHANGED <<users, session, table, rowCall, grantor, workers, unsure>>
  BY <1>1 DEF CallDialog
<1>3. dialogCall'[m] = call /\ \A n \in Managers \ {m} : dialogCall'[n] = dialogCall[n]
  BY <1>2 DEF UserInv, UserTypeOK
<1>4. UserTypeOK' /\ CallsLinked'
  BY <1>1, <1>2, <1>3 DEF UserInv, UserTypeOK, CallsLinked
<1>5. IdsFresh' /\ RolesGranted' /\ AdminThere'
  BY <1>2 DEF UserInv, IdsFresh, RolesGranted, Existing, AdminThere
<1>6. WorkerGoverns'
  BY <1>2 DEF UserInv, WorkerGoverns, Governs
<1>7. WorkerTable'
  <2>1. ASSUME TableWithAnswers(m) PROVE TableWithAnswers(m)'
    <3>1. ~Made(m) /\ ~Made(m)'
      BY <1>1, <1>2, <1>3 DEF Made
    <3>2. \A op : Served(m, op)' <=> Served(m, op)
      BY <1>2 DEF Served
    <3> QED BY <1>2, <2>1, <3>1, <3>2 DEF TableWithAnswers
  <2> QED BY <1>2, <1>3, <2>1, TableKept DEF UserInv, WorkerTable
<1> QED BY <1>4, <1>5, <1>6, <1>7 DEF UserInv

\* Any step of the dialog that leaves the accounts alone.
LEMMA DialogStageInv ==
    ASSUME UserInv, NEW m \in Managers, dialogCall[m] # NoCall, NEW stage \in {"checked", "failed"},
           dialogCall' = [dialogCall EXCEPT ![m].stage = stage], ~Made(m),
           dialogCall[m].op = "create" /\ stage = "checked"
               => dialogCall[m].role \in allowedRolesToAssign(session[m].role),
           UNCHANGED <<users, session, table, rowCall, grantor, workers, unsure>>
    PROVE  UserInv'
<1> DEFINE next == [dialogCall[m] EXCEPT !.stage = stage]
<1> USE UsersAssumption
<1>1. dialogCall[m] \in DialogCall
  BY DEF UserInv, UserTypeOK
<1>2. /\ next \in DialogCall /\ next # NoCall /\ next.stage = stage
      /\ next.op = dialogCall[m].op /\ next.role = dialogCall[m].role
  <2>1. /\ next \in DialogCall /\ next.stage = stage
        /\ next.op = dialogCall[m].op /\ next.role = dialogCall[m].role
    BY <1>1 DEF DialogCall
  <2> QED BY <2>1
<1>3. dialogCall' = [dialogCall EXCEPT ![m] = next]
  OBVIOUS
<1> HIDE DEF next
<1>4. dialogCall'[m] = next /\ \A n \in Managers \ {m} : dialogCall'[n] = dialogCall[n]
  BY <1>3 DEF UserInv, UserTypeOK
<1>5. UserTypeOK'
  BY <1>2, <1>3 DEF UserInv, UserTypeOK
<1>6. CallsLinked'
  BY <1>2, <1>4 DEF UserInv, CallsLinked
<1>7. IdsFresh' /\ RolesGranted' /\ AdminThere'
  BY DEF UserInv, IdsFresh, RolesGranted, Existing, AdminThere
<1>8. WorkerGoverns'
  BY DEF UserInv, WorkerGoverns, Governs
<1>9. WorkerTable'
  <2>1. ASSUME TableWithAnswers(m) PROVE TableWithAnswers(m)'
    <3>1. ~Made(m)'
      BY <1>2, <1>4 DEF Made
    <3>2. \A op : Served(m, op)' <=> Served(m, op)
      BY DEF Served
    <3> QED BY <2>1, <3>1, <3>2 DEF TableWithAnswers
  <2> QED BY <1>4, <2>1, TableKept DEF UserInv, WorkerTable
<1> QED BY <1>5, <1>6, <1>7, <1>8, <1>9 DEF UserInv

LEMMA CheckPseudoInv == ASSUME UserInv, NEW m \in Managers, checkPseudo(m) PROVE UserInv'
<1>1. PICK stage \in {"checked", "failed"} :
          /\ dialogCall' = [dialogCall EXCEPT ![m].stage = stage]
          /\ dialogCall[m].op = "create" /\ stage = "checked"
                => dialogCall[m].role \in allowedRolesToAssign(session[m].role)
  BY DEF checkPseudo
<1> QED BY <1>1, DialogStageInv DEF checkPseudo, Made

\* The account is made by somebody who may, with an identifier that nobody knows.
LEMMA CreateUserInv ==
    ASSUME UserInv, NEW m \in Managers, NEW u \in FreeIds,
           dialogCall[m] # NoCall, dialogCall[m].stage = "checked", dialogCall[m].op = "create",
           users' = [users EXCEPT ![u] = account(dialogCall[m].role, dialogCall[m].pseudo)],
           grantor' = [grantor EXCEPT ![u] = session[m].role],
           dialogCall' = [dialogCall EXCEPT ![m].stage = "ok", ![m].id = u],
           workers' = workers \cup {m}, UNCHANGED <<session, table, rowCall, unsure>>
    PROVE  UserInv'
<1> USE UsersAssumption
<1> DEFINE one == account(dialogCall[m].role, dialogCall[m].pseudo)
           next == [dialogCall[m] EXCEPT !.stage = "ok", !.id = u]
<1>1. /\ u \in Accounts /\ grantor[u] = NoAccount /\ users[u] = NoAccount
      /\ \A n \in Managers : table[n] # NoTable => u \notin DOMAIN table[n].rows
  BY DEF FreeIds, UserInv, IdsFresh
<1>2. /\ dialogCall[m] \in DialogCall /\ session[m] \in Session /\ session[m].role \in AppRole
      /\ dialogCall[m].role \in allowedRolesToAssign(session[m].role)
      /\ table[m] # NoTable /\ session[m] # NoSession
  BY DEF UserInv, UserTypeOK, CallsLinked, Session
<1>3. dialogCall[m].role \in AppRole
  BY <1>2, Roles
<1>4. one \in Account /\ one # NoAccount /\ one.active = TRUE /\ one.role = dialogCall[m].role
  <2>1. one \in Account /\ one.active = TRUE /\ one.role = dialogCall[m].role
    BY <1>2, <1>3 DEF account, Account, DialogCall
  <2> QED BY <2>1
<1>5. next \in DialogCall /\ next # NoCall /\ next.stage = "ok" /\ next.id = u /\ next.op = "create"
  <2>1. next \in DialogCall /\ next.stage = "ok" /\ next.id = u /\ next.op = "create"
    BY <1>1, <1>2 DEF DialogCall
  <2> QED BY <2>1
<1>6. dialogCall' = [dialogCall EXCEPT ![m] = next]
  OBVIOUS
<1> HIDE DEF one, next
<1>a. users' = [users EXCEPT ![u] = one]
  BY DEF one
<1>7. /\ dialogCall'[m] = next /\ \A n \in Managers \ {m} : dialogCall'[n] = dialogCall[n]
      /\ users'[u] = one /\ \A v \in Accounts \ {u} : users'[v] = users[v]
      /\ grantor'[u] = session[m].role /\ \A v \in Accounts \ {u} : grantor'[v] = grantor[v]
  BY <1>1, <1>6, <1>a DEF UserInv, UserTypeOK
<1>8. UserTypeOK'
  <2>1. users' \in [Accounts -> Account \cup {NoAccount}]
    BY <1>4, <1>a DEF UserInv, UserTypeOK
  <2>2. dialogCall' \in [Managers -> DialogCall \cup {NoCall}]
    BY <1>5, <1>6 DEF UserInv, UserTypeOK
  <2>3. grantor' \in [Accounts -> AppRole \cup {NoAccount}]
    BY <1>2 DEF UserInv, UserTypeOK
  <2> QED BY <2>1, <2>2, <2>3 DEF UserInv, UserTypeOK
<1>9. CallsLinked'
  <2>1. \A v \in Accounts : grantor[v] # NoAccount => grantor'[v] # NoAccount
    BY <1>1, <1>7
  <2>2. u \in Accounts /\ grantor'[u] # NoAccount
    BY <1>1, <1>2, <1>7
  <2>3. \A n \in Managers \ {m} : dialogCall[n] # NoCall =>
           /\ session[n] # NoSession
           /\ dialogCall[n].op = "create" => table[n] # NoTable
           /\ dialogCall[n].op = "create" /\ dialogCall[n].stage = "checked"
                => dialogCall[n].role \in allowedRolesToAssign(session[n].role)
           /\ dialogCall[n].op = "create" /\ dialogCall[n].stage = "ok"
                => dialogCall[n].id \in Accounts /\ grantor'[dialogCall[n].id] # NoAccount
    BY <2>1 DEF UserInv, CallsLinked
  <2>4. \A n \in Managers :
           /\ table[n] # NoTable => session[n] # NoSession
           /\ rowCall[n] # NoCall =>
                 /\ table[n] # NoTable /\ rowCall[n].id \in DOMAIN table[n].rows
                 /\ session[n].role = "ADMIN"
    BY DEF UserInv, CallsLinked
  <2>5. \A n \in Managers \ {m} : dialogCall'[n] = dialogCall[n]
    BY <1>7
  <2>6. dialogCall'[m].stage = "ok" /\ dialogCall'[m].id = u
    BY <1>5, <1>7
  <2>7. ASSUME NEW n \in Managers, dialogCall'[n] # NoCall
        PROVE  /\ session'[n] # NoSession
               /\ dialogCall'[n].op = "create" => table'[n] # NoTable
               /\ dialogCall'[n].op = "create" /\ dialogCall'[n].stage = "checked"
                    => dialogCall'[n].role \in allowedRolesToAssign(session'[n].role)
               /\ dialogCall'[n].op = "create" /\ dialogCall'[n].stage = "ok"
                    => dialogCall'[n].id \in Accounts /\ grantor'[dialogCall'[n].id] # NoAccount
    <3>1. CASE n = m
      BY <1>2, <2>2, <2>6, <3>1
    <3>2. CASE n # m
      BY <2>3, <2>5, <2>7, <3>2
    <3> QED BY <3>1, <3>2
  <2> QED BY <2>4, <2>7 DEF CallsLinked
<1>10. IdsFresh'
  <2>1. grantor'[u] # NoAccount
    BY <1>2, <1>7
  <2> QED BY <2>1, <1>7 DEF UserInv, IdsFresh
<1>11. RolesGranted'
  <2>1. grantor'[u] = "ADMIN" \/ level(users'[u].role) < level(grantor'[u])
    BY <1>2, <1>4, <1>7, Roles
  <2> QED BY <2>1, <1>7 DEF UserInv, RolesGranted, Existing
<1>12. WorkerGoverns'
  <2> SUFFICES ASSUME NEW n \in Managers, workers' \subseteq {n}, session'[n] # NoSession
               PROVE  Governs(n)'
    BY DEF WorkerGoverns, Governs
  <2>1. n = m /\ workers \subseteq {m}
    OBVIOUS
  <2>2. Governs(m)
    BY <2>1 DEF UserInv, WorkerGoverns
  <2>3. session[m].id # u /\ session[m].id \in Accounts
    BY <1>1, <1>2, <2>2 DEF Governs, Session
  <2> QED BY <1>7, <2>1, <2>2, <2>3 DEF Governs
<1>13. AdminThere'
  <2> SUFFICES ASSUME workers' = {} \/ \E n \in Managers : workers' \subseteq {n}
               PROVE  \E v \in Accounts : users'[v] # NoAccount /\ users'[v].role = "ADMIN" /\ users'[v].active
    BY DEF AdminThere
  <2>1. PICK v \in Accounts : users[v] # NoAccount /\ users[v].role = "ADMIN" /\ users[v].active
    BY DEF UserInv, AdminThere
  <2>2. v # u /\ users'[v] = users[v]
    BY <1>1, <1>7, <2>1
  <2> QED BY <2>1, <2>2
<1>14. WorkerTable'
  <2> SUFFICES ASSUME NEW n \in Managers, workers' \subseteq {n}, table'[n] # NoTable
               PROVE  TableWithAnswers(n)'
    BY DEF WorkerTable
  <2>1. n = m /\ workers \subseteq {m}
    OBVIOUS
  <2>2. TableWithAnswers(m)
    BY <1>2, <2>1 DEF UserInv, WorkerTable
  <2>3. ~Made(m) /\ Made(m)' /\ dialogCall'[m].id = u
    BY <1>5, <1>7 DEF Made
  <2>4. \A op : Served(m, op)' <=> Served(m, op)
    BY DEF Served
  <2>5. ASSUME NEW v \in Accounts \ unsure[m]
        PROVE  users'[v] # NoAccount <=>
                  \/ v = u
                  \/ v \in DOMAIN table[m].rows /\ ~(Served(m, "delete") /\ v = rowCall[m].id)
    <3>1. CASE v = u
      BY <1>4, <1>7, <3>1
    <3>2. CASE v # u
      <4>1. users[v] # NoAccount <=>
              v \in DOMAIN table[m].rows /\ ~(Served(m, "delete") /\ v = rowCall[m].id)
        BY <2>2, <2>3 DEF TableWithAnswers
      <4> QED BY <1>7, <3>2, <4>1
    <3> QED BY <3>1, <3>2
  <2>6. ASSUME NEW v \in Accounts \ unsure[m], users'[v] # NoAccount
        PROVE  users'[v].active = IF v = u THEN TRUE
                                  ELSE IF Served(m, "toggle") /\ v = rowCall[m].id
                                  THEN rowCall[m].to ELSE table[m].rows[v]
    <3>1. CASE v = u
      <4>1. users'[v].active = TRUE
        BY <1>4, <1>7, <3>1
      <4> QED BY <3>1, <4>1
    <3>2. CASE v # u
      <4>1. users[v] # NoAccount /\ users'[v] = users[v]
        BY <1>7, <2>6, <3>2
      <4>2. users[v].active = IF Served(m, "toggle") /\ v = rowCall[m].id
                              THEN rowCall[m].to ELSE table[m].rows[v]
        BY <2>2, <2>3, <4>1 DEF TableWithAnswers
      <4> QED BY <3>2, <4>1, <4>2
    <3> QED BY <3>1, <3>2
  <2>7. dialogCall'[m].id \notin DOMAIN table'[m].rows
    BY <1>1, <1>2, <2>3
  <2>8. TableWithAnswers(m)'
    <3>1. \A v \in Accounts \ unsure[m] :
             users'[v] # NoAccount <=>
                \/ Made(m)' /\ v = dialogCall'[m].id
                \/ v \in DOMAIN table'[m].rows /\ ~(Served(m, "delete")' /\ v = rowCall'[m].id)
      BY <2>3, <2>4, <2>5
    <3>2. \A v \in Accounts \ unsure[m] : users'[v] # NoAccount =>
             users'[v].active = IF Made(m)' /\ v = dialogCall'[m].id THEN TRUE
                                ELSE IF Served(m, "toggle")' /\ v = rowCall'[m].id
                                THEN rowCall'[m].to ELSE table'[m].rows[v]
      BY <2>3, <2>4, <2>6
    <3> QED BY <2>7, <3>1, <3>2 DEF TableWithAnswers
  <2> QED BY <2>1, <2>8
<1> QED BY <1>8, <1>9, <1>10, <1>11, <1>12, <1>13, <1>14 DEF UserInv

LEMMA RenameUserInv ==
    ASSUME UserInv, NEW m \in Managers,
           dialogCall[m] # NoCall, dialogCall[m].op = "rename", dialogCall[m].id \in Existing,
           users' = [users EXCEPT ![dialogCall[m].id].pseudo = dialogCall[m].pseudo],
           dialogCall' = [dialogCall EXCEPT ![m].stage = "ok"],
           UNCHANGED <<session, table, rowCall, grantor, workers, unsure>>
    PROVE  UserInv'
<1> USE UsersAssumption
<1> DEFINE u == dialogCall[m].id
           one == [users[u] EXCEPT !.pseudo = dialogCall[m].pseudo]
           next == [dialogCall[m] EXCEPT !.stage = "ok"]
<1>1. /\ u \in Accounts /\ users[u] # NoAccount /\ users[u] \in Account
      /\ dialogCall[m] \in DialogCall
  BY DEF Existing, UserInv, UserTypeOK
<1>2. one \in Account /\ one # NoAccount /\ one.active = users[u].active /\ one.role = users[u].role
  <2>1. one \in Account /\ one.active = users[u].active /\ one.role = users[u].role
    BY <1>1 DEF Account, DialogCall
  <2> QED BY <2>1
<1>3. next \in DialogCall /\ next # NoCall /\ next.op = "rename"
  <2>1. next \in DialogCall /\ next.op = "rename"
    BY <1>1 DEF DialogCall
  <2> QED BY <2>1
<1>4. users' = [users EXCEPT ![u] = one] /\ dialogCall' = [dialogCall EXCEPT ![m] = next]
  OBVIOUS
<1> HIDE DEF u, one, next
<1>5. /\ dialogCall'[m] = next /\ \A n \in Managers \ {m} : dialogCall'[n] = dialogCall[n]
      /\ \A v \in Accounts : users'[v] = IF v = u THEN one ELSE users[v]
  BY <1>1, <1>4 DEF UserInv, UserTypeOK
<1>6. \A v \in Accounts : /\ users'[v] = NoAccount <=> users[v] = NoAccount
                          /\ users[v] # NoAccount => /\ users'[v].active = users[v].active
                                                     /\ users'[v].role = users[v].role
  BY <1>1, <1>2, <1>5
<1>7. UserTypeOK'
  <2>1. users' \in [Accounts -> Account \cup {NoAccount}]
    <3>1. users \in [Accounts -> Account \cup {NoAccount}]
      BY DEF UserInv, UserTypeOK
    <3> QED BY <1>2, <1>4, <3>1
  <2>2. dialogCall' \in [Managers -> DialogCall \cup {NoCall}]
    BY <1>3, <1>4 DEF UserInv, UserTypeOK
  <2> QED BY <2>1, <2>2 DEF UserInv, UserTypeOK
<1>8. CallsLinked' /\ IdsFresh'
  BY <1>3, <1>5, <1>6 DEF UserInv, CallsLinked, IdsFresh
<1>9. RolesGranted' /\ AdminThere'
  BY <1>6 DEF UserInv, RolesGranted, Existing, AdminThere
<1>10. WorkerGoverns'
  BY <1>6 DEF UserInv, WorkerGoverns, Governs, UserTypeOK, Session
<1>11. WorkerTable'
  <2>1. ASSUME TableWithAnswers(m) PROVE TableWithAnswers(m)'
    <3>1. ~Made(m) /\ ~Made(m)'
      BY <1>3, <1>5 DEF Made
    <3>2. \A op : Served(m, op)' <=> Served(m, op)
      BY DEF Served
    <3> QED BY <1>6, <2>1, <3>1, <3>2 DEF TableWithAnswers
  <2> QED BY <1>5, <1>6, <2>1, TableKept DEF UserInv, WorkerTable
<1> QED BY <1>7, <1>8, <1>9, <1>10, <1>11 DEF UserInv

LEMMA WriteUserInv == ASSUME UserInv, NEW m \in Managers, writeUser(m) PROVE UserInv'
<1>1. ASSUME NEW u \in FreeIds,
             users' = [users EXCEPT ![u] = account(dialogCall[m].role, dialogCall[m].pseudo)],
             grantor' = [grantor EXCEPT ![u] = session[m].role],
             dialogCall' = [dialogCall EXCEPT ![m].stage = "ok", ![m].id = u],
             dialogCall[m].op = "create", workers' = workers \cup {m}
      PROVE  UserInv'
  BY <1>1, CreateUserInv DEF writeUser
<1>2. CASE /\ dialogCall[m].op = "rename" /\ dialogCall[m].id \in Existing
           /\ users' = [users EXCEPT ![dialogCall[m].id].pseudo = dialogCall[m].pseudo]
           /\ dialogCall' = [dialogCall EXCEPT ![m].stage = "ok"]
           /\ UNCHANGED <<grantor, workers>>
  BY <1>2, RenameUserInv DEF writeUser
<1>3. CASE /\ dialogCall' = [dialogCall EXCEPT ![m].stage = "failed"]
           /\ UNCHANGED <<users, grantor, workers>>
  BY <1>3, DialogStageInv DEF writeUser, Made
<1> QED BY <1>1, <1>2, <1>3 DEF writeUser

\* The answer of the dialog: a new account is a new row.
LEMMA AnswerDialogInv == ASSUME UserInv, NEW m \in Managers, answerDialog(m) PROVE UserInv'
<1> USE UsersAssumption
<1> DEFINE rows == table[m].rows
           id == dialogCall[m].id
           done == [v \in {id} \cup DOMAIN rows |-> IF v = id THEN TRUE ELSE rows[v]]
           page == [table[m] EXCEPT !.rows = done]
<1>1. /\ dialogCall[m] # NoCall /\ dialogCall[m] \in DialogCall
      /\ dialogCall' = [dialogCall EXCEPT ![m] = NoCall]
      /\ UNCHANGED <<users, session, rowCall, grantor, workers, unsure>>
  <2>1. dialogCall[m] \in DialogCall \cup {NoCall}
    BY DEF UserInv, UserTypeOK
  <2> QED BY <2>1 DEF answerDialog
<1>2. dialogCall'[m] = NoCall /\ \A n \in Managers \ {m} : dialogCall'[n] = dialogCall[n]
  BY <1>1 DEF UserInv, UserTypeOK
<1>3. ~Made(m)' /\ \A n \in Managers : \A op : Served(n, op)' <=> Served(n, op)
  BY <1>1, <1>2 DEF Made, Served
<1>4. RolesGranted' /\ AdminThere'
  BY <1>1 DEF UserInv, RolesGranted, Existing, AdminThere
<1>5. CASE ~Made(m)
  <2>1. UNCHANGED table
    BY <1>1, <1>5 DEF answerDialog, Made
  <2>2. UserTypeOK' /\ CallsLinked' /\ IdsFresh'
    BY <1>1, <1>2, <2>1 DEF UserInv, UserTypeOK, CallsLinked, IdsFresh
  <2>3. WorkerGoverns'
    BY <1>1, <2>1 DEF UserInv, WorkerGoverns, Governs
  <2>4. TableWithAnswers(m) => TableWithAnswers(m)'
    BY <1>1, <1>3, <1>5, <2>1 DEF TableWithAnswers
  <2>5. WorkerTable'
    BY <1>1, <1>2, <2>1, <2>4, TableKept DEF UserInv, WorkerTable
  <2> QED BY <1>4, <2>2, <2>3, <2>5 DEF UserInv
<1>6. CASE Made(m)
  <2>1. /\ table[m] # NoTable /\ table[m] \in Table
        /\ rows \in Rows /\ DOMAIN rows \subseteq Accounts /\ rows \in [DOMAIN rows -> BOOLEAN]
    <3>1. table[m] # NoTable /\ table[m] \in Table
      BY <1>6 DEF UserInv, UserTypeOK, CallsLinked, Made
    <3>2. rows \in Rows
      BY <3>1 DEF Table
    <3> QED BY <3>1, <3>2, RowsShape
  <2>2. id \in Accounts /\ grantor[id] # NoAccount
    BY <1>6 DEF UserInv, CallsLinked, Made
  <2>3. handleCreated(m) = done
    BY DEF handleCreated, WithRow
  <2>4. table' = [table EXCEPT ![m] = page]
    BY <1>6, <2>3 DEF answerDialog, Made
  <2>5. done \in Rows
    <3>1. done = WithRow(rows, id)
      BY DEF WithRow
    <3>2. WithRow(rows, id) \in Rows
      BY <2>1, <2>2, WithRowType
    <3> HIDE DEF done
    <3> QED BY <3>1, <3>2
  <2>6. /\ DOMAIN done = {id} \cup DOMAIN rows
        /\ \A v \in DOMAIN done : done[v] = IF v = id THEN TRUE ELSE rows[v]
    OBVIOUS
  <2> HIDE DEF done
  <2>7. page.rows = done /\ page.self = table[m].self /\ page \in Table /\ page # NoTable
    <3>1. page.rows = done /\ page.self = table[m].self /\ page \in Table
      BY <2>1, <2>5 DEF Table
    <3> QED BY <3>1
  <2> HIDE DEF page
  <2>8. table'[m] = page /\ \A n \in Managers \ {m} : table'[n] = table[n]
    BY <2>4 DEF UserInv, UserTypeOK
  <2>9. UserTypeOK'
    <3>1. table' \in [Managers -> Table \cup {NoTable}]
      BY <2>4, <2>7 DEF UserInv, UserTypeOK
    <3> QED BY <1>1, <3>1 DEF UserInv, UserTypeOK
  <2>10. CallsLinked'
    BY <1>1, <1>2, <2>1, <2>6, <2>7, <2>8 DEF UserInv, CallsLinked
  <2>11. IdsFresh'
    BY <1>1, <2>1, <2>2, <2>6, <2>7, <2>8 DEF UserInv, IdsFresh
  <2>12. WorkerGoverns'
    BY <1>1, <2>1, <2>7, <2>8 DEF UserInv, WorkerGoverns, Governs
  <2>13. ASSUME TableWithAnswers(m) PROVE TableWithAnswers(m)'
    <3>1. id \notin DOMAIN rows
      BY <1>6, <2>13 DEF TableWithAnswers
    <3>2. table'[m].rows = done
      BY <2>7, <2>8
    <3>3. ASSUME NEW v \in Accounts \ unsure[m]
          PROVE  users'[v] # NoAccount <=>
                    v \in DOMAIN table'[m].rows /\ ~(Served(m, "delete")' /\ v = rowCall'[m].id)
      <4>1. users[v] # NoAccount <=>
              (v = id \/ (v \in DOMAIN rows /\ ~(Served(m, "delete") /\ v = rowCall[m].id)))
        BY <1>6, <2>13 DEF TableWithAnswers
      <4>2. Served(m, "delete") => rowCall[m].id # id
        BY <3>1 DEF Served, UserInv, CallsLinked
      <4> QED BY <1>1, <1>3, <2>6, <3>2, <4>1, <4>2
    <3>4. ASSUME NEW v \in Accounts \ unsure[m], users'[v] # NoAccount
          PROVE  users'[v].active = IF Served(m, "toggle")' /\ v = rowCall'[m].id
                                    THEN rowCall'[m].to ELSE table'[m].rows[v]
      <4>1. users[v].active = IF v = id THEN TRUE
                              ELSE IF Served(m, "toggle") /\ v = rowCall[m].id
                              THEN rowCall[m].to ELSE rows[v]
        BY <1>1, <1>6, <2>13, <3>4 DEF TableWithAnswers
      <4>2. Served(m, "toggle") => rowCall[m].id # id
        BY <3>1 DEF Served, UserInv, CallsLinked
      <4>3. v \in DOMAIN done
        BY <3>2, <3>3, <3>4
      <4>4. users'[v] = users[v] /\ rowCall' = rowCall /\ (Served(m, "toggle")' <=> Served(m, "toggle"))
        BY <1>1, <1>3
      <4> QED BY <2>6, <3>2, <4>1, <4>2, <4>3, <4>4
    <3> QED BY <1>1, <1>3, <3>3, <3>4 DEF TableWithAnswers
  <2>14. WorkerTable'
    BY <1>1, <1>2, <2>1, <2>8, <2>13, TableKept DEF UserInv, WorkerTable
  <2> QED BY <1>4, <2>9, <2>10, <2>11, <2>12, <2>14 DEF UserInv
<1> QED BY <1>5, <1>6

\* A lost answer makes its account unsure, and nothing else wrong.
LEMMA LoseRowInv == ASSUME UserInv, NEW m \in Managers, loseRow(m) PROVE UserInv'
<1> USE UsersAssumption
<1> DEFINE r == rowCall[m]
<1>1. /\ r # NoCall /\ r \in RowCall /\ r.id \in Accounts
      /\ rowCall' = [rowCall EXCEPT ![m] = NoCall]
      /\ UNCHANGED <<users, session, table, dialogCall, grantor, workers>>
  <2>1. r # NoCall /\ r \in RowCall
    BY DEF loseRow, UserInv, UserTypeOK
  <2> QED BY <2>1 DEF loseRow, RowCall
<1>2. /\ rowCall'[m] = NoCall /\ \A n \in Managers \ {m} : rowCall'[n] = rowCall[n]
      /\ unsure' \in [Managers -> SUBSET Accounts]
      /\ unsure'[m] = IF r.stage = "ok" THEN unsure[m] \cup {r.id} ELSE unsure[m]
      /\ \A n \in Managers \ {m} : unsure'[n] = unsure[n]
  BY <1>1 DEF loseRow, UserInv, UserTypeOK
<1>3. UserTypeOK' /\ CallsLinked' /\ IdsFresh'
  <2>1. rowCall' \in [Managers -> RowCall \cup {NoCall}]
    BY <1>1 DEF UserInv, UserTypeOK
  <2>2. UserTypeOK'
    BY <1>1, <1>2, <2>1 DEF UserInv, UserTypeOK
  <2>3. CallsLinked'
    BY <1>1, <1>2 DEF UserInv, CallsLinked
  <2> QED BY <1>1, <2>2, <2>3 DEF UserInv, IdsFresh
<1>4. WorkerGoverns' /\ RolesGranted' /\ AdminThere'
  <2>1. WorkerGoverns'
    BY <1>1, <1>2 DEF UserInv, WorkerGoverns, Governs
  <2> QED BY <1>1, <2>1 DEF UserInv, RolesGranted, Existing, AdminThere
<1>5. ASSUME TableWithAnswers(m) PROVE TableWithAnswers(m)'
  <2>1. (Made(m)' <=> Made(m)) /\ \A op : ~Served(m, op)'
    BY <1>1, <1>2 DEF Made, Served
  <2>2. \A u \in Accounts \ unsure'[m] : \A op : ~(Served(m, op) /\ u = r.id)
    BY <1>2 DEF Served
  <2>3. unsure[m] \subseteq unsure'[m]
    BY <1>2
  <2> QED BY <1>1, <1>5, <2>1, <2>2, <2>3 DEF TableWithAnswers
<1>6. WorkerTable'
  BY <1>1, <1>2, <1>5, TableKept DEF UserInv, WorkerTable
<1> QED BY <1>3, <1>4, <1>6 DEF UserInv

LEMMA LoseDialogInv == ASSUME UserInv, NEW m \in Managers, loseDialog(m) PROVE UserInv'
<1> USE UsersAssumption
<1> DEFINE c == dialogCall[m]
<1>1. /\ c # NoCall /\ dialogCall' = [dialogCall EXCEPT ![m] = NoCall]
      /\ UNCHANGED <<users, session, table, rowCall, grantor, workers>>
  BY DEF loseDialog
<1>2. Made(m) => c.id \in Accounts
  BY DEF Made, UserInv, CallsLinked
<1>3. /\ dialogCall'[m] = NoCall /\ \A n \in Managers \ {m} : dialogCall'[n] = dialogCall[n]
      /\ unsure' \in [Managers -> SUBSET Accounts]
      /\ unsure'[m] = IF Made(m) THEN unsure[m] \cup {c.id} ELSE unsure[m]
      /\ \A n \in Managers \ {m} : unsure'[n] = unsure[n]
  BY <1>1, <1>2 DEF loseDialog, Made, UserInv, UserTypeOK
<1>4. UserTypeOK' /\ CallsLinked' /\ IdsFresh'
  <2>1. dialogCall' \in [Managers -> DialogCall \cup {NoCall}]
    BY <1>1 DEF UserInv, UserTypeOK
  <2>2. UserTypeOK'
    BY <1>1, <1>3, <2>1 DEF UserInv, UserTypeOK
  <2>3. CallsLinked'
    BY <1>1, <1>3 DEF UserInv, CallsLinked
  <2> QED BY <1>1, <2>2, <2>3 DEF UserInv, IdsFresh
<1>5. WorkerGoverns' /\ RolesGranted' /\ AdminThere'
  <2>1. WorkerGoverns'
    BY <1>1 DEF UserInv, WorkerGoverns, Governs
  <2> QED BY <1>1, <2>1 DEF UserInv, RolesGranted, Existing, AdminThere
<1>6. ASSUME TableWithAnswers(m) PROVE TableWithAnswers(m)'
  <2>1. ~Made(m)' /\ \A op : Served(m, op)' <=> Served(m, op)
    BY <1>1, <1>3 DEF Made, Served
  <2>2. \A u \in Accounts \ unsure'[m] : ~(Made(m) /\ u = c.id)
    BY <1>3
  <2>3. unsure[m] \subseteq unsure'[m]
    BY <1>3
  <2> QED BY <1>1, <1>6, <2>1, <2>2, <2>3 DEF TableWithAnswers
<1>7. WorkerTable'
  BY <1>1, <1>3, <1>6, TableKept DEF UserInv, WorkerTable
<1> QED BY <1>4, <1>5, <1>7 DEF UserInv

LEMMA UserNextInv == UserInv /\ [WebNext]_webVars => UserInv'
<1> SUFFICES ASSUME UserInv, [WebNext]_webVars PROVE UserInv'
  OBVIOUS
<1>1. CASE UNCHANGED userVars
  <2>1. WorkerTable'
    BY <1>1, TableKept DEF userVars, UserInv, WorkerTable
  <2> QED BY <1>1, <2>1 DEF UserInv, UserTypeOK, CallsLinked, IdsFresh, RolesGranted, Existing,
                            WorkerGoverns, Governs, AdminThere, userVars
<1>2. CASE UserStep
  <2> PICK m \in Managers :
         \/ \E u \in Accounts : authorize(m, u) \/ toggleActive(m, u) \/ doDelete(m, u)
         \/ AdminUsersPage(m)
         \/ \E role \in NewRoles, pseudo \in Pseudos : submitUser(m, role, pseudo)
         \/ \E pseudo \in Pseudos : saveInfo(m, pseudo)
         \/ serveRow(m) \/ answerRow(m) \/ checkPseudo(m) \/ writeUser(m) \/ answerDialog(m)
         \/ loseRow(m) \/ loseDialog(m)
    BY <1>2 DEF UserStep
  <2>1. CASE \E u \in Accounts : authorize(m, u) \/ toggleActive(m, u) \/ doDelete(m, u)
    BY <2>1, AuthorizeInv, CallRowInv
  <2>2. CASE AdminUsersPage(m)
    BY <2>2, PageInv
  <2>3. CASE \/ \E role \in NewRoles, pseudo \in Pseudos : submitUser(m, role, pseudo)
             \/ \E pseudo \in Pseudos : saveInfo(m, pseudo)
    BY <2>3, CallDialogInv
  <2>4. CASE serveRow(m) \/ answerRow(m)
    BY <2>4, ServeRowInv, AnswerRowInv
  <2>5. CASE checkPseudo(m) \/ writeUser(m) \/ answerDialog(m)
    BY <2>5, CheckPseudoInv, WriteUserInv, AnswerDialogInv
  <2>6. CASE loseRow(m) \/ loseDialog(m)
    BY <2>6, LoseRowInv, LoseDialogInv
  <2> QED BY <2>1, <2>2, <2>3, <2>4, <2>5, <2>6
<1> QED BY <1>1, <1>2 DEF WebNext, webVars

\* Nobody hands out a role as high as his own without being an administrator, and
\* as long as a single browser manages the accounts an active administrator is left
\* (roles.ts, UsersTable.tsx and the routes of api/users).
THEOREM AccountsTheorem == WebSpec => []AccountsGoverned
<1>1. WebInit => UserInv
  BY UserInitInv DEF WebInit
<1>2. UserInv => AccountsGoverned
  <2> SUFFICES ASSUME UserInv, Cardinality(workers) <= 1
               PROVE  \E u \in Existing : users[u].role = "ADMIN" /\ users[u].active
    BY DEF UserInv, AccountsGoverned, AdminRemains
  <2>1. IsFiniteSet(workers) /\ workers \subseteq Managers
    BY UsersAssumption, FS_Subset DEF UserInv, UserTypeOK
  <2>2. \A m, n \in workers : m = n
    <3> SUFFICES ASSUME NEW m \in workers, NEW n \in workers, m # n PROVE FALSE
      OBVIOUS
    <3>1. Cardinality({m, n}) <= Cardinality(workers)
      BY <2>1, FS_Subset
    <3>2. Cardinality({m} \cup {n}) = Cardinality({m}) + 1 /\ Cardinality({m}) = 1
      BY FS_Singleton, FS_AddElement
    <3>3. {m, n} = {m} \cup {n}
      OBVIOUS
    <3>4. Cardinality(workers) \in Nat
      BY <2>1, FS_CardinalityType
    <3> QED BY <3>1, <3>2, <3>3, <3>4
  <2>3. workers = {} \/ \E m \in Managers : workers \subseteq {m}
    BY <2>1, <2>2
  <2> QED BY <2>3 DEF UserInv, AdminThere, Existing
<1> QED BY <1>1, <1>2, UserNextInv, PTL DEF WebSpec

\* The table of the only browser that manages the accounts is the database, whatever
\* rows and dialogs it had under way at the same time and whatever answers were lost
\* (UsersTable.tsx merges each answer into the rows that it has then), but for the
\* accounts whose last change was done without an answer.
THEOREM TableTheorem == WebSpec => []TableTrue
<1>1. WebInit => UserInv
  BY UserInitInv DEF WebInit
<1>2. UserInv => TableTrue
  <2> SUFFICES ASSUME UserInv, NEW m \in Managers, table[m] # NoTable, workers \subseteq {m},
                      rowCall[m] = NoCall, dialogCall[m] = NoCall, NEW u \in Accounts \ unsure[m]
               PROVE  /\ u \in DOMAIN table[m].rows <=> u \in Existing
                      /\ u \in Existing => table[m].rows[u] = users[u].active
    BY DEF TableTrue
  <2> QED BY DEF UserInv, WorkerTable, TableWithAnswers, Made, Served, Existing
<1> QED BY <1>1, <1>2, UserNextInv, PTL DEF WebSpec

-----------------------------------------------------------------------------
(***************************************************************************)
(* Songs and plans.                                                        *)
(***************************************************************************)
\* What can be left of a request: of a form of songs, of an import, and of a form
\* of plans, whose items are a second request.
SongTodos ==
    {<<"checkKey", "create">>, <<"create">>, <<"checkDoc", "lock", "delete", "insert">>,
     <<"lock", "delete", "insert">>, <<"delete", "insert">>, <<"insert">>, <<>>}

ImportTodos ==
    {<<"next">>, <<"create", "next">>, <<"delete", "insert", "next">>, <<"insert", "next">>}

ItemTodos == {<<"checkDoc", "delete", "insert">>, <<"delete", "insert">>, <<"insert">>, <<>>}

PlanOnlyTodos ==
    {<<"checkKey", "create">>, <<"create">>, <<"checkDoc", "update">>, <<"update">>}

PlanTodos ==
    PlanOnlyTodos \cup ItemTodos
        \cup {<<"checkKey", "create", "checkDoc", "delete", "insert">>,
              <<"create", "checkDoc", "delete", "insert">>,
              <<"checkDoc", "update", "checkDoc", "delete", "insert">>,
              <<"update", "checkDoc", "delete", "insert">>}

Todos(k, mode) ==
    IF mode # "none" THEN ImportTodos ELSE IF k = "song" THEN SongTodos ELSE PlanTodos

First(todo, what) == todo # <<>> /\ Head(todo) = what

\* Its rows are not written yet.
Pending(todo) == \E i \in DOMAIN todo : todo[i] \in {"create", "insert"}

Creates(todo) == First(todo, "checkKey") \/ First(todo, "create")

Works(todo) ==
    \/ First(todo, "checkDoc") \/ First(todo, "update") \/ First(todo, "lock")
    \/ First(todo, "delete") \/ First(todo, "insert")

LEMMA TailOf ==
    /\ Tail(<<"checkKey", "create">>) = <<"create">>
    /\ Tail(<<"create">>) = <<>>
    /\ Tail(<<"checkDoc", "lock", "delete", "insert">>) = <<"lock", "delete", "insert">>
    /\ Tail(<<"lock", "delete", "insert">>) = <<"delete", "insert">>
    /\ Tail(<<"delete", "insert">>) = <<"insert">>
    /\ Tail(<<"insert">>) = <<>>
    /\ Tail(<<"next">>) = <<>>
    /\ Tail(<<"create", "next">>) = <<"next">>
    /\ Tail(<<"delete", "insert", "next">>) = <<"insert", "next">>
    /\ Tail(<<"insert", "next">>) = <<"next">>
    /\ Tail(<<"checkDoc", "delete", "insert">>) = <<"delete", "insert">>
    /\ Tail(<<"checkDoc", "update">>) = <<"update">>
    /\ Tail(<<"update">>) = <<>>
    /\ Tail(<<"checkKey", "create", "checkDoc", "delete", "insert">>) = <<"create", "checkDoc", "delete", "insert">>
    /\ Tail(<<"create", "checkDoc", "delete", "insert">>) = <<"checkDoc", "delete", "insert">>
    /\ Tail(<<"checkDoc", "update", "checkDoc", "delete", "insert">>) = <<"update", "checkDoc", "delete", "insert">>
    /\ Tail(<<"update", "checkDoc", "delete", "insert">>) = <<"checkDoc", "delete", "insert">>
OBVIOUS

LEMMA HeadOf ==
    /\ <<"checkKey", "create">> # <<>> /\ Head(<<"checkKey", "create">>) = "checkKey"
    /\ <<"create">> # <<>> /\ Head(<<"create">>) = "create"
    /\ <<"checkDoc", "lock", "delete", "insert">> # <<>> /\ Head(<<"checkDoc", "lock", "delete", "insert">>) = "checkDoc"
    /\ <<"lock", "delete", "insert">> # <<>> /\ Head(<<"lock", "delete", "insert">>) = "lock"
    /\ <<"delete", "insert">> # <<>> /\ Head(<<"delete", "insert">>) = "delete"
    /\ <<"insert">> # <<>> /\ Head(<<"insert">>) = "insert"
    /\ <<"next">> # <<>> /\ Head(<<"next">>) = "next"
    /\ <<"create", "next">> # <<>> /\ Head(<<"create", "next">>) = "create"
    /\ <<"delete", "insert", "next">> # <<>> /\ Head(<<"delete", "insert", "next">>) = "delete"
    /\ <<"insert", "next">> # <<>> /\ Head(<<"insert", "next">>) = "insert"
    /\ <<"checkDoc", "delete", "insert">> # <<>> /\ Head(<<"checkDoc", "delete", "insert">>) = "checkDoc"
    /\ <<"checkDoc", "update">> # <<>> /\ Head(<<"checkDoc", "update">>) = "checkDoc"
    /\ <<"update">> # <<>> /\ Head(<<"update">>) = "update"
    /\ <<"checkKey", "create", "checkDoc", "delete", "insert">> # <<>> /\ Head(<<"checkKey", "create", "checkDoc", "delete", "insert">>) = "checkKey"
    /\ <<"create", "checkDoc", "delete", "insert">> # <<>> /\ Head(<<"create", "checkDoc", "delete", "insert">>) = "create"
    /\ <<"checkDoc", "update", "checkDoc", "delete", "insert">> # <<>> /\ Head(<<"checkDoc", "update", "checkDoc", "delete", "insert">>) = "checkDoc"
    /\ <<"update", "checkDoc", "delete", "insert">> # <<>> /\ Head(<<"update", "checkDoc", "delete", "insert">>) = "update"
OBVIOUS

LEMMA StepsOf ==
    /\ <<>> \in Seq(Steps)
    /\ <<"checkKey", "create">> \in Seq(Steps)
    /\ <<"create">> \in Seq(Steps)
    /\ <<"checkDoc", "lock", "delete", "insert">> \in Seq(Steps)
    /\ <<"lock", "delete", "insert">> \in Seq(Steps)
    /\ <<"delete", "insert">> \in Seq(Steps)
    /\ <<"insert">> \in Seq(Steps)
    /\ <<"next">> \in Seq(Steps)
    /\ <<"create", "next">> \in Seq(Steps)
    /\ <<"delete", "insert", "next">> \in Seq(Steps)
    /\ <<"insert", "next">> \in Seq(Steps)
    /\ <<"checkDoc", "delete", "insert">> \in Seq(Steps)
    /\ <<"checkDoc", "update">> \in Seq(Steps)
    /\ <<"update">> \in Seq(Steps)
    /\ <<"checkKey", "create", "checkDoc", "delete", "insert">> \in Seq(Steps)
    /\ <<"create", "checkDoc", "delete", "insert">> \in Seq(Steps)
    /\ <<"checkDoc", "update", "checkDoc", "delete", "insert">> \in Seq(Steps)
    /\ <<"update", "checkDoc", "delete", "insert">> \in Seq(Steps)
BY DEF Steps

LEMMA TodoTypes ==
    \A todo \in SongTodos \cup ImportTodos \cup PlanTodos : todo \in Seq(Steps)
BY StepsOf DEF SongTodos, ImportTodos, PlanTodos, PlanOnlyTodos, ItemTodos

LEMMA PendingSteps ==
    ASSUME NEW todo \in Seq(Steps)
    PROVE  /\ todo # <<>> /\ Pending(Tail(todo)) => Pending(todo)
           /\ First(todo, "insert") \/ First(todo, "create") => Pending(todo)
           /\ ~Pending(<<>>) /\ ~Pending(<<"next">>)
BY DEF Pending, First

LEMMA SongSteps ==
    \A todo \in SongTodos : todo # <<>> =>
        /\ Tail(todo) \in SongTodos
        /\ Head(todo) \in {"checkKey", "create", "checkDoc", "lock", "delete", "insert"}
        /\ First(todo, "checkKey") => First(Tail(todo), "create")
        /\ ~First(todo, "checkKey") => ~Creates(Tail(todo))
        /\ First(todo, "create") \/ First(todo, "insert") => Tail(todo) = <<>>
        /\ First(Tail(todo), "insert") => First(todo, "delete")
BY TailOf, HeadOf DEF SongTodos, First, Creates

LEMMA PlanSteps ==
    \A todo \in PlanTodos : todo # <<>> =>
        /\ Tail(todo) \in PlanTodos
        /\ Head(todo) \in {"checkKey", "create", "checkDoc", "update", "delete", "insert"}
        /\ First(todo, "checkKey") => First(Tail(todo), "create")
        /\ ~First(todo, "checkKey") => ~Creates(Tail(todo))
        /\ First(todo, "insert") => Tail(todo) = <<>>
        /\ First(todo, "create") \/ First(todo, "update") => Tail(todo) \in ItemTodos
        /\ First(Tail(todo), "insert") => First(todo, "delete")
BY TailOf, HeadOf DEF PlanTodos, PlanOnlyTodos, ItemTodos, First, Creates

LEMMA ImportSteps ==
    \A todo \in ImportTodos :
        /\ todo # <<>>
        /\ ~First(todo, "next") => Tail(todo) \in ImportTodos
        /\ Head(todo) \in {"next", "create", "delete", "insert"}
        /\ First(todo, "create") \/ First(todo, "insert") => Tail(todo) = <<"next">>
        /\ First(todo, "next") => todo = <<"next">>
        /\ ~First(todo, "next") => ~Creates(Tail(todo))
        /\ First(Tail(todo), "insert") => First(todo, "delete")
BY TailOf, HeadOf DEF ImportTodos, First, Creates

LEMMA FirstTodos ==
    /\ <<"checkKey", "create">> \in SongTodos \cap PlanTodos
    /\ <<"checkDoc", "lock", "delete", "insert">> \in SongTodos
    /\ <<"checkDoc", "update">> \in PlanTodos
    /\ {<<"next">>, <<"create", "next">>, <<"delete", "insert", "next">>} \subseteq ImportTodos
    /\ <<"checkKey", "create">> \o <<"checkDoc", "delete", "insert">> \in PlanTodos
    /\ <<"checkDoc", "update">> \o <<"checkDoc", "delete", "insert">> \in PlanTodos
    /\ <<"checkKey", "create">> \o <<>> = <<"checkKey", "create">>
    /\ <<"checkDoc", "update">> \o <<>> = <<"checkDoc", "update">>
    /\ First(<<"checkKey", "create">> \o <<"checkDoc", "delete", "insert">>, "checkKey")
    /\ First(<<"checkDoc", "update">> \o <<"checkDoc", "delete", "insert">>, "checkDoc")
<1>1. <<"checkKey", "create">> \o <<"checkDoc", "delete", "insert">>
        = <<"checkKey", "create", "checkDoc", "delete", "insert">>
  <2> DEFINE s == <<"checkKey", "create">> \o <<"checkDoc", "delete", "insert">>
             t == <<"checkKey", "create", "checkDoc", "delete", "insert">>
  <2>1. s \in Seq(Steps) /\ t \in Seq(Steps) /\ Len(s) = Len(t)
    BY StepsOf
  <2>2. \A i \in 1..Len(s) : s[i] = t[i]
    OBVIOUS
  <2> HIDE DEF s, t
  <2>3. s = t
    BY <2>1, <2>2, SeqEqual
  <2> QED BY <2>3 DEF s, t
<1>2. <<"checkDoc", "update">> \o <<"checkDoc", "delete", "insert">>
        = <<"checkDoc", "update", "checkDoc", "delete", "insert">>
  <2> DEFINE s == <<"checkDoc", "update">> \o <<"checkDoc", "delete", "insert">>
             t == <<"checkDoc", "update", "checkDoc", "delete", "insert">>
  <2>1. s \in Seq(Steps) /\ t \in Seq(Steps) /\ Len(s) = Len(t)
    BY StepsOf
  <2>2. \A i \in 1..Len(s) : s[i] = t[i]
    OBVIOUS
  <2> HIDE DEF s, t
  <2>3. s = t
    BY <2>1, <2>2, SeqEqual
  <2> QED BY <2>3 DEF s, t
<1>3. /\ <<"checkKey", "create">> \o <<>> = <<"checkKey", "create">>
      /\ <<"checkDoc", "update">> \o <<>> = <<"checkDoc", "update">>
  OBVIOUS
<1>4. /\ <<"checkKey", "create">> \in SongTodos \cap PlanTodos
      /\ <<"checkDoc", "lock", "delete", "insert">> \in SongTodos
      /\ <<"checkDoc", "update">> \in PlanTodos
      /\ {<<"next">>, <<"create", "next">>, <<"delete", "insert", "next">>} \subseteq ImportTodos
      /\ <<"checkKey", "create", "checkDoc", "delete", "insert">> \in PlanTodos
      /\ <<"checkDoc", "update", "checkDoc", "delete", "insert">> \in PlanTodos
  BY DEF SongTodos, PlanTodos, PlanOnlyTodos, ImportTodos
<1>5. /\ First(<<"checkKey", "create", "checkDoc", "delete", "insert">>, "checkKey")
      /\ First(<<"checkDoc", "update", "checkDoc", "delete", "insert">>, "checkDoc")
  BY DEF First
<1> QED BY <1>1, <1>2, <1>3, <1>4, <1>5

FromZero(rows) == rows # {} => \E x \in rows : x.order = 0

\* What a browser sends is numbered from 0, and all of one save.
LEMMA PayloadOK ==
    ASSUME NEW rows \in Seq(SavedRow), NEW save \in Nat \X Nat
    PROVE  /\ payload(rows, save) \in SUBSET SavedRow /\ IsFiniteSet(payload(rows, save))
           /\ FromZero(payload(rows, save))
           /\ \A x \in payload(rows, save) : x.save = save
           /\ rows # <<>> => payload(rows, save) # {}
<1> DEFINE e(i) == row(i - 1, rows[i].text, save)
<1>1. \A i \in 1..Len(rows) : e(i) \in SavedRow /\ e(i).save = save /\ e(i).order = i - 1
  <2> SUFFICES ASSUME NEW i \in 1..Len(rows)
               PROVE  e(i) \in SavedRow /\ e(i).save = save /\ e(i).order = i - 1
    OBVIOUS
  <2>0. rows[i] \in SavedRow
    OBVIOUS
  <2>1. rows[i].text \in Text
    BY <2>0 DEF SavedRow
  <2>2. i - 1 \in Nat
    OBVIOUS
  <2> QED BY <2>1, <2>2 DEF row, SavedRow
<1>2. payload(rows, save) = {e(i) : i \in 1..Len(rows)}
  BY DEF payload
<1> HIDE DEF e
<1>3. Len(rows) \in Nat /\ (Len(rows) = 0 <=> rows = <<>>)
  OBVIOUS
<1>4. FromZero(payload(rows, save))
  <2> SUFFICES ASSUME payload(rows, save) # {} PROVE \E x \in payload(rows, save) : x.order = 0
    BY DEF FromZero
  <2>1. 1 \in 1..Len(rows)
    BY <1>2, <1>3
  <2>2. e(1) \in payload(rows, save) /\ e(1).order = 0
    BY <1>1, <1>2, <2>1
  <2> QED BY <2>2
<1>5. IsFiniteSet(payload(rows, save))
  <2>1. IsFiniteSet(1..Len(rows))
    BY <1>3, FS_Interval
  <2>2. [i \in 1..Len(rows) |-> e(i)] \in Surjection(1..Len(rows), {e(i) : i \in 1..Len(rows)})
    BY DEF Surjection
  <2>3. IsFiniteSet({e(i) : i \in 1..Len(rows)})
    BY <2>1, <2>2, FS_Surjection
  <2> QED BY <1>2, <2>3
<1>6. rows # <<>> => payload(rows, save) # {}
  <2>1. rows # <<>> => 1 \in 1..Len(rows)
    BY <1>3
  <2> QED BY <1>2, <2>1
<1> QED BY <1>1, <1>2, <1>4, <1>5, <1>6

\* What the route of the items takes is what the form shows.
LEMMA TakenOK ==
    ASSUME NEW k, NEW rows, rows \subseteq SavedRow
    PROVE  /\ taken(k, rows) \subseteq SavedRow
           /\ rows = {} <=> taken(k, rows) = {}
           /\ IsFiniteSet(rows) => IsFiniteSet(taken(k, rows))
           /\ FromZero(rows) => FromZero(taken(k, rows))
           /\ \A save : (\A x \in rows : x.save = save) => \A x \in taken(k, rows) : x.save = save
           /\ Shown(taken(k, rows)) = Shown(rows)
<1> DEFINE e(x) == [x EXCEPT !.text.more = FALSE]
<1>1. CASE k = "song"
  BY <1>1 DEF taken
<1>2. CASE k # "song"
  <2>1. ASSUME NEW x \in rows
        PROVE  /\ e(x) \in SavedRow /\ e(x).order = x.order /\ e(x).save = x.save
               /\ e(x).text.words = x.text.words
    <3>1. x \in SavedRow
      OBVIOUS
    <3>2. x.text \in Text
      BY <3>1 DEF SavedRow
    <3>3. /\ [x.text EXCEPT !.more = FALSE] \in Text
          /\ [x.text EXCEPT !.more = FALSE].words = x.text.words
      BY <3>2 DEF Text
    <3> QED BY <3>1, <3>3 DEF SavedRow
  <2>2. taken(k, rows) = {e(x) : x \in rows}
    BY <1>2 DEF taken
  <2> HIDE DEF e
  <2>3. IsFiniteSet(rows) => IsFiniteSet({e(x) : x \in rows})
    <3>1. [x \in rows |-> e(x)] \in Surjection(rows, {e(x) : x \in rows})
      BY DEF Surjection
    <3> QED BY <3>1, FS_Surjection
  <2>4. FromZero(rows) => FromZero(taken(k, rows))
    BY <2>1, <2>2 DEF FromZero
  <2>5. Shown(taken(k, rows)) = Shown(rows)
    <3>1. Shown(taken(k, rows)) = {<<e(x).order, e(x).text.words, e(x).save>> : x \in rows}
      BY <2>2 DEF Shown
    <3> QED BY <2>1, <3>1 DEF Shown
  <2> QED BY <2>1, <2>2, <2>3, <2>4, <2>5
<1> QED BY <1>1, <1>2

ContentTypeOK ==
    /\ kind \in {"song", "plan"}
    /\ docs \in [DocIds -> Document \cup {NoDoc}]
    /\ form \in [Browsers -> Form \cup {NoForm}]
    /\ request \in [Browsers -> Request \cup {NoRequest}]
    /\ result \in [Browsers -> Result \cup {NoResult}]
    /\ submits \in Nat

FormsThere ==
    \A c \in Browsers : form[c] # NoForm /\ form[c].id # 0 => docs[form[c].id] # NoDoc

\* A row that no request is about to write.
Old(x) ==
    /\ x.save[1] <= submits
    /\ \A b \in Browsers : request[b] # NoRequest /\ request[b].save = x.save[1] =>
          IF Pending(request[b].todo) THEN Len(request[b].left) < x.save[2]
                                      ELSE Len(request[b].left) <= x.save[2]

RowsOK ==
    \A d \in DocIds : docs[d] # NoDoc =>
        /\ IsFiniteSet(docs[d].rows)
        /\ \A a, b \in docs[d].rows : a.save = b.save
        /\ \A x \in docs[d].rows : Old(x)

SavesDiffer ==
    \A b, c \in Browsers :
        request[b] # NoRequest /\ request[c] # NoRequest /\ b # c
            => request[b].save # request[c].save

\* Since its deleteMany either nobody wrote rows, or somebody wrote all others, from 0.
SeenOrNew(r, documents) ==
    \/ documents[r.id].rows \subseteq r.seen
    \/ documents[r.id].rows \cap r.seen = {} /\ FromZero(documents[r.id].rows)

RequestShape(r, k, documents, n) ==
    /\ r.mode # "none" => k = "song"
    /\ r.mode = "none" => r.left = <<>>
    /\ r.todo \in Todos(k, r.mode)
    /\ r.id # 0 => documents[r.id] # NoDoc
    /\ ~First(r.todo, "next") => r.key \in Keys
    /\ Creates(r.todo) => r.id = 0
    /\ Works(r.todo) => r.id # 0
    /\ r.save \in 1..n
    /\ IsFiniteSet(r.rows) /\ FromZero(r.rows)
    /\ Pending(r.todo) => \A x \in r.rows : x.save = <<r.save, Len(r.left)>>
    /\ First(r.todo, "insert") => SeenOrNew(r, documents)

RequestsOK ==
    \A c \in Browsers : request[c] # NoRequest =>
        RequestShape(request[c], kind, docs, submits) /\ \A x \in request[c].seen : Old(x)

SaveInv == ContentTypeOK /\ FormsThere /\ RowsOK /\ SavesDiffer /\ RequestsOK

LEMMA SaveInitInv == ContentInit => SaveInv
<1> SUFFICES ASSUME ContentInit PROVE SaveInv
  OBVIOUS
<1> USE ContentAssumption
<1> DEFINE p == row(1, text("p", kind = "plan"), Unsaved)
           q == row(2, text("q", kind = "plan"), Unsaved)
<1>1. p \in SavedRow /\ q \in SavedRow /\ p.save = <<0, 0>> /\ q.save = <<0, 0>>
  <2>1. text("p", kind = "plan") \in Text /\ text("q", kind = "plan") \in Text
    BY DEF text, Text, Words
  <2> QED BY <2>1 DEF row, Unsaved, SavedRow
<1> HIDE DEF p, q
<1>2. \A rows \in {{p, q}, {}} :
          /\ rows \subseteq SavedRow /\ IsFiniteSet(rows)
          /\ \A a, b \in rows : a.save = b.save
          /\ \A x \in rows : x.save = <<0, 0>>
  <2>1. IsFiniteSet({p, q}) /\ IsFiniteSet({})
    <3>1. IsFiniteSet({} \cup {p} \cup {q}) /\ IsFiniteSet({})
      BY FS_EmptySet, FS_AddElement
    <3> QED BY <3>1
  <2> QED BY <1>1, <2>1
<1>3. \A d \in DocIds :
          docs[d] # NoDoc => /\ docs[d] \in Document
                             /\ docs[d].rows \in {{p, q}, {}}
  BY <1>2 DEF ContentInit, Document, p, q
<1>4. ContentTypeOK
  BY <1>3 DEF ContentInit, ContentTypeOK
<1>5. \A x : x.save = <<0, 0>> => Old(x)
  BY DEF Old, ContentInit
<1>6. RowsOK
  BY <1>2, <1>3, <1>5 DEF RowsOK
<1> QED BY <1>4, <1>6 DEF SaveInv, FormsThere, SavesDiffer, RequestsOK, ContentInit

\* The request of b goes on, or is a new one; a row that is old stays old.
StillOld(b) ==
    \/ request'[b] = NoRequest
    \/ request'[b].save > submits
    \/ /\ request[b] # NoRequest /\ request'[b].save = request[b].save
       /\ \/ /\ Len(request'[b].left) = Len(request[b].left)
             /\ Pending(request'[b].todo) => Pending(request[b].todo)
          \/ ~Pending(request[b].todo) /\ Len(request'[b].left) = Len(request[b].left) - 1

LEMMA OldKept ==
    ASSUME SaveInv, NEW x \in SavedRow, Old(x), submits' \in Nat, submits <= submits',
           \A b \in Browsers : StillOld(b)
    PROVE  Old(x)'
<1>1. x.save[1] \in Nat /\ x.save[2] \in Nat /\ submits \in Nat
  BY DEF SavedRow, SaveInv, ContentTypeOK
<1>2. x.save[1] <= submits'
  BY <1>1 DEF Old
<1>3. ASSUME NEW b \in Browsers, request'[b] # NoRequest, request'[b].save = x.save[1]
      PROVE  IF Pending(request'[b].todo) THEN Len(request'[b].left) < x.save[2]
                                          ELSE Len(request'[b].left) <= x.save[2]
  <2>1. ~(request'[b].save > submits)
    BY <1>1, <1>3 DEF Old
  <2>2. /\ request[b] # NoRequest /\ request'[b].save = request[b].save
        /\ \/ /\ Len(request'[b].left) = Len(request[b].left)
              /\ Pending(request'[b].todo) => Pending(request[b].todo)
           \/ ~Pending(request[b].todo) /\ Len(request'[b].left) = Len(request[b].left) - 1
    BY <1>3, <2>1 DEF StillOld
  <2>3. request[b].left \in Seq(Song)
    BY <2>2 DEF SaveInv, ContentTypeOK, Request
  <2>4. Len(request[b].left) \in Nat
    BY <2>3
  <2>5. IF Pending(request[b].todo) THEN Len(request[b].left) < x.save[2]
                                    ELSE Len(request[b].left) <= x.save[2]
    BY <1>3, <2>2 DEF Old
  <2> QED BY <1>1, <2>2, <2>4, <2>5
<1> QED BY <1>2, <1>3 DEF Old

\* What a step of another browser may do to the documents.
DocsKept ==
    \A d \in DocIds : docs[d] # NoDoc =>
        /\ docs'[d] # NoDoc
        /\ \/ docs'[d].rows \in {docs[d].rows, {}}
           \/ FromZero(docs'[d].rows) /\ \A x \in docs'[d].rows : ~Old(x)

\* The request of b as it was, but perhaps not alone any more.
SameRequest(b) ==
    /\ request'[b] = NoRequest <=> request[b] = NoRequest
    /\ request[b] # NoRequest =>
          /\ request'[b].id = request[b].id /\ request'[b].key = request[b].key
          /\ request'[b].rows = request[b].rows /\ request'[b].todo = request[b].todo
          /\ request'[b].seen = request[b].seen /\ request'[b].mode = request[b].mode
          /\ request'[b].left = request[b].left /\ request'[b].save = request[b].save

LEMMA SameOld == ASSUME NEW b, SameRequest(b) PROVE StillOld(b)
BY DEF SameRequest, StillOld

LEMMA RequestKept ==
    ASSUME SaveInv, NEW b \in Browsers, request[b] # NoRequest, SameRequest(b), DocsKept,
           submits' \in Nat, submits <= submits', UNCHANGED kind
    PROVE  RequestShape(request'[b], kind', docs', submits')
<1> DEFINE r == request[b]
           s == request'[b]
<1>1. /\ s.id = r.id /\ s.key = r.key /\ s.rows = r.rows /\ s.todo = r.todo /\ s.seen = r.seen
      /\ s.mode = r.mode /\ s.left = r.left /\ s.save = r.save
  BY DEF SameRequest
<1>2. RequestShape(r, kind, docs, submits) /\ \A x \in r.seen : Old(x)
  BY DEF SaveInv, RequestsOK
<1>3. r \in Request /\ r.id \in DocIds \cup {0} /\ submits \in Nat
  BY DEF SaveInv, ContentTypeOK, Request
<1> HIDE DEF r, s
<1>4. r.id # 0 => docs'[r.id] # NoDoc
  BY <1>2, <1>3 DEF RequestShape, DocsKept
<1>5. First(r.todo, "insert") => SeenOrNew(r, docs')
  <2> SUFFICES ASSUME First(r.todo, "insert") PROVE SeenOrNew(r, docs')
    OBVIOUS
  <2>1. SeenOrNew(r, docs) /\ r.id # 0 /\ r.id \in DocIds /\ docs[r.id] # NoDoc
    BY <1>2, <1>3 DEF RequestShape, Works
  <2>2. \/ docs'[r.id].rows \in {docs[r.id].rows, {}}
        \/ FromZero(docs'[r.id].rows) /\ \A x \in docs'[r.id].rows : ~Old(x)
    BY <2>1 DEF DocsKept
  <2> QED BY <1>2, <2>1, <2>2 DEF SeenOrNew
<1>6. r.save \in 1..submits'
  BY <1>2, <1>3 DEF RequestShape
<1>7. RequestShape(r, kind', docs', submits')
  BY <1>2, <1>4, <1>5, <1>6 DEF RequestShape
<1>8. RequestShape(s, kind', docs', submits')
  BY <1>1, <1>7 DEF RequestShape, SeenOrNew
<1> QED BY <1>8 DEF s

LEMMA MoveInv ==
    ASSUME SaveInv, NEW c \in Browsers, request[c] # NoRequest, NEW next \in Request,
           request'[c] = next, request' \in [Browsers -> Request \cup {NoRequest}],
           \A b \in Browsers \ {c} : SameRequest(b), StillOld(c),
           next.save = request[c].save, RequestShape(next, kind', docs', submits'), \A x \in next.seen : Old(x),
           docs' \in [DocIds -> Document \cup {NoDoc}], DocsKept,
           \A d \in DocIds : docs'[d] # NoDoc =>
               /\ IsFiniteSet(docs'[d].rows)
               /\ \A a, b \in docs'[d].rows : a.save = b.save
               /\ \A x \in docs'[d].rows :
                     \/ Old(x)
                     \/ x.save = <<next.save, Len(next.left)>> /\ ~Pending(next.todo),
           result' \in [Browsers -> Result \cup {NoResult}],
           UNCHANGED <<kind, form, submits>>
    PROVE  SaveInv'
<1>1. submits \in Nat /\ submits' = submits /\ next # NoRequest
  BY ContentAssumption DEF SaveInv, ContentTypeOK
<1>2. \A b \in Browsers : StillOld(b)
  BY SameOld
<1>3. \A x \in SavedRow : Old(x) => Old(x)'
  BY <1>1, <1>2, OldKept
<1>4. SavesDiffer'
  BY <1>1 DEF SaveInv, SavesDiffer, SameRequest
<1>5. \A x : x.save = <<next.save, Len(next.left)>> /\ ~Pending(next.todo) => Old(x)'
  <2> SUFFICES ASSUME NEW x, x.save = <<next.save, Len(next.left)>>, ~Pending(next.todo)
               PROVE  Old(x)'
    OBVIOUS
  <2>1. x.save[1] = next.save /\ x.save[2] = Len(next.left)
    OBVIOUS
  <2>2. next.save \in 1..submits /\ Len(next.left) \in Nat
    <3>1. next.left \in Seq(Song)
      BY DEF Request
    <3> QED BY <3>1 DEF RequestShape
  <2>3. \A b \in Browsers : request'[b] # NoRequest /\ request'[b].save = next.save => b = c
    BY <1>1, <1>4 DEF SavesDiffer
  <2> QED BY <1>1, <2>1, <2>2, <2>3 DEF Old
<1>6. \A d \in DocIds : docs'[d] # NoDoc => docs'[d].rows \subseteq SavedRow
  BY DEF Document
<1>7. RowsOK'
  BY <1>3, <1>5, <1>6 DEF RowsOK
<1>8. FormsThere'
  <2>1. \A b \in Browsers : form[b] # NoForm => form[b].id \in DocIds \cup {0}
    BY DEF SaveInv, ContentTypeOK, Form
  <2> QED BY <2>1 DEF SaveInv, FormsThere, DocsKept
<1>9. RequestsOK'
  <2> SUFFICES ASSUME NEW b \in Browsers, request'[b] # NoRequest
               PROVE  /\ RequestShape(request'[b], kind', docs', submits')
                      /\ \A x \in request'[b].seen : Old(x)'
    BY DEF RequestsOK
  <2>1. CASE b = c
    <3>1. next.seen \subseteq SavedRow
      BY DEF Request
    <3> QED BY <1>3, <2>1, <3>1
  <2>2. CASE b # c
    <3>1. request[b] # NoRequest /\ SameRequest(b) /\ request'[b].seen = request[b].seen
      BY <2>2 DEF SameRequest
    <3>2. request[b].seen \subseteq SavedRow
      BY <3>1 DEF SaveInv, ContentTypeOK, Request
    <3>3. \A x \in request[b].seen : Old(x)
      BY <3>1 DEF SaveInv, RequestsOK
    <3> QED BY <1>1, <1>3, <3>1, <3>2, <3>3, RequestKept
  <2> QED BY <2>1, <2>2
<1>10. ContentTypeOK'
  BY DEF SaveInv, ContentTypeOK
<1> QED BY <1>4, <1>7, <1>8, <1>9, <1>10 DEF SaveInv

LEMMA SubmitInv ==
    ASSUME SaveInv, NEW c \in Browsers, NEW r \in Request, Submit(c, r),
           r.save = submits + 1, r.seen = {}, RequestShape(r, kind, docs, submits + 1)
    PROVE  SaveInv'
<1>1. /\ request[c] = NoRequest /\ submits' = submits + 1
      /\ request' = [request EXCEPT ![c] = r]
      /\ result' = [result EXCEPT ![c] = NoResult]
      /\ UNCHANGED <<kind, docs, form>>
  BY DEF Submit
<1>2. /\ submits \in Nat /\ submits' \in Nat /\ submits <= submits'
      /\ request'[c] = r /\ \A b \in Browsers \ {c} : request'[b] = request[b]
  BY <1>1 DEF SaveInv, ContentTypeOK
<1>3. ContentTypeOK'
  BY <1>1, <1>2 DEF SaveInv, ContentTypeOK
<1>4. \A b \in Browsers \ {c} : SameRequest(b)
  BY <1>2 DEF SameRequest
<1>5. \A b \in Browsers : StillOld(b)
  <2>1. StillOld(c)
    BY <1>2 DEF StillOld
  <2> QED BY <1>4, <2>1, SameOld
<1>6. \A x \in SavedRow : Old(x) => Old(x)'
  BY <1>2, <1>5, OldKept
<1>7. RowsOK'
  BY <1>1, <1>6 DEF SaveInv, ContentTypeOK, RowsOK, Document
<1>8. SavesDiffer'
  <2>1. \A b \in Browsers : request[b] # NoRequest => request[b].save \in 1..submits
    BY DEF SaveInv, RequestsOK, RequestShape
  <2> QED BY <1>1, <1>2, <2>1 DEF SaveInv, SavesDiffer
<1>9. RequestsOK'
  <2> SUFFICES ASSUME NEW b \in Browsers, request'[b] # NoRequest
               PROVE  /\ RequestShape(request'[b], kind', docs', submits')
                      /\ \A x \in request'[b].seen : Old(x)'
    BY DEF RequestsOK
  <2>1. CASE b = c
    BY <1>1, <1>2, <2>1
  <2>2. CASE b # c
    <3>1. request[b] # NoRequest /\ SameRequest(b) /\ request'[b] = request[b]
      BY <1>2, <1>4, <2>2
    <3>2. request[b].seen \subseteq SavedRow
      BY <3>1 DEF SaveInv, ContentTypeOK, Request
    <3>3. \A x \in request[b].seen : Old(x)
      BY <3>1 DEF SaveInv, RequestsOK
    <3>4. DocsKept
      BY <1>1 DEF DocsKept
    <3> QED BY <1>1, <1>2, <1>6, <3>1, <3>2, <3>3, <3>4, RequestKept
  <2> QED BY <2>1, <2>2
<1>10. FormsThere'
  BY <1>1 DEF SaveInv, FormsThere
<1> QED BY <1>3, <1>7, <1>8, <1>9, <1>10 DEF SaveInv

LEMMA FormFacts ==
    ASSUME SaveInv, NEW c \in Browsers, form[c] # NoForm
    PROVE  /\ form[c] \in Form /\ form[c].id \in DocIds \cup {0} /\ form[c].key \in Keys
           /\ form[c].rows \in Seq(SavedRow) /\ (form[c].id # 0 => docs[form[c].id] # NoDoc)
BY DEF SaveInv, ContentTypeOK, FormsThere, Form

\* A form is sent as a request that creates or that works on a document.
LEMMA SendFormInv ==
    ASSUME SaveInv, NEW c \in Browsers, form[c] # NoForm, NEW todo,
           IF kind = "song" THEN todo \in SongTodos ELSE todo \in PlanTodos,
           IF form[c].id = 0 THEN First(todo, "checkKey") ELSE First(todo, "checkDoc"),
           Submit(c, newRequest(form[c].id, form[c].key,
                                payload(form[c].rows, <<submits + 1, 0>>), todo))
    PROVE  SaveInv'
<1> DEFINE rows == payload(form[c].rows, <<submits + 1, 0>>)
           r == newRequest(form[c].id, form[c].key, rows, todo)
<1>1. /\ form[c].id \in DocIds \cup {0} /\ form[c].key \in Keys
      /\ form[c].rows \in Seq(SavedRow) /\ (form[c].id # 0 => docs[form[c].id] # NoDoc)
  BY FormFacts
<1>2. submits \in Nat /\ kind \in {"song", "plan"}
  BY DEF SaveInv, ContentTypeOK
<1>3. /\ rows \in SUBSET SavedRow /\ IsFiniteSet(rows) /\ FromZero(rows)
      /\ \A x \in rows : x.save = <<submits + 1, 0>>
  <2>1. <<submits + 1, 0>> \in Nat \X Nat
    BY <1>2
  <2> QED BY <1>1, <2>1, PayloadOK
<1> HIDE DEF rows
<1>4. todo \in Seq(Steps) /\ todo \in Todos(kind, "none")
  BY <1>2, TodoTypes DEF Todos
<1>5. /\ r \in Request /\ r.id = form[c].id /\ r.key = form[c].key /\ r.rows = rows /\ r.todo = todo /\ r.seen = {}
      /\ r.mode = "none" /\ r.left = <<>> /\ r.save = submits + 1
  BY <1>1, <1>2, <1>3, <1>4 DEF newRequest, Request
<1> HIDE DEF r
<1>6. /\ Creates(todo) => form[c].id = 0
      /\ Works(todo) => form[c].id # 0
      /\ ~First(todo, "insert")
  BY DEF Creates, Works, First
<1>7. Len(r.left) = 0
  BY <1>5
<1>8. RequestShape(r, kind, docs, submits + 1)
  BY <1>1, <1>2, <1>3, <1>4, <1>5, <1>6, <1>7 DEF RequestShape
<1>9. Submit(c, r)
  BY DEF r, rows
<1> QED BY <1>5, <1>8, <1>9, SubmitInv

LEMMA SubmitFormInv ==
    ASSUME SaveInv, NEW c \in Browsers, submitSong(c) \/ submitPlan(c) PROVE SaveInv'
<1>1. /\ <<"checkKey", "create">> \in SongTodos /\ First(<<"checkKey", "create">>, "checkKey")
      /\ First(<<"checkDoc", "lock", "delete", "insert">>, "checkDoc")
      /\ First(<<"checkDoc", "update">>, "checkDoc")
  BY FirstTodos DEF First
<1>2. CASE submitSong(c)
  <2> DEFINE todo == IF form[c].id = 0 THEN <<"checkKey", "create">>
                     ELSE <<"checkDoc", "lock", "delete", "insert">>
  <2>1. /\ todo \in SongTodos
        /\ IF form[c].id = 0 THEN First(todo, "checkKey") ELSE First(todo, "checkDoc")
    BY <1>1, FirstTodos
  <2>2. /\ form[c] # NoForm /\ kind = "song"
        /\ Submit(c, newRequest(form[c].id, form[c].key,
                                payload(form[c].rows, <<submits + 1, 0>>), todo))
    BY <1>2 DEF submitSong
  <2> HIDE DEF todo
  <2> QED BY <2>1, <2>2, SendFormInv
<1>3. CASE submitPlan(c)
  <2> DEFINE rows == payload(form[c].rows, <<submits + 1, 0>>)
             start == IF form[c].id = 0 THEN <<"checkKey", "create">> ELSE <<"checkDoc", "update">>
             todo == start \o (IF rows = {} THEN <<>> ELSE <<"checkDoc", "delete", "insert">>)
  <2>1. /\ todo \in PlanTodos
        /\ IF form[c].id = 0 THEN First(todo, "checkKey") ELSE First(todo, "checkDoc")
    <3> HIDE DEF rows
    <3> QED BY <1>1, FirstTodos
  <2>2. /\ form[c] # NoForm /\ kind # "song"
        /\ Submit(c, newRequest(form[c].id, form[c].key, rows, todo))
    BY <1>3 DEF submitPlan
  <2> HIDE DEF todo
  <2> QED BY <2>1, <2>2, SendFormInv
<1> QED BY <1>2, <1>3

LEMMA ImportInv ==
    ASSUME SaveInv, NEW c \in Browsers, NEW mode \in {"IGNORE", "OVERWRITE"}, processImport(c, mode)
    PROVE  SaveInv'
<1> DEFINE new == newRequest(0, 0, {}, <<"next">>)
           r == [new EXCEPT !.mode = mode, !.left = Batch]
<1>1. submits \in Nat /\ <<"next">> \in ImportTodos /\ <<"next">> \in Seq(Steps)
  BY FirstTodos, StepsOf DEF SaveInv, ContentTypeOK
<1>2. /\ new \in Request /\ new.id = 0 /\ new.rows = {} /\ new.seen = {} /\ new.todo = <<"next">>
      /\ new.save = submits + 1
  BY <1>1 DEF newRequest, Request
<1> HIDE DEF new
<1>3. /\ r \in Request /\ r.id = 0 /\ r.rows = {} /\ r.seen = {} /\ r.todo = <<"next">>
      /\ r.save = submits + 1 /\ r.mode = mode
  BY <1>2, ContentAssumption DEF Request
<1>4. Submit(c, r) /\ kind = "song"
  BY DEF processImport, new
<1> HIDE DEF r
<1>5. First(<<"next">>, "next") /\ ~Creates(<<"next">>) /\ ~Works(<<"next">>) /\ ~First(<<"next">>, "insert") /\ ~Pending(<<"next">>)
  BY <1>1, HeadOf, PendingSteps DEF Creates, Works, First
<1>6. IsFiniteSet({}) /\ FromZero({})
  BY FS_EmptySet DEF FromZero
<1>7. RequestShape(r, kind, docs, submits + 1)
  BY <1>1, <1>3, <1>4, <1>5, <1>6 DEF RequestShape, Todos
<1> QED BY <1>3, <1>4, <1>7, SubmitInv

\* What is left after a step that is not the choice of the next song.
LEMMA GoOnTodo ==
    ASSUME NEW r \in Request, NEW k \in {"song", "plan"}, r.todo \in Todos(k, r.mode),
           r.mode # "none" => k = "song", r.todo # <<>>, ~First(r.todo, "next")
    PROVE  /\ Tail(r.todo) \in Todos(k, r.mode) /\ Tail(r.todo) \in Seq(Steps)
           /\ Pending(Tail(r.todo)) => Pending(r.todo)
           /\ Creates(Tail(r.todo)) => First(r.todo, "checkKey")
           /\ First(Tail(r.todo), "insert") => First(r.todo, "delete")
           /\ First(r.todo, "checkKey") => First(Tail(r.todo), "create")
           /\ First(r.todo, "insert") \/ (k = "song" /\ First(r.todo, "create"))
                => ~Pending(Tail(r.todo)) /\ ~Works(Tail(r.todo))
           /\ First(r.todo, "insert") \/ First(r.todo, "create") => Pending(r.todo)
<1> DEFINE todo == r.todo
<1>1. todo \in Seq(Steps) /\ Tail(todo) \in Seq(Steps)
  BY DEF Request
<1>2. /\ Pending(Tail(todo)) => Pending(todo)
      /\ First(todo, "insert") \/ First(todo, "create") => Pending(todo)
      /\ ~Pending(<<>>) /\ ~Pending(<<"next">>)
  BY <1>1, PendingSteps
<1>3. ~Works(<<>>) /\ ~Works(<<"next">>)
  BY HeadOf DEF Works, First
<1>4. CASE r.mode # "none"
  <2>1. todo \in ImportTodos
    BY <1>4 DEF Todos
  <2>2. /\ Tail(todo) \in ImportTodos
        /\ Head(todo) \in {"next", "create", "delete", "insert"}
        /\ First(todo, "create") \/ First(todo, "insert") => Tail(todo) = <<"next">>
        /\ ~Creates(Tail(todo))
        /\ First(Tail(todo), "insert") => First(todo, "delete")
    BY <2>1, ImportSteps
  <2>3. ~First(todo, "checkKey")
    BY <2>2 DEF First
  <2> QED BY <1>1, <1>2, <1>3, <1>4, <2>2, <2>3 DEF Todos
<1>5. CASE r.mode = "none" /\ k = "song"
  <2>1. todo \in SongTodos
    BY <1>5 DEF Todos
  <2>2. /\ Tail(todo) \in SongTodos
        /\ First(todo, "checkKey") => First(Tail(todo), "create")
        /\ ~First(todo, "checkKey") => ~Creates(Tail(todo))
        /\ First(todo, "create") \/ First(todo, "insert") => Tail(todo) = <<>>
        /\ First(Tail(todo), "insert") => First(todo, "delete")
    BY <2>1, SongSteps
  <2> QED BY <1>1, <1>2, <1>3, <1>5, <2>2 DEF Todos
<1>6. CASE r.mode = "none" /\ k = "plan"
  <2>1. todo \in PlanTodos
    BY <1>6 DEF Todos
  <2>2. /\ Tail(todo) \in PlanTodos
        /\ First(todo, "checkKey") => First(Tail(todo), "create")
        /\ ~First(todo, "checkKey") => ~Creates(Tail(todo))
        /\ First(todo, "insert") => Tail(todo) = <<>>
        /\ First(Tail(todo), "insert") => First(todo, "delete")
    BY <2>1, PlanSteps
  <2> QED BY <1>1, <1>2, <1>3, <1>6, <2>2 DEF Todos
<1> QED BY <1>4, <1>5, <1>6

LEMMA ReadInv ==
    ASSUME SaveInv, NEW c \in Browsers, request[c] # NoRequest, NEW next \in Request, Read(c, next),
           next.save = request[c].save,
           \/ /\ Len(next.left) = Len(request[c].left)
              /\ Pending(next.todo) => Pending(request[c].todo)
           \/ ~Pending(request[c].todo) /\ Len(next.left) = Len(request[c].left) - 1,
           RequestShape(next, kind, docs, submits), \A x \in next.seen : Old(x)
    PROVE  SaveInv'
<1>1. /\ request' = [request EXCEPT ![c] = next]
      /\ UNCHANGED <<kind, docs, form, submits, result>>
  BY DEF Read
<1>2. /\ request \in [Browsers -> Request \cup {NoRequest}]
      /\ docs \in [DocIds -> Document \cup {NoDoc}]
      /\ result \in [Browsers -> Result \cup {NoResult}]
  BY DEF SaveInv, ContentTypeOK
<1>3. /\ request'[c] = next /\ request' \in [Browsers -> Request \cup {NoRequest}]
      /\ \A b \in Browsers \ {c} : request'[b] = request[b]
  BY <1>1, <1>2
<1>4. \A b \in Browsers \ {c} : SameRequest(b)
  BY <1>3 DEF SameRequest
<1>5. StillOld(c)
  BY <1>3 DEF StillOld
<1>6. DocsKept
  BY <1>1 DEF DocsKept
<1>7. \A d \in DocIds : docs'[d] # NoDoc =>
          /\ IsFiniteSet(docs'[d].rows)
          /\ \A a, b \in docs'[d].rows : a.save = b.save
          /\ \A x \in docs'[d].rows : Old(x)
  BY <1>1 DEF SaveInv, RowsOK
<1>8. RequestShape(next, kind', docs', submits')
  BY <1>1
<1> QED BY <1>1, <1>2, <1>3, <1>4, <1>5, <1>6, <1>7, <1>8, MoveInv

\* The request after one of its routes but the last.
LEMMA GoOnShape ==
    ASSUME SaveInv, NEW c \in Browsers, request[c] # NoRequest, request[c].todo # <<>>,
           ~First(request[c].todo, "next"), NEW next \in Request, NEW documents,
           next.todo = Tail(request[c].todo), next.key = request[c].key, next.rows = request[c].rows,
           next.mode = request[c].mode, next.left = request[c].left, next.save = request[c].save,
           next.id # 0 => documents[next.id] # NoDoc,
           Creates(next.todo) => next.id = 0, Works(next.todo) => next.id # 0,
           First(next.todo, "insert") => SeenOrNew(next, documents)
    PROVE  /\ RequestShape(next, kind, documents, submits)
           /\ Pending(next.todo) => Pending(request[c].todo)
<1>1. /\ request[c] \in Request /\ kind \in {"song", "plan"}
      /\ RequestShape(request[c], kind, docs, submits)
  BY DEF SaveInv, ContentTypeOK, RequestsOK
<1>2. /\ next.todo \in Todos(kind, next.mode)
      /\ Pending(next.todo) => Pending(request[c].todo)
  BY <1>1, GoOnTodo DEF RequestShape
<1> QED BY <1>1, <1>2 DEF RequestShape

LEMMA AtFirst ==
    ASSUME SaveInv, NEW c \in Browsers, NEW what, At(c, what)
    PROVE  /\ request[c] # NoRequest /\ request[c] \in Request
           /\ request[c].todo # <<>> /\ First(request[c].todo, what)
           /\ request[c].todo \in Seq(Steps) /\ request[c].left \in Seq(Song)
           /\ request[c].id \in DocIds \cup {0} /\ request[c].rows \subseteq SavedRow
           /\ request[c].seen \subseteq SavedRow /\ request[c].key \in Keys \cup {0}
           /\ RequestShape(request[c], kind, docs, submits)
           /\ \A x \in request[c].seen : Old(x)
BY DEF At, First, SaveInv, ContentTypeOK, RequestsOK, Request

LEMMA CheckInv ==
    ASSUME SaveInv, NEW c \in Browsers, checkKey(c) \/ checkDoc(c) \/ lock(c) PROVE SaveInv'
<1> DEFINE r == request[c]
           next == GoOn(r)
<1>1. PICK what \in {"checkKey", "checkDoc", "lock"} : At(c, what)
  BY DEF checkKey, checkDoc, lock
<1>2. Read(c, next)
  BY DEF checkKey, checkDoc, lock
<1>3. /\ r # NoRequest /\ r \in Request /\ r.todo # <<>> /\ First(r.todo, what)
      /\ RequestShape(r, kind, docs, submits) /\ \A x \in r.seen : Old(x)
      /\ kind \in {"song", "plan"}
  BY <1>1, AtFirst DEF SaveInv, ContentTypeOK
<1> HIDE DEF r
<1>4. ~First(r.todo, "next") /\ ~First(r.todo, "delete")
  BY <1>3 DEF First
<1>5. /\ Tail(r.todo) \in Seq(Steps)
      /\ Creates(Tail(r.todo)) => First(r.todo, "checkKey")
      /\ First(r.todo, "checkKey") => First(Tail(r.todo), "create")
      /\ ~First(Tail(r.todo), "insert")
  BY <1>3, <1>4, GoOnTodo DEF RequestShape
<1>6. /\ next \in Request /\ next.todo = Tail(r.todo) /\ next.rows = r.rows /\ next.mode = r.mode
      /\ next.key = r.key /\ next.left = r.left /\ next.save = r.save /\ next.id = r.id /\ next.seen = r.seen
  BY <1>3, <1>5 DEF GoOn, Request
<1> HIDE DEF next
<1>7. /\ Creates(next.todo) => next.id = 0
      /\ Works(next.todo) => next.id # 0
  BY <1>3, <1>5, <1>6 DEF RequestShape, Creates, Works, First
<1>8. Pending(next.todo) => Pending(r.todo)
  BY <1>3, <1>4, <1>5, <1>6, <1>7, GoOnShape DEF r, RequestShape
<1>9. RequestShape(next, kind, docs, submits)
  BY <1>3, <1>4, <1>5, <1>6, <1>7, GoOnShape DEF r, RequestShape
<1> QED BY <1>2, <1>3, <1>6, <1>8, <1>9, ReadInv DEF r

LEMMA DeleteInv == ASSUME SaveInv, NEW c \in Browsers, deleteMany(c) PROVE SaveInv'
<1> DEFINE r == request[c]
           next == [GoOn(r) EXCEPT !.seen = docs[r.id].rows]
<1>1. At(c, "delete") /\ Read(c, next)
  BY DEF deleteMany
<1>2. /\ r # NoRequest /\ r \in Request /\ r.todo # <<>> /\ First(r.todo, "delete")
      /\ RequestShape(r, kind, docs, submits) /\ r.id \in DocIds \cup {0}
      /\ kind \in {"song", "plan"}
  BY <1>1, AtFirst DEF SaveInv, ContentTypeOK
<1> HIDE DEF r
<1>3. ~First(r.todo, "next") /\ ~First(r.todo, "checkKey")
  BY <1>2 DEF First
<1>4. Tail(r.todo) \in Seq(Steps) /\ ~Creates(Tail(r.todo))
  BY <1>2, <1>3, GoOnTodo DEF RequestShape
<1>5. r.id \in DocIds /\ docs[r.id] # NoDoc
  BY <1>2 DEF RequestShape, Works
<1>6. docs[r.id].rows \subseteq SavedRow /\ \A x \in docs[r.id].rows : Old(x)
  BY <1>5 DEF SaveInv, ContentTypeOK, Document, RowsOK
<1>7. /\ next \in Request /\ next.todo = Tail(r.todo) /\ next.rows = r.rows /\ next.mode = r.mode
      /\ next.key = r.key /\ next.left = r.left /\ next.save = r.save /\ next.id = r.id
      /\ next.seen = docs[r.id].rows
  BY <1>2, <1>4, <1>6 DEF GoOn, Request
<1> HIDE DEF next
<1>8. /\ ~Creates(next.todo) /\ next.id # 0 /\ SeenOrNew(next, docs)
  BY <1>2, <1>4, <1>5, <1>7 DEF RequestShape, Works, SeenOrNew
<1>9. /\ RequestShape(next, kind, docs, submits)
      /\ Pending(next.todo) => Pending(r.todo)
  BY <1>2, <1>3, <1>5, <1>7, <1>8, GoOnShape DEF r
<1> QED BY <1>1, <1>2, <1>6, <1>7, <1>9, ReadInv DEF r

LEMMA NextOfImport ==
    ASSUME SaveInv, NEW c \in Browsers, At(c, "next")
    PROVE  kind = "song" /\ request[c].mode # "none" /\ request[c].todo = <<"next">>
<1> DEFINE r == request[c]
<1>1. First(r.todo, "next") /\ RequestShape(r, kind, docs, submits) /\ r.todo # <<>>
      /\ kind \in {"song", "plan"}
  BY AtFirst DEF SaveInv, ContentTypeOK
<1>2. r.todo \in Todos(kind, r.mode)
  BY <1>1 DEF RequestShape
<1>3. r.mode # "none"
  BY <1>1, <1>2, SongSteps, PlanSteps DEF Todos, First
<1>4. r.todo = <<"next">>
  BY <1>1, <1>2, <1>3, ImportSteps DEF Todos
<1> QED BY <1>1, <1>3, <1>4 DEF RequestShape

LEMMA NextSongInv == ASSUME SaveInv, NEW c \in Browsers, importNext(c) PROVE SaveInv'
<1> DEFINE r == request[c]
           song == Head(r.left)
           rest == [r EXCEPT !.left = Tail(@)]
           rows == payload(song.rows, <<rest.save, Len(rest.left)>>)
           Start(d, todo) ==
               [rest EXCEPT !.id = d, !.key = song.key, !.todo = todo, !.rows = rows]
           found == existing(song)
<1>1. At(c, "next") /\ r.left # <<>>
  BY DEF importNext
<1>2. /\ r # NoRequest /\ r \in Request /\ RequestShape(r, kind, docs, submits)
      /\ r.left \in Seq(Song) /\ \A x \in r.seen : Old(x)
  BY <1>1, AtFirst
<1>3. kind = "song" /\ r.mode # "none" /\ r.todo = <<"next">>
  BY <1>1, NextOfImport
<1>4. PICK d \in {0} \cup DocIds, todo \in {<<"next">>, <<"create", "next">>, <<"delete", "insert", "next">>} :
          /\ \/ todo = <<"next">> /\ Read(c, rest)
             \/ todo # <<"next">> /\ Read(c, Start(d, todo))
          /\ d # 0 => docs[d] # NoDoc
          /\ todo = <<"create", "next">> => d = 0
          /\ todo = <<"delete", "insert", "next">> => d # 0
  <2>1. CASE Read(c, Start(0, <<"create", "next">>))
    <3>1. /\ <<"create", "next">> # <<"next">>
          /\ <<"create", "next">> # <<"delete", "insert", "next">>
      BY HeadOf
    <3> HIDE DEF Start
    <3> QED BY <2>1, <3>1
  <2>2. CASE Read(c, rest)
    <3>1. <<"next">> # <<"create", "next">> /\ <<"next">> # <<"delete", "insert", "next">>
      BY HeadOf
    <3> HIDE DEF Start, rest
    <3> QED BY <2>2, <3>1
  <2>3. CASE \E d \in found : Read(c, Start(d, <<"delete", "insert", "next">>))
    <3>1. /\ <<"delete", "insert", "next">> # <<"next">>
          /\ <<"create", "next">> # <<"delete", "insert", "next">>
      BY HeadOf
    <3>2. \A d \in found : d \in DocIds /\ d # 0 /\ docs[d] # NoDoc
      BY ContentAssumption DEF existing, Visible
    <3> HIDE DEF Start, found
    <3> QED BY <2>3, <3>1, <3>2
  <2>4. \/ Read(c, Start(0, <<"create", "next">>))
        \/ Read(c, rest)
        \/ \E d \in found : Read(c, Start(d, <<"delete", "insert", "next">>))
    <3> HIDE DEF Start, found
    <3> QED BY DEF importNext, Start, found
  <2> QED BY <2>1, <2>2, <2>3, <2>4
<1> HIDE DEF r
<1>5. /\ song \in Song /\ song.key \in Keys /\ song.rows \in Seq(SavedRow)
      /\ Tail(r.left) \in Seq(Song) /\ Len(Tail(r.left)) = Len(r.left) - 1
      /\ Len(Tail(r.left)) \in Nat
  <2>1. r.left # <<>> /\ r.left \in Seq(Song)
    BY <1>1, <1>2 DEF r
  <2>2. song \in Song
    BY <2>1
  <2>3. song.key \in Keys /\ song.rows \in Seq(SavedRow)
    BY <2>2 DEF Song
  <2>4. /\ Tail(r.left) \in Seq(Song) /\ Len(Tail(r.left)) = Len(r.left) - 1
        /\ Len(Tail(r.left)) \in Nat
    BY <2>1
  <2> QED BY <2>2, <2>3, <2>4
<1>6. /\ rest \in Request /\ rest.left = Tail(r.left) /\ rest.save = r.save /\ rest.mode = r.mode
      /\ rest.todo = r.todo /\ rest.id = r.id /\ rest.rows = r.rows /\ rest.seen = r.seen
      /\ r.save \in Nat
  BY <1>2, <1>5 DEF Request
<1> HIDE DEF song, rest
<1>7. /\ rows \in SUBSET SavedRow /\ IsFiniteSet(rows) /\ FromZero(rows)
      /\ \A x \in rows : x.save = <<r.save, Len(Tail(r.left))>>
  <2>1. <<rest.save, Len(rest.left)>> \in Nat \X Nat /\ rest.save = r.save /\ rest.left = Tail(r.left)
    BY <1>5, <1>6
  <2> QED BY <1>5, <2>1, PayloadOK
<1> HIDE DEF rows
<1>8. First(r.todo, "next") /\ ~Pending(r.todo) /\ ~Works(<<"next">>) /\ ~Creates(<<"next">>) /\ ~First(<<"next">>, "insert")
  BY <1>3, PendingSteps, StepsOf, HeadOf DEF Works, Creates, First
<1>9. CASE todo = <<"next">>
  <2>1. Read(c, rest)
    BY <1>4, <1>9
  <2>2. RequestShape(rest, kind, docs, submits)
    BY <1>2, <1>3, <1>6, <1>8 DEF RequestShape
  <2> QED BY <1>2, <1>5, <1>6, <1>8, <2>1, <2>2, ReadInv DEF r
<1>10. CASE todo # <<"next">>
  <2> DEFINE next == Start(d, todo)
  <2>1. todo \in ImportTodos /\ todo \in Seq(Steps)
    BY FirstTodos, StepsOf
  <2>2. /\ next \in Request /\ next.left = Tail(r.left) /\ next.save = r.save
        /\ next.mode = r.mode /\ next.key = song.key /\ next.todo = todo /\ next.id = d /\ next.rows = rows
        /\ next.seen = r.seen
    BY <1>5, <1>6, <1>7, <2>1 DEF Request
  <2>3. Read(c, next)
    BY <1>4, <1>10
  <2> HIDE DEF next
  <2>4. /\ Creates(todo) => d = 0
        /\ Works(todo) => d # 0
        /\ ~First(todo, "insert")
    BY <1>4, <1>10, HeadOf DEF Creates, Works, First
  <2>5. RequestShape(next, kind, docs, submits)
    BY <1>2, <1>3, <1>4, <1>5, <1>7, <2>1, <2>2, <2>4 DEF RequestShape, Todos
  <2> QED BY <1>2, <1>5, <1>8, <2>2, <2>3, <2>5, ReadInv DEF r
<1> QED BY <1>9, <1>10

LEMMA OthersFacts ==
    ASSUME SaveInv, NEW c, NEW d, NEW next \in Request \cup {NoRequest},
           request' = Others(c, d, next), result' = Overwritten(c, d)
    PROVE  /\ request' \in [Browsers -> Request \cup {NoRequest}]
           /\ result' \in [Browsers -> Result \cup {NoResult}]
           /\ \A b \in Browsers \ {c} : SameRequest(b)
           /\ c \in Browsers => request'[c] = next
<1>1. /\ request \in [Browsers -> Request \cup {NoRequest}] /\ NoRequest \notin Request
      /\ result \in [Browsers -> Result \cup {NoResult}]
  BY ContentAssumption DEF SaveInv, ContentTypeOK
<1>2. \A b \in Browsers : request[b] # NoRequest =>
          LET s == [request[b] EXCEPT !.alone = FALSE]
          IN  /\ s \in Request
              /\ s.id = request[b].id /\ s.key = request[b].key /\ s.rows = request[b].rows
              /\ s.todo = request[b].todo /\ s.seen = request[b].seen /\ s.mode = request[b].mode
              /\ s.left = request[b].left /\ s.save = request[b].save
  BY <1>1 DEF Request
<1>3. \A b \in Browsers :
          request'[b] = IF b = c THEN next
                        ELSE IF request[b] # NoRequest /\ (request[b].id = d \/ request[b].mode # "none")
                             THEN [request[b] EXCEPT !.alone = FALSE] ELSE request[b]
  BY DEF Others
<1>4. \A b \in Browsers \ {c} : SameRequest(b)
  <2> SUFFICES ASSUME NEW b \in Browsers \ {c} PROVE SameRequest(b)
    OBVIOUS
  <2> DEFINE s == [request[b] EXCEPT !.alone = FALSE]
  <2>1. \/ request'[b] = request[b]
        \/ request[b] # NoRequest /\ request'[b] = s
    BY <1>3
  <2>2. request[b] # NoRequest =>
              /\ s \in Request
              /\ s.id = request[b].id /\ s.key = request[b].key /\ s.rows = request[b].rows
              /\ s.todo = request[b].todo /\ s.seen = request[b].seen /\ s.mode = request[b].mode
              /\ s.left = request[b].left /\ s.save = request[b].save
    BY <1>2
  <2> HIDE DEF s
  <2> QED BY <1>1, <2>1, <2>2 DEF SameRequest
<1>5. \A b \in Browsers : request'[b] \in Request \cup {NoRequest}
  BY <1>1, <1>2, <1>3
<1>6. request' \in [Browsers -> Request \cup {NoRequest}]
  BY <1>5 DEF Others
<1>7. result' \in [Browsers -> Result \cup {NoResult}]
  BY <1>1 DEF Overwritten
<1> QED BY <1>3, <1>4, <1>6, <1>7

LEMMA WriteInv ==
    ASSUME SaveInv, NEW c \in Browsers, request[c] # NoRequest, NEW next \in Request,
           NEW d \in DocIds, NEW doc \in Document, docs' = [docs EXCEPT ![d] = doc],
           Write(c, d, next),
           next.save = request[c].save, next.left = request[c].left, next.seen = request[c].seen,
           Pending(next.todo) => Pending(request[c].todo),
           RequestShape(next, kind, docs', submits),
           IsFiniteSet(doc.rows), \A a, b \in doc.rows : a.save = b.save,
           \/ docs[d] # NoDoc /\ doc.rows = docs[d].rows
           \/ /\ FromZero(doc.rows)
              /\ \A x \in doc.rows : x.save = <<request[c].save, Len(request[c].left)>>
              /\ doc.rows # {} => Pending(request[c].todo) /\ ~Pending(next.todo)
    PROVE  SaveInv'
<1>1. /\ request' = Others(c, d, next) /\ result' = Overwritten(c, d)
      /\ UNCHANGED <<kind, form, submits>>
  BY DEF Write
<1>2. /\ request' \in [Browsers -> Request \cup {NoRequest}]
      /\ result' \in [Browsers -> Result \cup {NoResult}]
      /\ \A b \in Browsers \ {c} : SameRequest(b)
      /\ request'[c] = next
  BY <1>1, OthersFacts
<1>3. /\ docs \in [DocIds -> Document \cup {NoDoc}] /\ doc # NoDoc
      /\ docs' \in [DocIds -> Document \cup {NoDoc}]
      /\ docs'[d] = doc /\ \A e \in DocIds \ {d} : docs'[e] = docs[e]
  BY ContentAssumption DEF SaveInv, ContentTypeOK
<1>4. Len(request[c].left) \in Nat
  <2>1. request[c].left \in Seq(Song)
    BY DEF SaveInv, ContentTypeOK, Request
  <2> QED BY <2>1
<1>5. ASSUME NEW x \in doc.rows, x.save = <<request[c].save, Len(request[c].left)>>,
             Pending(request[c].todo)
      PROVE  ~Old(x)
  <2>1. x.save[1] = request[c].save /\ x.save[2] = Len(request[c].left)
    BY <1>5
  <2> QED BY <1>4, <1>5, <2>1 DEF Old
<1>6. DocsKept
  BY <1>3, <1>5 DEF DocsKept
<1>7. \A x \in doc.rows :
          \/ Old(x)
          \/ x.save = <<next.save, Len(next.left)>> /\ ~Pending(next.todo)
  <2>1. docs[d] # NoDoc => \A x \in docs[d].rows : Old(x)
    BY DEF SaveInv, RowsOK
  <2> QED BY <2>1
<1>8. \A e \in DocIds : docs'[e] # NoDoc =>
          /\ IsFiniteSet(docs'[e].rows)
          /\ \A a, b \in docs'[e].rows : a.save = b.save
          /\ \A x \in docs'[e].rows :
                \/ Old(x)
                \/ x.save = <<next.save, Len(next.left)>> /\ ~Pending(next.todo)
  BY <1>3, <1>7 DEF SaveInv, RowsOK
<1>9. StillOld(c)
  BY <1>2, <1>4 DEF StillOld
<1>10. RequestShape(next, kind', docs', submits')
  BY <1>1
<1>11. \A x \in next.seen : Old(x)
  BY DEF SaveInv, RequestsOK
<1> QED BY <1>1, <1>2, <1>3, <1>6, <1>8, <1>9, <1>10, <1>11, MoveInv

LEMMA CreateInv == ASSUME SaveInv, NEW c \in Browsers, create(c) PROVE SaveInv'
<1> DEFINE r == request[c]
           rows == IF kind = "song" THEN r.rows ELSE {}
           doc == [key |-> r.key, deleted |-> FALSE, rows |-> rows]
<1>1. At(c, "create")
  BY DEF create
<1>2. PICK d \in DocIds : /\ docs[d] = NoDoc /\ docs' = [docs EXCEPT ![d] = doc]
                          /\ Write(c, d, [GoOn(r) EXCEPT !.id = d])
  BY DEF create
<1> DEFINE next == [GoOn(r) EXCEPT !.id = d]
<1>3. /\ r # NoRequest /\ r \in Request /\ r.todo # <<>> /\ First(r.todo, "create")
      /\ RequestShape(r, kind, docs, submits) /\ r.rows \subseteq SavedRow
      /\ kind \in {"song", "plan"}
  BY <1>1, AtFirst DEF SaveInv, ContentTypeOK
<1> HIDE DEF r
<1>4. ~First(r.todo, "next") /\ ~First(r.todo, "checkKey") /\ ~First(r.todo, "delete")
  BY <1>3 DEF First
<1>5. /\ Tail(r.todo) \in Seq(Steps) /\ ~Creates(Tail(r.todo)) /\ ~First(Tail(r.todo), "insert")
      /\ kind = "song" => ~Pending(Tail(r.todo))
      /\ Pending(r.todo)
  BY <1>3, <1>4, GoOnTodo DEF RequestShape
<1>6. /\ next \in Request /\ next.todo = Tail(r.todo) /\ next.rows = r.rows /\ next.mode = r.mode
      /\ next.key = r.key /\ next.left = r.left /\ next.save = r.save /\ next.id = d /\ next.seen = r.seen /\ d # 0
  BY <1>3, <1>5, ContentAssumption DEF GoOn, Request
<1> HIDE DEF next
<1>7. /\ rows \subseteq SavedRow /\ IsFiniteSet(rows) /\ FromZero(rows)
      /\ \A x \in rows : x.save = <<r.save, Len(r.left)>>
      /\ \A a, b \in rows : a.save = b.save
      /\ rows # {} => ~Pending(Tail(r.todo))
  BY <1>3, <1>5, FS_EmptySet DEF RequestShape, FromZero
<1> HIDE DEF rows
<1>8. doc \in Document /\ doc.rows = rows
  <2>1. r.key \in Keys
    BY <1>3, <1>4 DEF RequestShape
  <2> QED BY <1>7, <2>1 DEF Document
<1> HIDE DEF doc
<1>9. docs'[d] # NoDoc
  BY <1>2, <1>8, ContentAssumption DEF SaveInv, ContentTypeOK
<1>10. /\ RequestShape(next, kind, docs', submits)
       /\ Pending(next.todo) => Pending(r.todo)
  BY <1>3, <1>4, <1>5, <1>6, <1>9, GoOnShape DEF r
<1> QED BY <1>2, <1>3, <1>5, <1>6, <1>7, <1>8, <1>10, WriteInv DEF r, next

LEMMA UpdateInv == ASSUME SaveInv, NEW c \in Browsers, update(c) PROVE SaveInv'
<1> DEFINE r == request[c]
           d == r.id
           doc == [docs[d] EXCEPT !.key = r.key]
           next == GoOn(r)
<1>1. At(c, "update") /\ Write(c, d, next) /\ docs' = [docs EXCEPT ![d].key = r.key]
  BY DEF update
<1>2. /\ r # NoRequest /\ r \in Request /\ r.todo # <<>> /\ First(r.todo, "update")
      /\ RequestShape(r, kind, docs, submits) /\ kind \in {"song", "plan"}
      /\ d \in DocIds \cup {0}
  BY <1>1, AtFirst DEF SaveInv, ContentTypeOK
<1> HIDE DEF r
<1>3. ~First(r.todo, "next") /\ ~First(r.todo, "checkKey") /\ ~First(r.todo, "delete")
  BY <1>2 DEF First
<1>4. /\ Tail(r.todo) \in Seq(Steps) /\ ~Creates(Tail(r.todo)) /\ ~First(Tail(r.todo), "insert")
  BY <1>2, <1>3, GoOnTodo DEF RequestShape
<1>5. /\ next \in Request /\ next.todo = Tail(r.todo) /\ next.rows = r.rows /\ next.mode = r.mode
      /\ next.key = r.key /\ next.left = r.left /\ next.save = r.save /\ next.id = d
      /\ next.seen = r.seen
  BY <1>2, <1>4 DEF GoOn, Request
<1>6. d \in DocIds /\ d # 0 /\ docs[d] # NoDoc /\ r.key \in Keys
  BY <1>2, <1>3 DEF RequestShape, Works
<1> HIDE DEF d, next
<1>7. docs[d] \in Document /\ IsFiniteSet(docs[d].rows)
      /\ \A a, b \in docs[d].rows : a.save = b.save
  BY <1>6 DEF SaveInv, ContentTypeOK, RowsOK
<1>8. doc \in Document /\ doc.rows = docs[d].rows
  BY <1>6, <1>7 DEF Document
<1>9. docs' = [docs EXCEPT ![d] = doc]
  BY <1>1
<1> HIDE DEF doc
<1>10. docs'[d] # NoDoc
  BY <1>6, <1>8, <1>9, ContentAssumption DEF SaveInv, ContentTypeOK
<1>11. /\ RequestShape(next, kind, docs', submits)
       /\ Pending(next.todo) => Pending(r.todo)
  BY <1>2, <1>3, <1>4, <1>5, <1>6, <1>10, GoOnShape DEF r
<1>12. IsFiniteSet(doc.rows) /\ \A a, b \in doc.rows : a.save = b.save
  BY <1>7, <1>8
<1> QED BY <1>1, <1>2, <1>5, <1>6, <1>8, <1>9, <1>11, <1>12, WriteInv DEF r

LEMMA InsertInv == ASSUME SaveInv, NEW c \in Browsers, createMany(c) PROVE SaveInv'
<1> DEFINE r == request[c]
           d == r.id
           kept == docs[d].rows \ r.seen
           key == IF kind = "song" /\ r.mode = "none" THEN r.key ELSE docs[d].key
           rows == taken(kind, r.rows)
           doc == [docs[d] EXCEPT !.rows = kept \cup rows, !.key = key]
           next == GoOn(r)
<1>1. /\ At(c, "insert") /\ Write(c, d, next)
      /\ docs' = [docs EXCEPT ![d].rows = kept \cup rows, ![d].key = key]
      /\ \A a \in kept, b \in r.rows : a.order # b.order
  BY DEF createMany
<1>2. /\ r # NoRequest /\ r \in Request /\ r.todo # <<>> /\ First(r.todo, "insert")
      /\ RequestShape(r, kind, docs, submits) /\ kind \in {"song", "plan"}
      /\ d \in DocIds \cup {0} /\ r.rows \subseteq SavedRow
  BY <1>1, AtFirst DEF SaveInv, ContentTypeOK
<1> HIDE DEF r
<1>3. ~First(r.todo, "next") /\ ~First(r.todo, "checkKey") /\ ~First(r.todo, "delete")
  BY <1>2 DEF First
<1>4. /\ Tail(r.todo) \in Seq(Steps) /\ ~Creates(Tail(r.todo)) /\ ~First(Tail(r.todo), "insert")
      /\ ~Pending(Tail(r.todo)) /\ Pending(r.todo)
  BY <1>2, <1>3, GoOnTodo DEF RequestShape
<1>5. /\ next \in Request /\ next.todo = Tail(r.todo) /\ next.rows = r.rows /\ next.mode = r.mode
      /\ next.key = r.key /\ next.left = r.left /\ next.save = r.save /\ next.id = d
      /\ next.seen = r.seen
  BY <1>2, <1>4 DEF GoOn, Request
<1>6. d \in DocIds /\ d # 0 /\ docs[d] # NoDoc /\ r.key \in Keys /\ SeenOrNew(r, docs)
  BY <1>2, <1>3 DEF RequestShape, Works
<1>7. /\ IsFiniteSet(rows) /\ FromZero(rows) /\ FromZero(r.rows) /\ rows \subseteq SavedRow
      /\ \A x \in rows : x.save = <<r.save, Len(r.left)>>
      /\ rows = {} <=> r.rows = {}
  <2>1. /\ IsFiniteSet(r.rows) /\ FromZero(r.rows)
        /\ \A x \in r.rows : x.save = <<r.save, Len(r.left)>>
    BY <1>2, <1>4 DEF RequestShape
  <2>2. /\ rows \subseteq SavedRow /\ (r.rows = {} <=> rows = {})
        /\ IsFiniteSet(r.rows) => IsFiniteSet(rows)
        /\ FromZero(r.rows) => FromZero(rows)
        /\ \A save : (\A x \in r.rows : x.save = save) => \A x \in rows : x.save = save
    BY <1>2, TakenOK
  <2> HIDE DEF rows
  <2> QED BY <2>1, <2>2
<1> HIDE DEF rows
<1>8. docs[d] \in Document /\ IsFiniteSet(docs[d].rows) /\ docs[d].rows \subseteq SavedRow
      /\ docs[d].key \in Keys
      /\ \A a, b \in docs[d].rows : a.save = b.save
  BY <1>6 DEF SaveInv, ContentTypeOK, RowsOK, Document
<1>9. kept \cup rows \in {docs[d].rows, rows}
  <2>1. CASE docs[d].rows \subseteq r.seen
    BY <2>1
  <2>2. CASE docs[d].rows \cap r.seen = {} /\ FromZero(docs[d].rows)
    <3>1. kept = docs[d].rows
      BY <2>2
    <3>2. kept = {} \/ r.rows = {}
      BY <1>1, <1>7, <2>2, <3>1 DEF FromZero
    <3> QED BY <1>7, <3>1, <3>2
  <2> QED BY <1>6, <2>1, <2>2 DEF SeenOrNew, d
<1> HIDE DEF d, next, kept
<1>10. key \in Keys
  BY <1>6, <1>8
<1> HIDE DEF key
<1>11. doc \in Document /\ doc.rows = kept \cup rows
  BY <1>7, <1>8, <1>9, <1>10 DEF Document
<1>12. docs' = [docs EXCEPT ![d] = doc]
  BY <1>1, <1>6, <1>8 DEF SaveInv, ContentTypeOK, Document
<1> HIDE DEF doc
<1>13. docs'[d] # NoDoc
  BY <1>6, <1>11, <1>12, ContentAssumption DEF SaveInv, ContentTypeOK
<1>14. /\ RequestShape(next, kind, docs', submits)
       /\ Pending(next.todo) => Pending(r.todo)
  BY <1>2, <1>3, <1>4, <1>5, <1>6, <1>13, GoOnShape DEF r
<1>15. /\ IsFiniteSet(doc.rows) /\ \A a, b \in doc.rows : a.save = b.save
       /\ \/ doc.rows = docs[d].rows
          \/ FromZero(doc.rows) /\ \A x \in doc.rows : x.save = <<r.save, Len(r.left)>>
  BY <1>7, <1>8, <1>9, <1>11
<1> QED BY <1>1, <1>2, <1>4, <1>5, <1>6, <1>11, <1>12, <1>14, <1>15, WriteInv DEF r

LEMMA EndInv == ASSUME SaveInv, NEW c \in Browsers, succeed(c) \/ fail(c) PROVE SaveInv'
<1>1. /\ request' = [request EXCEPT ![c] = NoRequest]
      /\ form' \in {form, [form EXCEPT ![c] = NoForm]}
      /\ UNCHANGED <<kind, docs, submits>>
  BY DEF succeed, fail
<1>2. request[c] # NoRequest
  BY DEF succeed, fail
<1>3. /\ request \in [Browsers -> Request \cup {NoRequest}]
      /\ form \in [Browsers -> Form \cup {NoForm}]
      /\ result \in [Browsers -> Result \cup {NoResult}]
      /\ submits \in Nat
  BY DEF SaveInv, ContentTypeOK
<1>4. /\ request'[c] = NoRequest /\ request' \in [Browsers -> Request \cup {NoRequest}]
      /\ \A b \in Browsers \ {c} : request'[b] = request[b]
      /\ form' \in [Browsers -> Form \cup {NoForm}]
      /\ \A b \in Browsers : form'[b] \in {form[b], NoForm}
  BY <1>1, <1>3
<1>5. result' \in [Browsers -> Result \cup {NoResult}]
  <2>1. CASE fail(c)
    BY <1>3, <2>1 DEF fail
  <2>2. CASE succeed(c)
    <3> DEFINE new == [id |-> request[c].id, key |-> request[c].key, rows |-> request[c].rows,
                       mode |-> request[c].mode]
    <3>1. new \in Result
      BY <1>2, <1>3 DEF Request, Result
    <3>2. result' \in {[result EXCEPT ![c] = new], [result EXCEPT ![c] = NoResult]}
      BY <2>2 DEF succeed
    <3> HIDE DEF new
    <3> QED BY <1>3, <3>1, <3>2
  <2> QED BY <2>1, <2>2
<1>6. ContentTypeOK'
  BY <1>1, <1>4, <1>5 DEF SaveInv, ContentTypeOK
<1>7. FormsThere'
  BY <1>1, <1>4 DEF SaveInv, FormsThere
<1>8. \A x : Old(x) => Old(x)'
  BY <1>1, <1>4 DEF Old
<1>9. RowsOK'
  BY <1>1, <1>8 DEF SaveInv, RowsOK
<1>10. SavesDiffer'
  BY <1>4 DEF SaveInv, SavesDiffer
<1>11. RequestsOK'
  <2> SUFFICES ASSUME NEW b \in Browsers, request'[b] # NoRequest
               PROVE  /\ RequestShape(request'[b], kind', docs', submits')
                      /\ \A x \in request'[b].seen : Old(x)'
    BY DEF RequestsOK
  <2>1. request'[b] = request[b]
    BY <1>4
  <2>2. RequestShape(request[b], kind, docs, submits) /\ \A x \in request[b].seen : Old(x)
    BY <2>1 DEF SaveInv, RequestsOK
  <2> QED BY <1>1, <1>8, <2>1, <2>2
<1> QED BY <1>6, <1>7, <1>9, <1>10, <1>11 DEF SaveInv

LEMMA FormInv ==
    ASSUME SaveInv, NEW c \in Browsers, NEW new \in Form, form' = [form EXCEPT ![c] = new],
           new.id # 0 => docs[new.id] # NoDoc,
           UNCHANGED <<kind, docs, request, submits, result>>
    PROVE  SaveInv'
<1>1. form \in [Browsers -> Form \cup {NoForm}]
  BY DEF SaveInv, ContentTypeOK
<1>2. /\ form' \in [Browsers -> Form \cup {NoForm}] /\ form'[c] = new
      /\ \A b \in Browsers \ {c} : form'[b] = form[b]
  BY <1>1
<1>3. ContentTypeOK'
  BY <1>2 DEF SaveInv, ContentTypeOK
<1>4. FormsThere'
  BY <1>2 DEF SaveInv, FormsThere
<1>5. \A x : Old(x) => Old(x)'
  BY DEF Old
<1>6. RowsOK' /\ SavesDiffer'
  BY <1>5 DEF SaveInv, RowsOK, SavesDiffer
<1>7. RequestsOK'
  BY <1>5 DEF SaveInv, RequestsOK
<1> QED BY <1>3, <1>4, <1>6, <1>7 DEF SaveInv

LEMMA OpenInv ==
    ASSUME SaveInv, NEW c \in Browsers,
           (\E key \in Keys : openNew(c, key)) \/ (\E d \in DocIds : openEdit(c, d))
    PROVE  SaveInv'
<1>1. ASSUME NEW key \in Keys, openNew(c, key) PROVE SaveInv'
  <2> DEFINE new == [id |-> 0, key |-> key, rows |-> <<>>]
  <2>1. form' = [form EXCEPT ![c] = new] /\ UNCHANGED <<kind, docs, request, submits, result>>
    BY <1>1 DEF openNew, Edits
  <2>2. new \in Form /\ new.id = 0
    BY DEF Form
  <2> HIDE DEF new
  <2> QED BY <2>1, <2>2, FormInv
<1>2. ASSUME NEW d \in DocIds, openEdit(c, d) PROVE SaveInv'
  <2>1. PICK rows \in Sorted(docs[d].rows) :
            form' = [form EXCEPT ![c] = [id |-> d, key |-> docs[d].key, rows |-> rows]]
    BY <1>2 DEF openEdit
  <2> DEFINE new == [id |-> d, key |-> docs[d].key, rows |-> rows]
  <2>2. UNCHANGED <<kind, docs, request, submits, result>> /\ docs[d] # NoDoc
    BY <1>2 DEF openEdit, Edits, Visible
  <2>3. docs[d].key \in Keys /\ docs[d].rows \subseteq SavedRow /\ IsFiniteSet(docs[d].rows)
    BY <2>2 DEF SaveInv, ContentTypeOK, RowsOK, Document
  <2>4. Cardinality(docs[d].rows) \in Nat
    BY <2>3, FS_CardinalityType
  <2>5. rows \in Seq(SavedRow)
    BY <2>3, <2>4 DEF Sorted
  <2>6. new \in Form /\ new.id = d
    BY <2>3, <2>5 DEF Form
  <2> HIDE DEF new
  <2> QED BY <2>1, <2>2, <2>6, FormInv DEF new
<1> QED BY <1>1, <1>2

LEMMA EditInv ==
    ASSUME SaveInv, NEW c \in Browsers,
           addRow(c) \/ (\E i \in 1..3 : removeRow(c, i)) \/ (\E key \in Keys : setKey(c, key))
    PROVE  SaveInv'
<1> DEFINE f == form[c]
<1>1. form[c] # NoForm /\ UNCHANGED <<kind, docs, request, submits, result>>
  BY DEF addRow, removeRow, setKey, EditForm, Edits
<1>2. /\ f \in Form /\ f.id \in DocIds \cup {0} /\ f.key \in Keys
      /\ f.rows \in Seq(SavedRow) /\ (f.id # 0 => docs[f.id] # NoDoc)
  BY <1>1, FormFacts
<1>3. \A n \in Nat, txt \in Text : row(n, txt, Unsaved) \in SavedRow
  BY DEF row, Unsaved, SavedRow
<1>4. form \in [Browsers -> Form \cup {NoForm}]
  BY DEF SaveInv, ContentTypeOK
<1>5. CASE addRow(c)
  <2> DEFINE txt == text(c, FALSE)
             rows == Append(f.rows, row(Len(f.rows), txt, Unsaved))
             new == [f EXCEPT !.rows = rows]
  <2>1. form' = [form EXCEPT ![c] = new]
    BY <1>4, <1>5 DEF addRow
  <2>2. txt \in Text
    <3>1. c \in Words
      BY DEF Words
    <3> QED BY <3>1 DEF text, Text
  <2> HIDE DEF txt
  <2>3. row(Len(f.rows), txt, Unsaved) \in SavedRow
    BY <1>2, <1>3, <2>2
  <2>4. rows \in Seq(SavedRow)
    BY <1>2, <2>3
  <2> HIDE DEF rows
  <2>5. new \in Form /\ new.id = f.id
    BY <1>2, <2>4 DEF Form
  <2> HIDE DEF new
  <2> QED BY <1>1, <1>2, <2>1, <2>5, FormInv
<1>6. ASSUME NEW i \in 1..3, removeRow(c, i) PROVE SaveInv'
  <2> DEFINE rows == [j \in 1..(Len(f.rows) - 1) |->
                        row(j - 1, IF j < i THEN f.rows[j].text ELSE f.rows[j + 1].text, Unsaved)]
             new == [f EXCEPT !.rows = rows]
  <2>1. form' = [form EXCEPT ![c] = new] /\ i \in 1..Len(f.rows)
    BY <1>4, <1>6 DEF removeRow
  <2>2. Len(f.rows) \in Nat /\ Len(f.rows) - 1 \in Nat
    BY <1>2, <2>1
  <2>3. \A j \in 1..Len(f.rows) : f.rows[j].text \in Text
    <3>1. \A j \in 1..Len(f.rows) : f.rows[j] \in SavedRow
      BY <1>2
    <3> QED BY <3>1 DEF SavedRow
  <2>4. ASSUME NEW j \in 1..(Len(f.rows) - 1)
        PROVE  row(j - 1, IF j < i THEN f.rows[j].text ELSE f.rows[j + 1].text, Unsaved) \in SavedRow
    <3>1. j - 1 \in Nat /\ j \in 1..Len(f.rows) /\ j + 1 \in 1..Len(f.rows)
      BY <2>2
    <3>2. (IF j < i THEN f.rows[j].text ELSE f.rows[j + 1].text) \in Text
      BY <2>3, <3>1
    <3> QED BY <1>3, <3>1, <3>2
  <2>5. rows \in Seq(SavedRow)
    BY <2>2, <2>4
  <2> HIDE DEF rows
  <2>6. new \in Form /\ new.id = f.id
    BY <1>2, <2>5 DEF Form
  <2> HIDE DEF new
  <2> QED BY <1>1, <1>2, <2>1, <2>6, FormInv
<1>7. ASSUME NEW key \in Keys, setKey(c, key) PROVE SaveInv'
  <2> DEFINE new == [f EXCEPT !.key = key]
  <2>1. form' = [form EXCEPT ![c] = new]
    BY <1>4, <1>7 DEF setKey
  <2>2. new \in Form /\ new.id = f.id
    BY <1>2 DEF Form
  <2> HIDE DEF new
  <2> QED BY <1>1, <1>2, <2>1, <2>2, FormInv
<1> QED BY <1>5, <1>6, <1>7

LEMMA DeleteDocInv == ASSUME SaveInv, NEW d \in DocIds, deleteDoc(d) PROVE SaveInv'
<1> DEFINE doc == [docs[d] EXCEPT !.deleted = TRUE]
<1>1. /\ d \in Visible /\ docs' = [docs EXCEPT ![d].deleted = TRUE]
      /\ request' = Others("nobody", d, NoRequest) /\ result' = Overwritten("nobody", d)
      /\ UNCHANGED <<kind, form, submits>>
  BY DEF deleteDoc
<1>2. /\ request' \in [Browsers -> Request \cup {NoRequest}]
      /\ result' \in [Browsers -> Result \cup {NoResult}]
      /\ \A b \in Browsers : SameRequest(b)
  <2>1. \A b \in Browsers \ {"nobody"} : SameRequest(b)
    BY <1>1, OthersFacts
  <2> QED BY <1>1, <2>1, OthersFacts, ContentAssumption
<1>3. docs[d] \in Document /\ docs[d] # NoDoc
  BY <1>1 DEF Visible, SaveInv, ContentTypeOK
<1>4. doc \in Document /\ doc.rows = docs[d].rows /\ doc # NoDoc
  BY <1>3, ContentAssumption DEF Document
<1>5. docs' = [docs EXCEPT ![d] = doc]
  BY <1>1
<1> HIDE DEF doc
<1>6. /\ docs' \in [DocIds -> Document \cup {NoDoc}]
      /\ \A e \in DocIds : /\ docs'[e] = NoDoc <=> docs[e] = NoDoc
                           /\ docs[e] # NoDoc => docs'[e].rows = docs[e].rows
  BY <1>3, <1>4, <1>5 DEF SaveInv, ContentTypeOK
<1>7. ContentTypeOK'
  BY <1>1, <1>2, <1>6 DEF SaveInv, ContentTypeOK
<1>8. FormsThere'
  <2>1. \A b \in Browsers : form[b] # NoForm => form[b].id \in DocIds \cup {0}
    BY FormFacts
  <2> QED BY <1>1, <1>6, <2>1 DEF SaveInv, FormsThere
<1>9. DocsKept
  BY <1>6 DEF DocsKept
<1>10. submits \in Nat /\ submits' = submits
  BY <1>1 DEF SaveInv, ContentTypeOK
<1>11. \A x \in SavedRow : Old(x) => Old(x)'
  BY <1>2, <1>10, SameOld, OldKept
<1>12. RowsOK'
  BY <1>6, <1>11 DEF SaveInv, ContentTypeOK, RowsOK, Document
<1>13. SavesDiffer'
  BY <1>2 DEF SaveInv, SavesDiffer, SameRequest
<1>14. RequestsOK'
  <2> SUFFICES ASSUME NEW b \in Browsers, request'[b] # NoRequest
               PROVE  /\ RequestShape(request'[b], kind', docs', submits')
                      /\ \A x \in request'[b].seen : Old(x)'
    BY DEF RequestsOK
  <2>1. request[b] # NoRequest /\ SameRequest(b) /\ request'[b].seen = request[b].seen
    BY <1>2 DEF SameRequest
  <2>2. request[b].seen \subseteq SavedRow
    BY <2>1 DEF SaveInv, ContentTypeOK, Request
  <2>3. \A x \in request[b].seen : Old(x)
    BY <2>1 DEF SaveInv, RequestsOK
  <2>4. RequestShape(request'[b], kind', docs', submits')
    <3>1. submits' \in Nat /\ submits <= submits' /\ kind' = kind
      BY <1>1, <1>10
    <3> QED BY <1>9, <2>1, <3>1, RequestKept
  <2> QED BY <1>11, <2>1, <2>2, <2>3, <2>4
<1> QED BY <1>7, <1>8, <1>12, <1>13, <1>14 DEF SaveInv

LEMMA SaveNextInv == SaveInv /\ [WebNext]_webVars => SaveInv'
<1> SUFFICES ASSUME SaveInv, [WebNext]_webVars PROVE SaveInv'
  OBVIOUS
<1>1. CASE UNCHANGED contentVars
  BY <1>1 DEF contentVars, SaveInv, ContentTypeOK, FormsThere, RowsOK, SavesDiffer, RequestsOK,
              Old
<1>2. ASSUME NEW c \in Browsers,
             \/ \E key \in Keys : openNew(c, key) \/ setKey(c, key)
             \/ \E d \in DocIds : openEdit(c, d)
             \/ addRow(c)
             \/ \E i \in 1..3 : removeRow(c, i)
      PROVE  SaveInv'
  BY <1>2, OpenInv, EditInv
<1>3. ASSUME NEW c \in Browsers,
             \/ submitSong(c) \/ submitPlan(c)
             \/ \E mode \in {"IGNORE", "OVERWRITE"} : processImport(c, mode)
             \/ checkKey(c) \/ create(c) \/ checkDoc(c) \/ update(c) \/ lock(c)
             \/ deleteMany(c) \/ createMany(c) \/ importNext(c) \/ succeed(c) \/ fail(c)
      PROVE  SaveInv'
  BY <1>3, SubmitFormInv, ImportInv, CheckInv, CreateInv, UpdateInv, DeleteInv, InsertInv,
     NextSongInv, EndInv
<1>4. ASSUME NEW d \in DocIds, deleteDoc(d) PROVE SaveInv'
  BY <1>4, DeleteDocInv
<1>5. CASE ContentStep
  BY <1>2, <1>3, <1>4, <1>5 DEF ContentStep
<1> QED BY <1>1, <1>5 DEF WebNext, webVars

\* The rows of a song or plan are those of one save: nobody's rows are mixed with
\* those that another browser or an import wrote at the same time.
THEOREM RowsTheorem == WebSpec => []RowsOfOneSave
<1>1. WebInit => SaveInv
  BY SaveInitInv DEF WebInit
<1>2. SaveInv => RowsOfOneSave
  BY DEF SaveInv, RowsOK, RowsOfOneSave
<1> QED BY <1>1, <1>2, SaveNextInv, PTL DEF WebSpec

-----------------------------------------------------------------------------
(***************************************************************************)
(* What is said to be saved is saved.  A request that is alone goes        *)
(* through what it has promised so far.                                    *)
(***************************************************************************)
Has(todo, what) == \E i \in DOMAIN todo : todo[i] = what

There(d, documents) == d \in DocIds /\ documents[d] # NoDoc /\ ~documents[d].deleted

\* The step that writes the key is done, and the one that writes the rows.
KeyWritten(k, todo) ==
    ~Has(todo, "create") /\ ~Has(todo, "update") /\ (k = "song" => ~Has(todo, "insert"))

RowsWritten(k, todo) == ~Has(todo, "insert") /\ (k = "song" => ~Has(todo, "create"))

\* The rows that deleteMany saw are still all the rows.
SeenAll(r, documents) == First(r.todo, "insert") => documents[r.id].rows \subseteq r.seen

\* The request of a form.
FormOK(r, k, documents) ==
    /\ ~Creates(r.todo) /\ ~First(r.todo, "checkDoc") => There(r.id, documents)
    /\ r.id # 0 /\ KeyWritten(k, r.todo) => documents[r.id].key = r.key
    /\ r.id # 0 /\ RowsWritten(k, r.todo) /\ r.rows # {} => documents[r.id].rows = taken(k, r.rows)
    /\ k = "plan" /\ r.rows # {} /\ r.todo # <<>> => Has(r.todo, "insert")
    /\ SeenAll(r, documents)

\* The song i of the files is in the library.
Imported(i, mode, documents) ==
    \E d \in DocIds :
        /\ There(d, documents)
        /\ documents[d].key = Batch[i].key
        /\ mode = "OVERWRITE" /\ LastOfItsKey(i)
             => Texts(documents[d].rows) = Texts(payload(Batch[i].rows, Unsaved))

\* The request of an import, which has taken n songs.
BatchOK(r, documents) ==
    \E n \in 0..Len(Batch) :
        /\ Len(r.left) = Len(Batch) - n
        /\ \A j \in 1..Len(r.left) : r.left[j] = Batch[n + j]
        /\ \A i \in 1..n : i < n \/ First(r.todo, "next") => Imported(i, r.mode, documents)
        /\ ~First(r.todo, "next") =>
              /\ n > 0 /\ r.key = Batch[n].key
              /\ r.rows = payload(Batch[n].rows, <<r.save, Len(r.left)>>)
              /\ ~Creates(r.todo) => There(r.id, documents) /\ documents[r.id].key = r.key
        /\ SeenAll(r, documents)

AloneOK(r, k, documents) == IF r.mode = "none" THEN FormOK(r, k, documents) ELSE BatchOK(r, documents)

\* A browser has the result of its last submission, once that has ended.
ResultsAfter == \A c \in Browsers : request[c] # NoRequest => result[c] = NoResult

DoneInv ==
    /\ ResultsAfter /\ DoneAsSaid
    /\ \A c \in Browsers :
          request[c] # NoRequest /\ request[c].alone => AloneOK(request[c], kind, docs)

LEMMA HasSteps ==
    ASSUME NEW todo \in Seq(Steps), NEW what
    PROVE  /\ todo # <<>> => (Has(todo, what) <=> Head(todo) = what \/ Has(Tail(todo), what))
           /\ ~Has(<<>>, what)
<1>1. ~Has(<<>>, what)
  BY DEF Has
<1>2. ASSUME todo # <<>>, Has(todo, what), Head(todo) # what PROVE Has(Tail(todo), what)
  <2>1. PICK i \in DOMAIN todo : todo[i] = what
    BY <1>2 DEF Has
  <2>2. i - 1 \in DOMAIN Tail(todo) /\ Tail(todo)[i - 1] = todo[i]
    BY <1>2, <2>1
  <2> QED BY <2>1, <2>2 DEF Has
<1>3. ASSUME todo # <<>>, Head(todo) = what \/ Has(Tail(todo), what) PROVE Has(todo, what)
  <2>1. CASE Head(todo) = what
    BY <1>3, <2>1 DEF Has
  <2>2. CASE Has(Tail(todo), what)
    <3>1. PICK i \in DOMAIN Tail(todo) : Tail(todo)[i] = what
      BY <2>2 DEF Has
    <3>2. i + 1 \in DOMAIN todo /\ Tail(todo)[i] = todo[i + 1]
      BY <1>3, <3>1
    <3> QED BY <3>1, <3>2 DEF Has
  <2> QED BY <1>3, <2>1, <2>2
<1> QED BY <1>1, <1>2, <1>3

\* What is left of a form after one of its routes.
LEMMA FormTodo ==
    ASSUME NEW k \in {"song", "plan"}, NEW todo \in Todos(k, "none"), todo # <<>>
    PROVE  /\ todo \in Seq(Steps) /\ Tail(todo) \in Seq(Steps)
           /\ ~First(todo, "next")
           /\ Creates(Tail(todo)) => First(todo, "checkKey")
           /\ First(todo, "checkKey") => First(Tail(todo), "create")
           /\ First(Tail(todo), "insert") => First(todo, "delete")
           /\ First(todo, "insert") => Tail(todo) = <<>>
           /\ Creates(todo) \/ First(todo, "checkDoc") \/ First(todo, "update")
                \/ First(todo, "lock") \/ First(todo, "delete") \/ First(todo, "insert")
           /\ k = "song" => ~First(todo, "update")
           /\ First(todo, "create") => ~Has(Tail(todo), "update") /\ ~Has(Tail(todo), "create")
           /\ First(todo, "create") /\ k = "song" => Tail(todo) = <<>>
           /\ First(todo, "update") => ~Has(Tail(todo), "update") /\ ~Has(Tail(todo), "create")
<1>1. todo \in Seq(Steps) /\ Tail(todo) \in Seq(Steps)
  BY TodoTypes DEF Todos
<1>2. ASSUME NEW t \in ItemTodos PROVE ~Has(t, "update") /\ ~Has(t, "create")
  BY <1>2 DEF ItemTodos, Has
<1>3. CASE k = "song"
  <2>1. todo \in SongTodos
    BY <1>3 DEF Todos
  <2>2. /\ Head(todo) \in {"checkKey", "create", "checkDoc", "lock", "delete", "insert"}
        /\ First(todo, "checkKey") => First(Tail(todo), "create")
        /\ ~First(todo, "checkKey") => ~Creates(Tail(todo))
        /\ First(todo, "create") \/ First(todo, "insert") => Tail(todo) = <<>>
        /\ First(Tail(todo), "insert") => First(todo, "delete")
    BY <2>1, SongSteps
  <2>3. ~Has(<<>>, "update") /\ ~Has(<<>>, "create")
    BY DEF Has
  <2> QED BY <1>1, <1>3, <2>2, <2>3 DEF First, Creates
<1>4. CASE k = "plan"
  <2>1. todo \in PlanTodos
    BY <1>4 DEF Todos
  <2>2. /\ Head(todo) \in {"checkKey", "create", "checkDoc", "update", "delete", "insert"}
        /\ First(todo, "checkKey") => First(Tail(todo), "create")
        /\ ~First(todo, "checkKey") => ~Creates(Tail(todo))
        /\ First(todo, "insert") => Tail(todo) = <<>>
        /\ First(todo, "create") \/ First(todo, "update") => Tail(todo) \in ItemTodos
        /\ First(Tail(todo), "insert") => First(todo, "delete")
    BY <2>1, PlanSteps
  <2> QED BY <1>1, <1>2, <1>4, <2>2 DEF First, Creates
<1> QED BY <1>3, <1>4

\* The texts of a payload do not depend on the save.
LEMMA TextsOfPayload ==
    ASSUME NEW rows, NEW s, NEW t
    PROVE  Texts(payload(rows, s)) = Texts(payload(rows, t))
<1>1. ASSUME NEW save PROVE Texts(payload(rows, save)) = {<<i - 1, rows[i].text>> : i \in 1..Len(rows)}
  <2> DEFINE e(i) == row(i - 1, rows[i].text, save)
  <2>1. \A i : e(i).order = i - 1 /\ e(i).text = rows[i].text
    BY DEF row
  <2>2. payload(rows, save) = {e(i) : i \in 1..Len(rows)}
    BY DEF payload
  <2> HIDE DEF e
  <2>3. Texts(payload(rows, save)) = {<<e(i).order, e(i).text>> : i \in 1..Len(rows)}
    BY <2>2 DEF Texts
  <2> QED BY <2>1, <2>3
<1> QED BY <1>1

\* Of a request and of the library it only matters what follows.
LEMMA SameAlone ==
    ASSUME NEW r \in Request, NEW s \in Request, NEW k, NEW documents, NEW others,
           s.id = r.id, s.key = r.key, s.rows = r.rows, s.todo = r.todo, s.seen = r.seen,
           s.mode = r.mode, s.left = r.left, s.save = r.save,
           IF r.mode = "none" THEN r.id \in DocIds => others[r.id] = documents[r.id]
                              ELSE others = documents,
           AloneOK(r, k, documents), Works(r.todo) => r.id \in DocIds
    PROVE  AloneOK(s, k, others)
<1>1. r.id \in DocIds \cup {0}
  BY DEF Request
<1>2. CASE r.mode # "none"
  <2>1. BatchOK(r, documents)
    BY <1>2 DEF AloneOK
  <2>2. BatchOK(s, others)
    BY <1>2, <2>1 DEF BatchOK, SeenAll
  <2> QED BY <1>2, <2>2 DEF AloneOK
<1>3. CASE r.mode = "none"
  <2>1. FormOK(r, k, documents)
    BY <1>3 DEF AloneOK
  <2>2. FormOK(s, k, others)
    <3>1. ~Creates(r.todo) /\ ~First(r.todo, "checkDoc") => There(r.id, others)
      BY <1>3, <2>1 DEF FormOK, There
    <3>2. r.id # 0 => others[r.id] = documents[r.id]
      BY <1>1, <1>3
    <3>3. SeenAll(r, others)
      BY <1>3, <2>1 DEF FormOK, SeenAll, Works
    <3> QED BY <2>1, <3>1, <3>2, <3>3 DEF FormOK, SeenAll
  <2> QED BY <1>3, <2>2 DEF AloneOK
<1> QED BY <1>2, <1>3

LEMMA AloneFacts ==
    ASSUME SaveInv, DoneInv, NEW c \in Browsers, request[c] # NoRequest
    PROVE  /\ request[c] \in Request /\ kind \in {"song", "plan"} /\ result[c] = NoResult
           /\ RequestShape(request[c], kind, docs, submits)
           /\ Works(request[c].todo) => request[c].id \in DocIds
           /\ request[c].alone => AloneOK(request[c], kind, docs)
<1>1. /\ request[c] \in Request /\ RequestShape(request[c], kind, docs, submits)
      /\ kind \in {"song", "plan"}
  BY DEF SaveInv, ContentTypeOK, RequestsOK
<1>2. request[c].id \in DocIds \cup {0}
  BY <1>1 DEF Request
<1> QED BY <1>1, <1>2 DEF DoneInv, ResultsAfter, RequestShape

\* A result that stays is about documents that stay.
LEMMA ResultsKept ==
    ASSUME SaveInv, DoneInv,
           \A c \in Browsers : result'[c] # NoResult =>
               /\ result'[c] = result[c]
               /\ IF result[c].mode = "none"
                  THEN result[c].id \in DocIds => docs'[result[c].id] = docs[result[c].id]
                  ELSE docs' = docs
    PROVE  DoneAsSaid'
<1>1. SavedAsShown'
  <2> SUFFICES ASSUME NEW c \in Browsers, result'[c] # NoResult, result'[c].mode = "none"
               PROVE  /\ result'[c].id \in Visible'
                      /\ docs'[result'[c].id].key = result'[c].key
                      /\ result'[c].rows # {} => Shown(docs'[result'[c].id].rows) = Shown(result'[c].rows)
    BY DEF SavedAsShown, Shown
  <2>1. /\ result[c].id \in Visible
        /\ docs[result[c].id].key = result[c].key
        /\ result[c].rows # {} => Shown(docs[result[c].id].rows) = Shown(result[c].rows)
    BY DEF DoneInv, DoneAsSaid, SavedAsShown
  <2>2. result[c].id \in DocIds
    BY <2>1 DEF Visible
  <2> QED BY <2>1, <2>2 DEF Visible
<1>2. ImportDone'
  <2> SUFFICES ASSUME NEW c \in Browsers, result'[c] # NoResult, result'[c].mode # "none",
                      NEW i \in 1..Len(Batch)
               PROVE  \E d \in Visible' :
                          /\ docs'[d].key = Batch[i].key
                          /\ result'[c].mode = "OVERWRITE" /\ LastOfItsKey(i)
                               => Texts(docs'[d].rows) = Texts(payload(Batch[i].rows, Unsaved))
    BY DEF ImportDone, Texts, payload, row, LastOfItsKey, Unsaved
  <2>1. result'[c] = result[c] /\ docs' = docs
    OBVIOUS
  <2> QED BY <2>1 DEF DoneInv, DoneAsSaid, ImportDone, Visible
<1> QED BY <1>1, <1>2 DEF DoneAsSaid

\* c writes at most the document d; a browser that goes on alone has not seen a change.
LEMMA WriteDone ==
    ASSUME SaveInv, DoneInv, NEW c, NEW d \in DocIds, NEW next \in Request \cup {NoRequest},
           request' = Others(c, d, next), result' = Overwritten(c, d), kind' = kind,
           \A e \in DocIds \ {d} : docs'[e] = docs[e],
           c \in Browsers => /\ request[c] # NoRequest /\ next # NoRequest
                             /\ next.alone => AloneOK(next, kind, docs')
    PROVE  DoneInv'
<1>1. /\ request' \in [Browsers -> Request \cup {NoRequest}]
      /\ \A b \in Browsers \ {c} : SameRequest(b)
      /\ c \in Browsers => request'[c] = next
  BY OthersFacts
<1>2. \A b \in Browsers : result'[b] # NoResult => /\ result'[b] = result[b]
                                                   /\ result[b].mode = "none" \/ b = c
                                                   /\ result[b].id # d \/ b = c
  BY DEF Overwritten
<1>3. c \in Browsers => result'[c] = NoResult
  BY AloneFacts DEF Overwritten
<1>4. DoneAsSaid'
  BY <1>2, <1>3, ResultsKept
<1>5. ResultsAfter'
  <2> SUFFICES ASSUME NEW b \in Browsers, request'[b] # NoRequest PROVE result'[b] = NoResult
    BY DEF ResultsAfter
  <2>1. CASE b = c
    BY <1>3, <2>1
  <2>2. CASE b # c
    BY <1>1, <1>2, <2>2, AloneFacts DEF SameRequest
  <2> QED BY <2>1, <2>2
<1>6. ASSUME NEW b \in Browsers, request'[b] # NoRequest, request'[b].alone
      PROVE  AloneOK(request'[b], kind', docs')
  <2>1. CASE b = c
    BY <1>1, <1>6, <2>1
  <2>2. CASE b # c
    <3> DEFINE r == request[b]
               s == request'[b]
    <3>1. /\ s \in Request /\ r # NoRequest
          /\ s.id = r.id /\ s.key = r.key /\ s.rows = r.rows /\ s.todo = r.todo /\ s.seen = r.seen
          /\ s.mode = r.mode /\ s.left = r.left /\ s.save = r.save
      BY <1>1, <1>6, <2>2 DEF SameRequest
    <3>2. r \in Request /\ (Works(r.todo) => r.id \in DocIds)
      BY <3>1, AloneFacts
    <3>3. s = r /\ r.alone /\ r.id # d /\ r.mode = "none"
      <4>1. s = IF r # NoRequest /\ (r.id = d \/ r.mode # "none") THEN [r EXCEPT !.alone = FALSE] ELSE r
        BY <2>2 DEF Others
      <4>2. CASE r.id = d \/ r.mode # "none"
        <5>1. s = [r EXCEPT !.alone = FALSE]
          BY <3>1, <4>1, <4>2
        <5>2. ~s.alone
          BY <3>2, <5>1 DEF Request
        <5> QED BY <1>6, <5>2
      <4>3. CASE ~(r.id = d \/ r.mode # "none")
        BY <1>6, <4>1, <4>3
      <4> QED BY <4>2, <4>3
    <3>4. AloneOK(r, kind, docs)
      BY <3>1, <3>3, AloneFacts
    <3>5. r.id \in DocIds => docs'[r.id] = docs[r.id]
      BY <3>3
    <3>6. /\ r.id = r.id /\ r.key = r.key /\ r.rows = r.rows /\ r.todo = r.todo /\ r.seen = r.seen
          /\ r.mode = r.mode /\ r.left = r.left /\ r.save = r.save
      OBVIOUS
    <3> HIDE DEF r, s
    <3>7. AloneOK(r, kind, docs')
      BY <3>2, <3>3, <3>4, <3>5, <3>6, SameAlone
    <3> QED BY <3>3, <3>7 DEF s
  <2> QED BY <2>1, <2>2
<1> QED BY <1>4, <1>5, <1>6 DEF DoneInv

\* c goes on, and writes nothing.
LEMMA ReadDone ==
    ASSUME SaveInv, DoneInv, NEW c \in Browsers, request[c] # NoRequest, NEW next, next # NoRequest,
           Read(c, next), next.alone => AloneOK(next, kind, docs)
    PROVE  DoneInv'
<1>1. /\ request' = [request EXCEPT ![c] = next] /\ kind' = kind /\ docs' = docs /\ result' = result
  BY DEF Read
<1>2. /\ request'[c] = next /\ \A b \in Browsers \ {c} : request'[b] = request[b]
  BY <1>1 DEF SaveInv, ContentTypeOK
<1>3. DoneAsSaid'
  BY <1>1, ResultsKept
<1>4. ResultsAfter'
  BY <1>1, <1>2 DEF DoneInv, ResultsAfter
<1>5. ASSUME NEW b \in Browsers, request'[b] # NoRequest, request'[b].alone
      PROVE  AloneOK(request'[b], kind', docs')
  BY <1>1, <1>2, <1>5 DEF DoneInv
<1> QED BY <1>3, <1>4, <1>5 DEF DoneInv

LEMMA DoneInitInv == ContentInit => DoneInv
BY DEF ContentInit, DoneInv, ResultsAfter, DoneAsSaid, SavedAsShown, ImportDone

LEMMA SubmitDone ==
    ASSUME SaveInv, DoneInv, NEW c \in Browsers, NEW r \in Request, Submit(c, r), AloneOK(r, kind, docs)
    PROVE  DoneInv'
<1>1. /\ request' = [request EXCEPT ![c] = r] /\ result' = [result EXCEPT ![c] = NoResult]
      /\ kind' = kind /\ docs' = docs
  BY DEF Submit
<1>2. /\ request'[c] = r /\ result'[c] = NoResult
      /\ \A b \in Browsers \ {c} : request'[b] = request[b] /\ result'[b] = result[b]
  BY <1>1 DEF SaveInv, ContentTypeOK
<1>3. DoneAsSaid'
  BY <1>1, <1>2, ResultsKept
<1>4. ResultsAfter'
  BY <1>2 DEF DoneInv, ResultsAfter
<1>5. ASSUME NEW b \in Browsers, request'[b] # NoRequest, request'[b].alone
      PROVE  AloneOK(request'[b], kind', docs')
  BY <1>1, <1>2, <1>5 DEF DoneInv
<1> QED BY <1>3, <1>4, <1>5 DEF DoneInv

LEMMA Chained ==
    ASSUME NEW S, NEW s \in Seq(S), NEW t \in Seq(S)
    PROVE  /\ s \o t \in Seq(S) /\ Len(s \o t) = Len(s) + Len(t)
           /\ \A i \in 1..Len(s) : (s \o t)[i] = s[i]
           /\ \A i \in 1..Len(t) : (s \o t)[Len(s) + i] = t[i]
OBVIOUS

LEMMA NewRequest ==
    ASSUME NEW id \in DocIds \cup {0}, NEW key \in Keys, NEW rows, rows \subseteq SavedRow,
           NEW todo \in Seq(Steps), submits \in Nat
    PROVE  LET r == newRequest(id, key, rows, todo)
           IN  /\ r \in Request /\ r.id = id /\ r.key = key /\ r.rows = rows /\ r.todo = todo
               /\ r.mode = "none"
BY DEF newRequest, Request

\* The form of a song that is there sends its rows; that of a plan, its date.
LEMMA SendFormDone ==
    ASSUME SaveInv, DoneInv, NEW c \in Browsers, form[c] # NoForm, NEW todo \in Seq(Steps), NEW rows,
           rows = payload(form[c].rows, <<submits + 1, 0>>),
           IF form[c].id = 0 THEN First(todo, "checkKey") ELSE First(todo, "checkDoc"),
           kind = "song" /\ form[c].id # 0 => Has(todo, "insert"),
           kind = "plan" /\ form[c].id # 0 => Has(todo, "update"),
           kind = "plan" /\ rows # {} => Has(todo, "insert"),
           Submit(c, newRequest(form[c].id, form[c].key, rows, todo))
    PROVE  DoneInv'
<1> DEFINE r == newRequest(form[c].id, form[c].key, rows, todo)
<1>1. /\ form[c].id \in DocIds \cup {0} /\ form[c].key \in Keys /\ form[c].rows \in Seq(SavedRow)
      /\ submits \in Nat /\ kind \in {"song", "plan"}
  BY FormFacts DEF SaveInv, ContentTypeOK
<1>2. rows \subseteq SavedRow
  <2>1. <<submits + 1, 0>> \in Nat \X Nat
    BY <1>1
  <2> QED BY <1>1, <2>1, PayloadOK
<1>3. /\ r \in Request /\ r.id = form[c].id /\ r.rows = rows /\ r.todo = todo /\ r.mode = "none"
  <2>1. form[c].id \in DocIds \cup {0} /\ form[c].key \in Keys /\ submits \in Nat /\ todo \in Seq(Steps)
    BY <1>1
  <2> QED BY ONLY <1>2, <2>1, NewRequest
<1>4. Submit(c, r)
  OBVIOUS
<1> HIDE DEF r
<1>5. /\ Creates(todo) \/ First(todo, "checkDoc")
      /\ ~First(todo, "insert")
  BY DEF Creates, First
<1>6. FormOK(r, kind, docs)
  BY <1>1, <1>3, <1>5 DEF FormOK, SeenAll, KeyWritten, RowsWritten
<1> QED BY <1>3, <1>4, <1>6, SubmitDone DEF AloneOK

LEMMA SubmitFormDone ==
    ASSUME SaveInv, DoneInv, NEW c \in Browsers, submitSong(c) \/ submitPlan(c) PROVE DoneInv'
<1>1. CASE submitSong(c)
  <2> DEFINE todo == IF form[c].id = 0 THEN <<"checkKey", "create">>
                     ELSE <<"checkDoc", "lock", "delete", "insert">>
             rows == payload(form[c].rows, <<submits + 1, 0>>)
  <2>1. /\ form[c] # NoForm /\ kind = "song"
        /\ Submit(c, newRequest(form[c].id, form[c].key, rows, todo))
    BY <1>1 DEF submitSong
  <2>2. /\ todo \in Seq(Steps)
        /\ IF form[c].id = 0 THEN First(todo, "checkKey") ELSE First(todo, "checkDoc")
    BY StepsOf, HeadOf DEF First
  <2>3. form[c].id # 0 => Has(todo, "insert")
    <3>1. Has(<<"checkDoc", "lock", "delete", "insert">>, "insert")
      <4>1. 4 \in DOMAIN <<"checkDoc", "lock", "delete", "insert">>
        OBVIOUS
      <4> QED BY <4>1 DEF Has
    <3> QED BY <3>1
  <2> HIDE DEF todo, rows
  <2>4. rows = payload(form[c].rows, <<submits + 1, 0>>)
    BY DEF rows
  <2> QED BY <2>1, <2>2, <2>3, <2>4, SendFormDone
<1>2. CASE submitPlan(c)
  <2> DEFINE rows == payload(form[c].rows, <<submits + 1, 0>>)
             start == IF form[c].id = 0 THEN <<"checkKey", "create">> ELSE <<"checkDoc", "update">>
             items == IF rows = {} THEN <<>> ELSE <<"checkDoc", "delete", "insert">>
             todo == start \o items
  <2>1. /\ form[c] # NoForm /\ kind = "plan"
        /\ Submit(c, newRequest(form[c].id, form[c].key, rows, todo))
    BY <1>2 DEF submitPlan, SaveInv, ContentTypeOK
  <2> HIDE DEF rows
  <2>2. start \in Seq(Steps) /\ Len(start) = 2 /\ start[1] = (IF form[c].id = 0 THEN "checkKey" ELSE "checkDoc")
        /\ (form[c].id # 0 => start[2] = "update")
    BY StepsOf
  <2>3. items \in Seq(Steps) /\ (rows # {} => Len(items) = 3 /\ items[3] = "insert")
    BY StepsOf
  <2> HIDE DEF start, items
  <2>4. /\ todo \in Seq(Steps) /\ Len(todo) = 2 + Len(items) /\ Len(items) \in Nat
        /\ todo[1] = start[1] /\ todo[2] = start[2]
        /\ rows # {} => todo[5] = items[3]
    <3>1. Len(items) \in Nat
      BY <2>3
    <3>2. /\ todo \in Seq(Steps) /\ Len(todo) = Len(start) + Len(items)
          /\ \A i \in 1..Len(start) : todo[i] = start[i]
          /\ \A i \in 1..Len(items) : todo[Len(start) + i] = items[i]
      <4>1. start \in Seq(Steps)
        BY <2>2
      <4>2. items \in Seq(Steps)
        BY <2>3
      <4> QED BY ONLY <4>1, <4>2
    <3> HIDE DEF todo
    <3>3. todo[1] = start[1] /\ todo[2] = start[2]
      BY <2>2, <3>2
    <3>4. ASSUME rows # {} PROVE todo[5] = items[3]
      <4>1. Len(start) = 2 /\ 3 \in 1..Len(items)
        BY <2>2, <2>3, <3>4
      <4>2. todo[2 + 3] = items[3]
        BY <3>2, <4>1
      <4> QED BY <4>2
    <3> QED BY <2>2, <3>1, <3>2, <3>3, <3>4
  <2>5. 1 \in DOMAIN todo /\ 2 \in DOMAIN todo /\ (rows # {} => 5 \in DOMAIN todo)
    BY <2>3, <2>4
  <2> HIDE DEF todo
  <2>6. IF form[c].id = 0 THEN First(todo, "checkKey") ELSE First(todo, "checkDoc")
    BY <2>2, <2>4, <2>5 DEF First
  <2>7. /\ form[c].id # 0 => Has(todo, "update")
        /\ rows # {} => Has(todo, "insert")
    BY <2>2, <2>3, <2>4, <2>5 DEF Has
  <2>8. rows = payload(form[c].rows, <<submits + 1, 0>>)
    BY DEF rows
  <2> QED BY <2>1, <2>4, <2>6, <2>7, <2>8, SendFormDone
<1> QED BY <1>1, <1>2

LEMMA StartImportDone ==
    ASSUME SaveInv, DoneInv, NEW c \in Browsers, NEW mode \in {"IGNORE", "OVERWRITE"},
           processImport(c, mode)
    PROVE  DoneInv'
<1> DEFINE new == newRequest(0, 0, {}, <<"next">>)
           r == [new EXCEPT !.mode = mode, !.left = Batch]
<1>1. submits \in Nat /\ <<"next">> \in Seq(Steps) /\ First(<<"next">>, "next") /\ ~First(<<"next">>, "insert")
  BY StepsOf, HeadOf DEF SaveInv, ContentTypeOK, First
<1>2. /\ new \in Request /\ new.todo = <<"next">>
  BY <1>1 DEF newRequest, Request
<1> HIDE DEF new
<1>3. r \in Request /\ r.todo = <<"next">> /\ r.left = Batch /\ r.mode = mode
  BY <1>2, ContentAssumption DEF Request
<1>4. Submit(c, r)
  BY DEF processImport, new
<1> HIDE DEF r
<1>5. Len(Batch) \in Nat /\ 0 \in 0..Len(Batch) /\ Len(Batch) - 0 = Len(Batch)
      /\ \A j \in 1..Len(Batch) : 0 + j = j
  BY ContentAssumption
<1>6. BatchOK(r, docs)
  <2>1. /\ Len(r.left) = Len(Batch) - 0
        /\ \A j \in 1..Len(r.left) : r.left[j] = Batch[0 + j]
        /\ 1..0 = {}
    BY <1>3, <1>5
  <2> QED BY <1>1, <1>3, <1>5, <2>1 DEF BatchOK, SeenAll
<1> QED BY <1>3, <1>4, <1>6, SubmitDone DEF AloneOK

LEMMA FormsDone ==
    ASSUME SaveInv, DoneInv, UNCHANGED <<kind, docs, request, result>> PROVE DoneInv'
<1>1. DoneAsSaid'
  BY ResultsKept
<1> QED BY <1>1 DEF DoneInv, ResultsAfter

-----------------------------------------------------------------------------
(* The routes. *)

LEMMA QuietStep ==
    ASSUME NEW todo \in Seq(Steps), todo # <<>>, Head(todo) \notin {"create", "update", "insert"}, NEW k
    PROVE  /\ KeyWritten(k, Tail(todo)) <=> KeyWritten(k, todo)
           /\ RowsWritten(k, Tail(todo)) <=> RowsWritten(k, todo)
           /\ Has(Tail(todo), "insert") <=> Has(todo, "insert")
BY HasSteps DEF KeyWritten, RowsWritten

LEMMA GoOnFields ==
    ASSUME NEW r \in Request, Tail(r.todo) \in Seq(Steps)
    PROVE  LET s == GoOn(r)
           IN  /\ s \in Request /\ s.todo = Tail(r.todo) /\ s.id = r.id /\ s.key = r.key /\ s.rows = r.rows
               /\ s.seen = r.seen /\ s.mode = r.mode /\ s.left = r.left /\ s.save = r.save
               /\ s.alone = r.alone
<1> DEFINE s == GoOn(r)
<1>1. /\ s \in Request /\ s.todo = Tail(r.todo) /\ s.id = r.id /\ s.key = r.key /\ s.rows = r.rows
      /\ s.seen = r.seen /\ s.mode = r.mode /\ s.left = r.left /\ s.save = r.save
  BY DEF GoOn, Request
<1>2. s.alone = r.alone
  BY Zenon DEF GoOn, Request
<1> QED BY <1>1, <1>2

\* c is at a route: what it is about to do, and what it has done if it is alone.
LEMMA RouteFacts ==
    ASSUME SaveInv, DoneInv, NEW c \in Browsers, NEW what, At(c, what), what # "next"
    PROVE  LET r == request[c]
           IN  /\ r # NoRequest /\ r \in Request /\ r.todo # <<>> /\ First(r.todo, what)
               /\ r.todo \in Todos(kind, r.mode) /\ r.todo \in Seq(Steps) /\ Tail(r.todo) \in Seq(Steps)
               /\ kind \in {"song", "plan"} /\ (r.mode # "none" => kind = "song")
               /\ r.id \in DocIds \cup {0} /\ (Works(r.todo) => r.id \in DocIds)
               /\ First(Tail(r.todo), "insert") => First(r.todo, "delete")
               /\ r.alone => AloneOK(r, kind, docs)
<1> DEFINE r == request[c]
<1>1. /\ r # NoRequest /\ r \in Request /\ r.todo # <<>> /\ First(r.todo, what) /\ r.todo \in Seq(Steps)
      /\ r.id \in DocIds \cup {0} /\ RequestShape(r, kind, docs, submits)
  BY AtFirst
<1>2. /\ kind \in {"song", "plan"} /\ (r.alone => AloneOK(r, kind, docs))
      /\ Works(r.todo) => r.id \in DocIds
  BY <1>1, AloneFacts
<1> HIDE DEF r
<1>3. r.todo \in Todos(kind, r.mode) /\ (r.mode # "none" => kind = "song")
  BY <1>1 DEF RequestShape
<1>4. ~First(r.todo, "next")
  BY <1>1 DEF First
<1>5. Tail(r.todo) \in Seq(Steps) /\ (First(Tail(r.todo), "insert") => First(r.todo, "delete"))
  BY <1>1, <1>2, <1>3, <1>4, GoOnTodo
<1> QED BY <1>1, <1>2, <1>3, <1>5 DEF r

\* Only songs that are imported have these routes.
LEMMA ImportRoute ==
    ASSUME NEW todo \in ImportTodos, NEW what, First(todo, what), what # "next"
    PROVE  /\ what \in {"create", "delete", "insert"}
           /\ what \in {"create", "insert"} => Tail(todo) = <<"next">>
           /\ what = "delete" => Tail(todo) = <<"insert", "next">>
<1>1. \A t \in ImportTodos \ {<<"next">>} :
          /\ Head(t) \in {"create", "delete", "insert"}
          /\ Head(t) \in {"create", "insert"} => Tail(t) = <<"next">>
          /\ Head(t) = "delete" => Tail(t) = <<"insert", "next">>
  BY HeadOf, TailOf DEF ImportTodos
<1>2. todo # <<"next">>
  BY HeadOf DEF First
<1> QED BY <1>1, <1>2 DEF First

LEMMA CheckDone ==
    ASSUME SaveInv, DoneInv, NEW c \in Browsers, checkKey(c) \/ checkDoc(c) \/ lock(c) PROVE DoneInv'
<1> DEFINE r == request[c]
           next == GoOn(r)
<1>1. PICK what \in {"checkKey", "checkDoc", "lock"} :
          At(c, what) /\ (what = "checkDoc" => r.id \in Visible)
  BY DEF checkKey, checkDoc, lock
<1>2. Read(c, next)
  BY DEF checkKey, checkDoc, lock
<1>3. /\ r # NoRequest /\ r \in Request /\ r.todo # <<>> /\ First(r.todo, what)
      /\ r.todo \in Todos(kind, r.mode) /\ r.todo \in Seq(Steps) /\ Tail(r.todo) \in Seq(Steps)
      /\ kind \in {"song", "plan"} /\ (r.mode # "none" => kind = "song")
      /\ First(Tail(r.todo), "insert") => First(r.todo, "delete")
      /\ r.alone => AloneOK(r, kind, docs)
  BY <1>1, RouteFacts
<1> HIDE DEF r
<1>4. /\ next \in Request /\ next.todo = Tail(r.todo) /\ next.id = r.id /\ next.key = r.key
      /\ next.rows = r.rows /\ next.mode = r.mode /\ next.alone = r.alone
  BY <1>3, GoOnFields
<1> HIDE DEF next
<1>5. r.mode = "none"
  BY <1>3, ImportRoute DEF Todos
<1>6. ASSUME r.alone PROVE FormOK(next, kind, docs)
  <2>1. FormOK(r, kind, docs)
    BY <1>3, <1>5, <1>6 DEF AloneOK
  <2>2. /\ KeyWritten(kind, Tail(r.todo)) <=> KeyWritten(kind, r.todo)
        /\ RowsWritten(kind, Tail(r.todo)) <=> RowsWritten(kind, r.todo)
        /\ Has(Tail(r.todo), "insert") <=> Has(r.todo, "insert")
    BY <1>3, QuietStep DEF First
  <2>3. /\ First(r.todo, "checkKey") => First(Tail(r.todo), "create")
    BY <1>3, <1>5, FormTodo
  <2>4. ~Creates(Tail(r.todo)) => There(r.id, docs)
    <3>1. CASE what = "checkKey"
      BY <1>3, <2>3, <3>1 DEF Creates
    <3>2. CASE what = "checkDoc"
      BY <1>1, <3>2 DEF Visible, There, r
    <3>3. CASE what = "lock"
      BY <1>3, <2>1, <3>3 DEF FormOK, Creates, First
    <3> QED BY <3>1, <3>2, <3>3
  <2>5. ~First(Tail(r.todo), "insert")
    BY <1>3 DEF First
  <2> QED BY <1>3, <1>4, <2>1, <2>2, <2>4, <2>5 DEF FormOK, SeenAll
<1>7. next # NoRequest
  BY <1>4, ContentAssumption
<1> QED BY <1>2, <1>3, <1>4, <1>5, <1>6, <1>7, ReadDone DEF AloneOK, r

LEMMA DeleteDone == ASSUME SaveInv, DoneInv, NEW c \in Browsers, deleteMany(c) PROVE DoneInv'
<1> DEFINE r == request[c]
           s == GoOn(r)
           next == [s EXCEPT !.seen = docs[r.id].rows]
<1>1. At(c, "delete") /\ Read(c, next)
  BY DEF deleteMany
<1>2. /\ r # NoRequest /\ r \in Request /\ r.todo # <<>> /\ First(r.todo, "delete")
      /\ r.todo \in Todos(kind, r.mode) /\ r.todo \in Seq(Steps) /\ Tail(r.todo) \in Seq(Steps)
      /\ kind \in {"song", "plan"} /\ (r.mode # "none" => kind = "song")
      /\ r.id \in DocIds
      /\ r.alone => AloneOK(r, kind, docs)
  BY <1>1, RouteFacts DEF Works
<1> HIDE DEF r
<1>3. /\ s \in Request /\ s.todo = Tail(r.todo) /\ s.id = r.id /\ s.key = r.key
      /\ s.rows = r.rows /\ s.mode = r.mode /\ s.left = r.left /\ s.save = r.save /\ s.alone = r.alone
  BY <1>2, GoOnFields
<1> HIDE DEF s
<1>4. docs[r.id].rows \subseteq SavedRow
  <2>1. RequestShape(r, kind, docs, submits)
    BY <1>2, AloneFacts DEF r
  <2>2. docs[r.id] # NoDoc
    BY <1>2, <2>1, ContentAssumption DEF RequestShape
  <2> QED BY <1>2, <2>2 DEF SaveInv, ContentTypeOK, Document
<1>5. /\ next \in Request /\ next.todo = Tail(r.todo) /\ next.id = r.id /\ next.key = r.key
      /\ next.rows = r.rows /\ next.mode = r.mode /\ next.left = r.left /\ next.save = r.save
      /\ next.seen = docs[r.id].rows
  BY <1>3, <1>4 DEF Request
<1>6. next.alone = r.alone
  BY <1>3, Zenon DEF Request
<1> HIDE DEF next
<1>7. SeenAll(next, docs)
  BY <1>5 DEF SeenAll
<1>8. ASSUME r.alone, r.mode = "none" PROVE FormOK(next, kind, docs)
  <2>1. FormOK(r, kind, docs)
    BY <1>2, <1>8 DEF AloneOK
  <2>2. /\ KeyWritten(kind, Tail(r.todo)) <=> KeyWritten(kind, r.todo)
        /\ RowsWritten(kind, Tail(r.todo)) <=> RowsWritten(kind, r.todo)
        /\ Has(Tail(r.todo), "insert") <=> Has(r.todo, "insert")
    BY <1>2, QuietStep DEF First
  <2>3. There(r.id, docs)
    BY <1>2, <2>1 DEF FormOK, Creates, First
  <2> QED BY <1>2, <1>5, <1>7, <2>1, <2>2, <2>3 DEF FormOK
<1>9. ASSUME r.alone, r.mode # "none" PROVE BatchOK(next, docs)
  <2>1. BatchOK(r, docs)
    BY <1>2, <1>9 DEF AloneOK
  <2>2. Tail(r.todo) = <<"insert", "next">>
    BY <1>2, <1>9, ImportRoute DEF Todos
  <2>3. /\ ~First(r.todo, "next") /\ ~First(next.todo, "next")
        /\ ~Creates(r.todo) /\ ~Creates(next.todo)
    BY <1>2, <1>5, <2>2, HeadOf DEF First, Creates
  <2> QED BY <1>5, <1>7, <2>1, <2>3 DEF BatchOK
<1>10. next # NoRequest
  BY <1>5, ContentAssumption
<1> QED BY <1>1, <1>2, <1>5, <1>6, <1>8, <1>9, <1>10, ReadDone DEF AloneOK, r

LEMMA CreateDone == ASSUME SaveInv, DoneInv, NEW c \in Browsers, create(c) PROVE DoneInv'
<1> DEFINE r == request[c]
           rows == IF kind = "song" THEN r.rows ELSE {}
           doc == [key |-> r.key, deleted |-> FALSE, rows |-> rows]
           s == GoOn(r)
<1>1. PICK d \in DocIds : /\ docs[d] = NoDoc /\ docs' = [docs EXCEPT ![d] = doc]
                          /\ Write(c, d, [s EXCEPT !.id = d])
  BY DEF create
<1> DEFINE next == [s EXCEPT !.id = d]
<1>2. /\ r # NoRequest /\ r \in Request /\ r.todo # <<>> /\ First(r.todo, "create")
      /\ r.todo \in Todos(kind, r.mode) /\ r.todo \in Seq(Steps) /\ Tail(r.todo) \in Seq(Steps)
      /\ kind \in {"song", "plan"} /\ (r.mode # "none" => kind = "song")
      /\ First(Tail(r.todo), "insert") => First(r.todo, "delete")
      /\ r.alone => AloneOK(r, kind, docs)
  BY RouteFacts DEF create
<1>3. /\ request' = Others(c, d, next) /\ result' = Overwritten(c, d) /\ kind' = kind
  BY <1>1 DEF Write
<1> HIDE DEF r
<1>4. /\ s \in Request /\ s.todo = Tail(r.todo) /\ s.key = r.key /\ s.seen = r.seen
      /\ s.rows = r.rows /\ s.mode = r.mode /\ s.left = r.left /\ s.save = r.save /\ s.alone = r.alone
  BY <1>2, GoOnFields
<1> HIDE DEF s
<1>5. /\ next \in Request /\ next.todo = Tail(r.todo) /\ next.id = d /\ next.key = r.key
      /\ next.rows = r.rows /\ next.mode = r.mode /\ next.left = r.left /\ next.save = r.save
  BY <1>4 DEF Request
<1>6. next.alone = r.alone
  BY <1>4, Zenon DEF Request
<1> HIDE DEF next
<1>7. doc \in Document /\ doc.key = r.key /\ ~doc.deleted /\ doc.rows = rows
  <2>1. RequestShape(request[c], kind, docs, submits) /\ request[c].rows \subseteq SavedRow
    BY AtFirst DEF create
  <2>2. r.key \in Keys
    BY <1>2, <2>1 DEF RequestShape, First, r
  <2>3. rows \subseteq SavedRow
    BY <2>1 DEF r
  <2> HIDE DEF rows
  <2>4. doc \in Document /\ doc.key = r.key /\ doc.rows = rows
    BY <2>2, <2>3 DEF Document
  <2>5. ~doc.deleted
    OBVIOUS
  <2> QED BY <2>4, <2>5
<1> HIDE DEF doc
<1>8. /\ docs'[d] = doc /\ doc # NoDoc
      /\ \A e \in DocIds \ {d} : docs'[e] = docs[e]
  BY <1>1, <1>7, ContentAssumption DEF SaveInv, ContentTypeOK
<1>9. There(d, docs') /\ \A e : There(e, docs) => There(e, docs') /\ docs'[e] = docs[e]
  BY <1>1, <1>7, <1>8 DEF There
<1>10. SeenAll(next, docs')
  BY <1>2, <1>5 DEF SeenAll, First
<1>11. ASSUME r.alone, r.mode = "none" PROVE FormOK(next, kind, docs')
  <2>1. FormOK(r, kind, docs)
    BY <1>2, <1>11 DEF AloneOK
  <2>2. kind = "plan" /\ r.rows # {} => Has(Tail(r.todo), "insert")
    BY <1>2, <2>1, HasSteps DEF FormOK, First
  <2>3. kind = "song" => taken(kind, next.rows) = doc.rows
    BY <1>5, <1>7 DEF taken
  <2>4. next.id # 0 /\ RowsWritten(kind, next.todo) /\ next.rows # {}
           => docs'[next.id].rows = taken(kind, next.rows)
    BY <1>2, <1>5, <1>8, <2>2, <2>3 DEF RowsWritten
  <2> QED BY <1>2, <1>5, <1>7, <1>8, <1>9, <1>10, <2>2, <2>4 DEF FormOK
<1>12. ASSUME r.alone, r.mode # "none" PROVE BatchOK(next, docs')
  <2>1. Tail(r.todo) = <<"next">> /\ kind = "song" /\ ~First(r.todo, "next") /\ First(<<"next">>, "next")
    BY <1>2, <1>12, ImportRoute, HeadOf DEF Todos, First
  <2>2. BatchOK(r, docs)
    BY <1>2, <1>12 DEF AloneOK
  <2>3. PICK n \in 0..Len(Batch) :
            /\ Len(r.left) = Len(Batch) - n
            /\ \A j \in 1..Len(r.left) : r.left[j] = Batch[n + j]
            /\ \A i \in 1..n : i < n => Imported(i, r.mode, docs)
            /\ r.key = Batch[n].key
            /\ r.rows = payload(Batch[n].rows, <<r.save, Len(r.left)>>)
    BY <2>1, <2>2 DEF BatchOK
  <2>4. Texts(doc.rows) = Texts(payload(Batch[n].rows, Unsaved))
    BY <1>7, <2>1, <2>3, TextsOfPayload
  <2>5. Imported(n, r.mode, docs')
    BY <1>7, <1>8, <1>9, <2>3, <2>4 DEF Imported
  <2>6. \A i \in 1..n : Imported(i, r.mode, docs')
    <3> SUFFICES ASSUME NEW i \in 1..n, i # n PROVE Imported(i, r.mode, docs')
      BY <2>5
    <3>1. i < n
      OBVIOUS
    <3>2. Imported(i, r.mode, docs)
      BY <2>3, <3>1
    <3> QED BY <1>9, <3>2 DEF Imported
  <2> QED BY <1>5, <1>10, <2>1, <2>3, <2>6 DEF BatchOK
<1>13. next # NoRequest
  BY <1>5, ContentAssumption
<1>14. next.alone => AloneOK(next, kind, docs')
  BY <1>5, <1>6, <1>11, <1>12 DEF AloneOK
<1> QED BY <1>2, <1>3, <1>5, <1>8, <1>13, <1>14, WriteDone DEF r

LEMMA UpdateDone == ASSUME SaveInv, DoneInv, NEW c \in Browsers, update(c) PROVE DoneInv'
<1> DEFINE r == request[c]
           d == r.id
           doc == [docs[d] EXCEPT !.key = r.key]
           next == GoOn(r)
<1>1. docs' = [docs EXCEPT ![d].key = r.key] /\ Write(c, d, next)
  BY DEF update
<1>2. /\ r # NoRequest /\ r \in Request /\ r.todo # <<>> /\ First(r.todo, "update")
      /\ r.todo \in Todos(kind, r.mode) /\ r.todo \in Seq(Steps) /\ Tail(r.todo) \in Seq(Steps)
      /\ kind \in {"song", "plan"} /\ (r.mode # "none" => kind = "song")
      /\ First(Tail(r.todo), "insert") => First(r.todo, "delete")
      /\ d \in DocIds
      /\ r.alone => AloneOK(r, kind, docs)
  BY RouteFacts DEF update, Works
<1>3. /\ request' = Others(c, d, next) /\ result' = Overwritten(c, d) /\ kind' = kind
  BY <1>1 DEF Write
<1>4. docs[d] # NoDoc
  <2>1. RequestShape(r, kind, docs, submits)
    BY <1>2, AloneFacts
  <2> QED BY <1>2, <2>1, ContentAssumption DEF RequestShape
<1> HIDE DEF r
<1>5. /\ next \in Request /\ next.todo = Tail(r.todo) /\ next.id = r.id /\ next.key = r.key
      /\ next.rows = r.rows /\ next.mode = r.mode /\ next.alone = r.alone
  BY <1>2, GoOnFields
<1> HIDE DEF next
<1>6. docs[d] \in Document
  BY <1>2, <1>4 DEF SaveInv, ContentTypeOK
<1>7. /\ doc.key = r.key /\ doc.rows = docs[d].rows
  BY <1>6 DEF Document
<1>8. doc.deleted = docs[d].deleted
  BY <1>6, Zenon DEF Document
<1>9. docs' = [docs EXCEPT ![d] = doc]
  BY <1>1
<1>10. doc # NoDoc
  <2>1. RequestShape(r, kind, docs, submits)
    BY <1>2, AloneFacts DEF r
  <2>2. r.key \in Keys
    BY <1>2, <2>1 DEF RequestShape, First
  <2>3. doc \in Document
    BY <1>6, <2>2 DEF Document
  <2> QED BY <2>3, ContentAssumption
<1> HIDE DEF doc
<1>11. docs'[d] = doc /\ \A e \in DocIds \ {d} : docs'[e] = docs[e]
  BY <1>2, <1>9 DEF SaveInv, ContentTypeOK
<1>12. There(d, docs) => There(d, docs')
  BY <1>8, <1>10, <1>11 DEF There
<1>13. r.mode = "none"
  BY <1>2, ImportRoute DEF Todos
<1>14. ASSUME r.alone PROVE FormOK(next, kind, docs')
  <2>1. FormOK(r, kind, docs)
    BY <1>2, <1>13, <1>14 DEF AloneOK
  <2>2. kind = "plan"
    BY <1>2, <1>13, FormTodo
  <2>3. There(d, docs)
    BY <1>2, <2>1 DEF FormOK, Creates, First
  <2>4. Has(Tail(r.todo), "insert") <=> Has(r.todo, "insert")
    BY <1>2, HasSteps DEF First
  <2>5. ~First(Tail(r.todo), "insert")
    BY <1>2 DEF First
  <2> QED BY <1>2, <1>5, <1>7, <1>11, <1>12, <2>1, <2>2, <2>3, <2>4, <2>5
          DEF FormOK, RowsWritten, SeenAll
<1>15. next # NoRequest
  BY <1>5, ContentAssumption
<1>16. next.alone => AloneOK(next, kind, docs')
  BY <1>5, <1>13, <1>14 DEF AloneOK
<1> QED BY <1>2, <1>3, <1>5, <1>11, <1>15, <1>16, WriteDone DEF r

LEMMA InsertDone == ASSUME SaveInv, DoneInv, NEW c \in Browsers, createMany(c) PROVE DoneInv'
<1> DEFINE r == request[c]
           d == r.id
           kept == docs[d].rows \ r.seen
           key == IF kind = "song" /\ r.mode = "none" THEN r.key ELSE docs[d].key
           rows == taken(kind, r.rows)
           doc == [docs[d] EXCEPT !.rows = kept \cup rows, !.key = key]
           next == GoOn(r)
<1>1. /\ docs' = [docs EXCEPT ![d].rows = kept \cup rows, ![d].key = key]
      /\ Write(c, d, next)
  BY DEF createMany
<1>2. /\ r # NoRequest /\ r \in Request /\ r.todo # <<>> /\ First(r.todo, "insert")
      /\ r.todo \in Todos(kind, r.mode) /\ r.todo \in Seq(Steps) /\ Tail(r.todo) \in Seq(Steps)
      /\ kind \in {"song", "plan"} /\ (r.mode # "none" => kind = "song")
      /\ First(Tail(r.todo), "insert") => First(r.todo, "delete")
      /\ d \in DocIds
      /\ r.alone => AloneOK(r, kind, docs)
  BY RouteFacts DEF createMany, Works
<1>3. /\ request' = Others(c, d, next) /\ result' = Overwritten(c, d) /\ kind' = kind
  BY <1>1 DEF Write
<1>4. /\ docs[d] # NoDoc /\ r.key \in Keys /\ r.rows \subseteq SavedRow
  <2>1. RequestShape(r, kind, docs, submits) /\ r.rows \subseteq SavedRow
    BY AtFirst DEF createMany
  <2>2. r.key \in Keys
    BY <1>2, <2>1 DEF RequestShape, First
  <2> QED BY <1>2, <2>1, <2>2, ContentAssumption DEF RequestShape
<1> HIDE DEF r
<1>5. /\ next \in Request /\ next.todo = Tail(r.todo) /\ next.id = r.id /\ next.key = r.key
      /\ next.rows = r.rows /\ next.mode = r.mode /\ next.alone = r.alone
      /\ next.left = r.left /\ next.save = r.save
  BY <1>2, GoOnFields
<1> HIDE DEF next
<1>6. docs[d] \in Document /\ docs[d].key \in Keys /\ docs[d].rows \subseteq SavedRow
  <2>1. docs[d] \in Document
    BY <1>2, <1>4 DEF SaveInv, ContentTypeOK
  <2> QED BY <2>1 DEF Document
<1>7. key \in Keys /\ kept \cup rows \subseteq SavedRow
  BY <1>4, <1>6, TakenOK
<1> HIDE DEF key, kept, rows
<1>8. doc \in Document /\ doc.key = key /\ doc.rows = kept \cup rows
  BY <1>6, <1>7 DEF Document
<1>9. doc.deleted = docs[d].deleted
  BY <1>6, Zenon DEF Document
<1>10. docs' = [docs EXCEPT ![d] = doc]
  BY <1>1, <1>2, <1>6 DEF SaveInv, ContentTypeOK, Document
<1> HIDE DEF doc
<1>11. docs'[d] = doc /\ doc # NoDoc /\ \A e \in DocIds \ {d} : docs'[e] = docs[e]
  BY <1>2, <1>8, <1>10, ContentAssumption DEF SaveInv, ContentTypeOK
<1>12. There(d, docs) => There(d, docs')
  BY <1>9, <1>11 DEF There
<1>13. docs[d].rows \subseteq r.seen => doc.rows = taken(kind, next.rows)
  BY <1>5, <1>8 DEF kept, rows
<1>14. SeenAll(next, docs')
  BY <1>2, <1>5 DEF SeenAll, First
<1>15. ASSUME r.alone, r.mode = "none" PROVE FormOK(next, kind, docs')
  <2>1. FormOK(r, kind, docs)
    BY <1>2, <1>15 DEF AloneOK
  <2>2. There(d, docs)
    BY <1>2, <2>1 DEF FormOK, Creates, First
  <2>3. docs[d].rows \subseteq r.seen
    BY <1>2, <2>1 DEF FormOK, SeenAll
  <2>4. Tail(r.todo) = <<>>
    BY <1>2, <1>15, FormTodo
  <2>5. doc.key = r.key
    <3>1. CASE kind = "song"
      BY <1>8, <1>15, <3>1 DEF key
    <3>2. CASE kind # "song"
      <4>1. KeyWritten(kind, r.todo)
        BY <1>2, <2>4, <3>2, HasSteps DEF KeyWritten, First
      <4>2. d # 0
        BY <1>2, ContentAssumption
      <4> QED BY <1>8, <2>1, <3>2, <4>1, <4>2 DEF FormOK, key
    <3> QED BY <3>1, <3>2
  <2> QED BY <1>2, <1>5, <1>11, <1>12, <1>13, <1>14, <2>2, <2>3, <2>4, <2>5 DEF FormOK
<1>16. ASSUME r.alone, r.mode # "none" PROVE BatchOK(next, docs')
  <2>1. Tail(r.todo) = <<"next">> /\ ~First(r.todo, "next") /\ First(<<"next">>, "next")
    BY <1>2, <1>16, ImportRoute, HeadOf DEF Todos, First
  <2>2. BatchOK(r, docs) /\ ~Creates(r.todo)
    BY <1>2, <1>16 DEF AloneOK, Creates, First
  <2>3. PICK n \in 0..Len(Batch) :
            /\ Len(r.left) = Len(Batch) - n
            /\ \A j \in 1..Len(r.left) : r.left[j] = Batch[n + j]
            /\ \A i \in 1..n : i < n => Imported(i, r.mode, docs)
            /\ n > 0 /\ r.key = Batch[n].key
            /\ r.rows = payload(Batch[n].rows, <<r.save, Len(r.left)>>)
            /\ There(d, docs) /\ docs[d].key = r.key
            /\ SeenAll(r, docs)
    BY <2>1, <2>2 DEF BatchOK
  <2>4. doc.rows = r.rows /\ doc.key = r.key
    BY <1>2, <1>5, <1>8, <1>13, <1>16, <2>3 DEF SeenAll, key, taken
  <2>5. Texts(doc.rows) = Texts(payload(Batch[n].rows, Unsaved))
    BY <2>3, <2>4, TextsOfPayload
  <2>6. Imported(n, r.mode, docs')
    BY <1>2, <1>11, <1>12, <2>3, <2>4, <2>5 DEF Imported
  <2>7. Len(Batch) \in Nat /\ n \in DOMAIN Batch
    BY <2>3, ContentAssumption
  <2>8. \A i \in 1..n : Imported(i, r.mode, docs')
    <3> SUFFICES ASSUME NEW i \in 1..n, i # n PROVE Imported(i, r.mode, docs')
      BY <2>6
    <3>1. i < n
      BY <2>7
    <3>2. PICK e \in DocIds :
              /\ There(e, docs)
              /\ docs[e].key = Batch[i].key
              /\ r.mode = "OVERWRITE" /\ LastOfItsKey(i)
                   => Texts(docs[e].rows) = Texts(payload(Batch[i].rows, Unsaved))
      BY <2>3, <3>1 DEF Imported
    <3>3. CASE e # d
      BY <1>11, <3>2, <3>3 DEF Imported, There
    <3>4. CASE e = d
      <4>1. ~LastOfItsKey(i)
        BY <2>3, <2>7, <3>1, <3>2, <3>4 DEF LastOfItsKey
      <4>2. There(e, docs') /\ docs'[e].key = Batch[i].key
        BY <1>11, <1>12, <2>3, <2>4, <3>2, <3>4
      <4> QED BY <4>1, <4>2 DEF Imported
    <3> QED BY <3>3, <3>4
  <2> QED BY <1>5, <1>14, <2>1, <2>3, <2>8 DEF BatchOK
<1>17. next # NoRequest
  BY <1>5, ContentAssumption
<1>18. next.alone => AloneOK(next, kind, docs')
  BY <1>5, <1>15, <1>16 DEF AloneOK
<1> QED BY <1>2, <1>3, <1>5, <1>11, <1>17, <1>18, WriteDone DEF r

LEMMA NextSongDone == ASSUME SaveInv, DoneInv, NEW c \in Browsers, importNext(c) PROVE DoneInv'
<1> DEFINE r == request[c]
           song == Head(r.left)
           rest == [r EXCEPT !.left = Tail(@)]
           rows == payload(song.rows, <<rest.save, Len(rest.left)>>)
           Start(d, todo) ==
               [rest EXCEPT !.id = d, !.key = song.key, !.todo = todo, !.rows = rows]
           found == existing(song)
<1>1. At(c, "next") /\ r.left # <<>>
  BY DEF importNext
<1>2. /\ r # NoRequest /\ r \in Request /\ r.left \in Seq(Song)
      /\ kind = "song" /\ r.mode # "none" /\ r.todo = <<"next">>
      /\ r.alone => AloneOK(r, kind, docs)
  BY <1>1, AtFirst, NextOfImport, AloneFacts
<1>3. /\ First(<<"next">>, "next") /\ ~First(<<"next">>, "insert")
      /\ First(<<"create", "next">>, "create") /\ First(<<"delete", "insert", "next">>, "delete")
  BY HeadOf DEF First
<1>4. /\ \/ Read(c, Start(0, <<"create", "next">>))
         \/ found # {} /\ r.mode = "IGNORE" /\ Read(c, rest)
         \/ r.mode = "OVERWRITE" /\ \E d \in found : Read(c, Start(d, <<"delete", "insert", "next">>))
  <2> HIDE DEF Start, found
  <2> QED BY DEF importNext, Start, found
<1> HIDE DEF r
<1>5. song \in Song /\ Len(r.left) \in Nat /\ song = r.left[1]
  <2>1. r.left # <<>> /\ r.left \in Seq(Song)
    BY <1>1, <1>2 DEF r
  <2> QED BY <2>1
<1>6. song.key \in Keys /\ song.rows \in Seq(SavedRow)
  BY <1>5 DEF Song
<1>7. /\ Tail(r.left) \in Seq(Song) /\ Len(Tail(r.left)) = Len(r.left) - 1 /\ Len(Tail(r.left)) \in Nat
      /\ \A j \in 1..Len(Tail(r.left)) : Tail(r.left)[j] = r.left[j + 1]
  <2>1. r.left # <<>> /\ r.left \in Seq(Song)
    BY <1>1, <1>2 DEF r
  <2> QED BY <2>1
<1>8. /\ rest \in Request /\ rest.left = Tail(r.left) /\ rest.save = r.save /\ rest.mode = r.mode
      /\ rest.todo = r.todo /\ rest.id = r.id /\ rest.rows = r.rows /\ rest.key = r.key /\ r.save \in Nat
  BY <1>2, <1>7 DEF Request
<1>9. rest.alone = r.alone
  BY <1>2, Zenon DEF Request
<1> HIDE DEF song, rest
<1>10. rows \subseteq SavedRow
  <2>1. <<rest.save, Len(rest.left)>> \in Nat \X Nat
    BY <1>7, <1>8
  <2> QED BY <1>6, <2>1, PayloadOK
<1>11. rows = payload(song.rows, <<r.save, Len(Tail(r.left))>>)
  BY <1>8
<1> HIDE DEF rows
<1>12. ASSUME r.alone
       PROVE  \E n \in 1..Len(Batch) :
                 /\ Len(Tail(r.left)) = Len(Batch) - n
                 /\ \A j \in 1..Len(Tail(r.left)) : Tail(r.left)[j] = Batch[n + j]
                 /\ song = Batch[n]
                 /\ \A i \in 1..n : i < n => Imported(i, r.mode, docs)
  <2>1. BatchOK(r, docs)
    BY <1>2, <1>12 DEF AloneOK
  <2>2. PICK n \in 0..Len(Batch) :
            /\ Len(r.left) = Len(Batch) - n
            /\ \A j \in 1..Len(r.left) : r.left[j] = Batch[n + j]
            /\ \A i \in 1..n : Imported(i, r.mode, docs)
    BY <1>2, <1>3, <2>1 DEF BatchOK
  <2>3. Len(Batch) \in Nat
    BY ContentAssumption
  <2>4. n + 1 \in 1..Len(Batch) /\ Len(Tail(r.left)) = Len(Batch) - (n + 1)
    BY <1>5, <1>7, <2>2, <2>3
  <2>5. \A j \in 1..Len(Tail(r.left)) : Tail(r.left)[j] = Batch[(n + 1) + j]
    <3> SUFFICES ASSUME NEW j \in 1..Len(Tail(r.left)) PROVE Tail(r.left)[j] = Batch[(n + 1) + j]
      OBVIOUS
    <3>1. j + 1 \in 1..Len(r.left) /\ n + (j + 1) = (n + 1) + j
      BY <1>5, <1>7, <2>3
    <3> QED BY <1>7, <2>2, <3>1
  <2>6. 1 \in 1..Len(r.left)
    BY <1>5, <1>7
  <2>7. song = Batch[n + 1]
    BY <1>5, <2>2, <2>6
  <2>8. \A i \in 1..(n + 1) : i < n + 1 => Imported(i, r.mode, docs)
    BY <2>2, <2>3
  <2> QED BY <2>4, <2>5, <2>7, <2>8
<1>13. CASE found # {} /\ r.mode = "IGNORE" /\ Read(c, rest)
  <2>1. ASSUME r.alone PROVE BatchOK(rest, docs)
    <3>1. PICK n \in 1..Len(Batch) :
              /\ Len(Tail(r.left)) = Len(Batch) - n
              /\ \A j \in 1..Len(Tail(r.left)) : Tail(r.left)[j] = Batch[n + j]
              /\ song = Batch[n]
              /\ \A i \in 1..n : i < n => Imported(i, r.mode, docs)
      BY <1>12, <2>1
    <3>2. Imported(n, r.mode, docs)
      BY <1>13, <3>1 DEF Imported, existing, Visible, There
    <3>3. Len(Batch) \in Nat
      BY ContentAssumption
    <3>4. \A i \in 1..n : Imported(i, r.mode, docs)
      BY <3>1, <3>2, <3>3
    <3>5. n \in 0..Len(Batch)
      BY <3>3
    <3> QED BY <1>2, <1>3, <1>8, <3>1, <3>4, <3>5 DEF BatchOK, SeenAll
  <2>2. rest # NoRequest
    BY <1>8, ContentAssumption
  <2> QED BY <1>2, <1>8, <1>9, <1>13, <2>1, <2>2, ReadDone DEF AloneOK, r
<1>14. ASSUME NEW d \in DocIds \cup {0}, NEW todo \in {<<"create", "next">>, <<"delete", "insert", "next">>},
              Read(c, Start(d, todo)), todo = <<"delete", "insert", "next">> => d \in found
       PROVE  DoneInv'
  <2> DEFINE next == Start(d, todo)
  <2>1. todo \in Seq(Steps)
    BY StepsOf
  <2>2. /\ next \in Request /\ next.left = Tail(r.left) /\ next.save = r.save
        /\ next.mode = r.mode /\ next.key = song.key /\ next.todo = todo /\ next.id = d /\ next.rows = rows
    BY <1>6, <1>7, <1>8, <1>10, <2>1 DEF Request
  <2>3. next.alone = r.alone
    BY <1>8, <1>9, Zenon DEF Request
  <2>4. Read(c, next)
    BY <1>14
  <2> HIDE DEF next
  <2>5. /\ ~First(todo, "next") /\ ~First(todo, "insert")
        /\ ~Creates(todo) => todo = <<"delete", "insert", "next">>
    BY <1>3 DEF First, Creates
  <2>6. ASSUME r.alone PROVE BatchOK(next, docs)
    <3>1. PICK n \in 1..Len(Batch) :
              /\ Len(Tail(r.left)) = Len(Batch) - n
              /\ \A j \in 1..Len(Tail(r.left)) : Tail(r.left)[j] = Batch[n + j]
              /\ song = Batch[n]
              /\ \A i \in 1..n : i < n => Imported(i, r.mode, docs)
      BY <1>12, <2>6
    <3>2. n \in 0..Len(Batch) /\ n > 0
      BY ContentAssumption
    <3>3. ~Creates(todo) => There(d, docs) /\ docs[d].key = song.key
      BY <1>14, <2>5 DEF existing, Visible, There
    <3> QED BY <1>11, <2>2, <2>5, <3>1, <3>2, <3>3 DEF BatchOK, SeenAll
  <2>7. next # NoRequest
    BY <2>2, ContentAssumption
  <2> QED BY <1>2, <2>2, <2>3, <2>4, <2>6, <2>7, ReadDone DEF AloneOK, r
<1>15. \A d \in found : d \in DocIds
  BY DEF existing, Visible
<1> HIDE DEF Start, found
<1> QED BY <1>4, <1>13, <1>14, <1>15

LEMMA SucceedDone == ASSUME SaveInv, DoneInv, NEW c \in Browsers, succeed(c) PROVE DoneInv'
<1> DEFINE r == request[c]
           new == [id |-> r.id, key |-> r.key, rows |-> r.rows, mode |-> r.mode]
<1>1. /\ r # NoRequest /\ (r.todo = <<>> \/ (At(c, "next") /\ r.left = <<>>))
      /\ result' = [result EXCEPT ![c] = IF r.alone THEN new ELSE NoResult]
      /\ request' = [request EXCEPT ![c] = NoRequest] /\ UNCHANGED <<kind, docs>>
  BY DEF succeed
<1>2. /\ r \in Request /\ kind \in {"song", "plan"} /\ RequestShape(r, kind, docs, submits)
      /\ r.alone => AloneOK(r, kind, docs)
  BY <1>1, AloneFacts
<1>3. /\ request'[c] = NoRequest /\ result'[c] = (IF r.alone THEN new ELSE NoResult)
      /\ \A b \in Browsers \ {c} : request'[b] = request[b] /\ result'[b] = result[b]
  BY <1>1 DEF SaveInv, ContentTypeOK
<1>4. new.id = r.id /\ new.key = r.key /\ new.rows = r.rows /\ new.mode = r.mode
  OBVIOUS
<1> HIDE DEF r, new
<1>5. ASSUME r.alone, r.mode = "none"
      PROVE  /\ r.id \in Visible
             /\ docs[r.id].key = r.key
             /\ r.rows # {} => Shown(docs[r.id].rows) = Shown(r.rows)
  <2>1. FormOK(r, kind, docs)
    BY <1>2, <1>5 DEF AloneOK
  <2>2. r.todo = <<>>
    BY <1>1, <1>5, NextOfImport DEF r
  <2>3. ~Creates(<<>>) /\ ~First(<<>>, "checkDoc") /\ \A what : ~Has(<<>>, what)
    BY DEF Creates, First, Has
  <2>4. There(r.id, docs) /\ r.id # 0
    BY <2>1, <2>2, <2>3, ContentAssumption DEF FormOK, There
  <2>5. Shown(taken(kind, r.rows)) = Shown(r.rows)
    <3>1. r.rows \subseteq SavedRow
      BY <1>2 DEF Request
    <3> QED BY <3>1, TakenOK
  <2> QED BY <2>1, <2>2, <2>3, <2>4, <2>5 DEF FormOK, KeyWritten, RowsWritten, There, Visible
<1>6. ASSUME r.alone, r.mode # "none", NEW i \in 1..Len(Batch) PROVE Imported(i, r.mode, docs)
  <2>1. BatchOK(r, docs)
    BY <1>2, <1>6 DEF AloneOK
  <2>2. r.todo # <<>>
    BY <1>2, <1>6, ImportSteps DEF RequestShape, Todos
  <2>3. r.left = <<>> /\ First(r.todo, "next")
    BY <1>1, <2>2 DEF At, First, r
  <2>4. Len(r.left) = 0 /\ Len(Batch) \in Nat
    BY <2>3, ContentAssumption
  <2>5. \A n \in 0..Len(Batch) : Len(r.left) = Len(Batch) - n => n = Len(Batch)
    BY <2>4
  <2> QED BY <2>1, <2>3, <2>5 DEF BatchOK
<1>7. SavedAsShown'
  <2> SUFFICES ASSUME NEW b \in Browsers, result'[b] # NoResult, result'[b].mode = "none"
               PROVE  /\ result'[b].id \in Visible'
                      /\ docs'[result'[b].id].key = result'[b].key
                      /\ result'[b].rows # {} => Shown(docs'[result'[b].id].rows) = Shown(result'[b].rows)
    BY DEF SavedAsShown, Shown
  <2>1. Visible' = Visible
    BY <1>1 DEF Visible
  <2>2. CASE b = c
    BY <1>1, <1>3, <1>4, <1>5, <2>1, <2>2
  <2>3. CASE b # c
    BY <1>1, <1>3, <2>1, <2>3 DEF DoneInv, DoneAsSaid, SavedAsShown
  <2> QED BY <2>2, <2>3
<1>8. ImportDone'
  <2> SUFFICES ASSUME NEW b \in Browsers, result'[b] # NoResult, result'[b].mode # "none",
                      NEW i \in 1..Len(Batch)
               PROVE  \E d \in Visible' :
                          /\ docs'[d].key = Batch[i].key
                          /\ result'[b].mode = "OVERWRITE" /\ LastOfItsKey(i)
                               => Texts(docs'[d].rows) = Texts(payload(Batch[i].rows, Unsaved))
    BY DEF ImportDone, Texts, payload, row, LastOfItsKey, Unsaved
  <2>1. Visible' = Visible /\ docs' = docs
    BY <1>1 DEF Visible
  <2>2. CASE b = c
    BY <1>3, <1>4, <1>6, <2>1, <2>2 DEF Imported, There, Visible
  <2>3. CASE b # c
    BY <1>3, <2>1, <2>3 DEF DoneInv, DoneAsSaid, ImportDone
  <2> QED BY <2>2, <2>3
<1>9. ResultsAfter'
  BY <1>3 DEF DoneInv, ResultsAfter
<1>10. ASSUME NEW b \in Browsers, request'[b] # NoRequest, request'[b].alone
       PROVE  AloneOK(request'[b], kind', docs')
  BY <1>1, <1>3, <1>10 DEF DoneInv
<1> QED BY <1>7, <1>8, <1>9, <1>10 DEF DoneInv, DoneAsSaid

LEMMA FailDone == ASSUME SaveInv, DoneInv, NEW c \in Browsers, fail(c) PROVE DoneInv'
<1>1. /\ request' = [request EXCEPT ![c] = NoRequest] /\ UNCHANGED <<kind, docs, result>>
  BY DEF fail
<1>2. \A b \in Browsers : request'[b] = IF b = c THEN NoRequest ELSE request[b]
  BY <1>1 DEF SaveInv, ContentTypeOK
<1>3. DoneAsSaid'
  BY <1>1, ResultsKept
<1> QED BY <1>1, <1>2, <1>3 DEF DoneInv, ResultsAfter

LEMMA DeleteDocDone == ASSUME SaveInv, DoneInv, NEW d \in DocIds, deleteDoc(d) PROVE DoneInv'
<1>1. /\ request' = Others("nobody", d, NoRequest) /\ result' = Overwritten("nobody", d) /\ kind' = kind
      /\ \A e \in DocIds \ {d} : docs'[e] = docs[e]
  BY DEF deleteDoc, SaveInv, ContentTypeOK
<1> QED BY <1>1, WriteDone, ContentAssumption

LEMMA DoneNextInv == SaveInv /\ DoneInv /\ [WebNext]_webVars => DoneInv'
<1> SUFFICES ASSUME SaveInv, DoneInv, [WebNext]_webVars PROVE DoneInv'
  OBVIOUS
<1>1. CASE UNCHANGED contentVars
  BY <1>1, FormsDone DEF contentVars
<1>2. ASSUME NEW c \in Browsers,
             \/ \E key \in Keys : openNew(c, key) \/ setKey(c, key)
             \/ \E d \in DocIds : openEdit(c, d)
             \/ addRow(c)
             \/ \E i \in 1..3 : removeRow(c, i)
      PROVE  DoneInv'
  BY <1>2, FormsDone DEF openNew, setKey, openEdit, addRow, removeRow, EditForm, Edits
<1>3. ASSUME NEW c \in Browsers,
             \/ submitSong(c) \/ submitPlan(c)
             \/ \E mode \in {"IGNORE", "OVERWRITE"} : processImport(c, mode)
             \/ checkKey(c) \/ create(c) \/ checkDoc(c) \/ update(c) \/ lock(c)
             \/ deleteMany(c) \/ createMany(c) \/ importNext(c) \/ succeed(c) \/ fail(c)
      PROVE  DoneInv'
  BY <1>3, SubmitFormDone, StartImportDone, CheckDone, CreateDone, UpdateDone, DeleteDone, InsertDone,
     NextSongDone, SucceedDone, FailDone
<1>4. ASSUME NEW d \in DocIds, deleteDoc(d) PROVE DoneInv'
  BY <1>4, DeleteDocDone
<1>5. CASE ContentStep
  BY <1>2, <1>3, <1>4, <1>5 DEF ContentStep
<1> QED BY <1>1, <1>5 DEF WebNext, webVars

\* What the browsers report as saved or imported is in the database as it was shown,
\* unless somebody else wrote there (SongForm.tsx, PlanFormClient.tsx, confirm/route.ts).
THEOREM DoneTheorem == WebSpec => []DoneAsSaid
<1>1. WebInit => SaveInv /\ DoneInv
  BY SaveInitInv, DoneInitInv DEF WebInit
<1>2. SaveInv /\ DoneInv /\ [WebNext]_webVars => (SaveInv /\ DoneInv)'
  BY SaveNextInv, DoneNextInv
<1>3. SaveInv /\ DoneInv => DoneAsSaid
  BY DEF DoneInv
<1> QED BY <1>1, <1>2, <1>3, PTL DEF WebSpec
=============================================================================
