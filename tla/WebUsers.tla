------------------------------ MODULE WebUsers ------------------------------
(***************************************************************************)
(* Accounts of the web application: roles (lib/roles.ts), sessions         *)
(* (lib/auth.ts), the routes of app/api/users, the table of users, its     *)
(* dialog and the profile page (components/admin, components/profile).     *)
(*                                                                         *)
(* An account is a role, whether it is active, and a pseudo.  A session    *)
(* is a token: it keeps the role of its login.  Passwords, e-mails and     *)
(* names are left out; no page sends a role to the route that updates.     *)
(* The answer of a request may be lost, or be an error, after the request  *)
(* was served; a request that was not served by then is not served later.  *)
(***************************************************************************)
EXTENDS Naturals, FiniteSets, Functions

CONSTANTS
    Accounts,     \* identifiers of accounts, 1..n; 1 and 2 are administrators at the start
    Managers,     \* the browsers
    NewRoles,     \* the roles that are asked for
    Pseudos,
    NoAccount, NoSession, NoTable, NoCall,
    Nobody,       \* the identifier in the session of an account that is not active
    MaxCommands   \* bound on the commands

VARIABLES
    users,      \* the table of the database
    session,
    table,      \* the page of users of each browser
    rowCall,    \* what a row of it has under way
    dialogCall, \* what the dialog or the profile has under way
    commands,
    grantor,    \* history: the role of who made each account
    workers,    \* history: the browsers that changed accounts
    unsure      \* history: of each page, the accounts it changed without being told

userVars == <<users, session, table, rowCall, dialogCall, commands, grantor, workers, unsure>>

AppRole == {"ADMIN", "RESPONSABLE_CHANTRE", "CHANTRE", "LECTEUR"}

level(role) ==
    CASE role = "ADMIN" -> 100 [] role = "RESPONSABLE_CHANTRE" -> 70
      [] role = "CHANTRE" -> 40 [] role = "LECTEUR" -> 10 [] OTHER -> 0

atLeast(role, min) == level(role) >= level(min)

canAccessUserAdmin(role) == atLeast(role, "RESPONSABLE_CHANTRE")

canChangeUserRole(role) == atLeast(role, "ADMIN")

canDeleteUser(role) == atLeast(role, "ADMIN")

allowedRolesToAssign(role) ==
    IF role = "ADMIN" THEN AppRole ELSE {r \in AppRole : level(r) < level(role)}

\* The values that the variables take.
Account == [role : AppRole, active : BOOLEAN, pseudo : Pseudos \cup {1, 2, 3}]

Session == [id : Accounts, role : AppRole]

Rows == UNION {[shown -> BOOLEAN] : shown \in SUBSET Accounts}

Table == [self : Accounts \cup {Nobody}, rows : Rows]

RowCall ==
    [op : {"toggle", "delete"}, id : Accounts, to : BOOLEAN, stage : {"sent", "ok", "failed"}]

DialogCall ==
    [op : {"create", "rename"}, id : Accounts \cup {0}, role : AppRole \cup {""},
     pseudo : Pseudos, stage : {"sent", "checked", "ok", "failed"}, rows : Rows]

ASSUME UsersAssumption ==
    /\ Accounts \subseteq Nat \ {0} /\ {1, 2, 3} \subseteq Accounts
    /\ Nobody \notin Accounts /\ IsFiniteSet(Managers)
    /\ NoAccount \notin Account \cup AppRole /\ NoSession \notin Session
    /\ NoTable \notin Table /\ NoCall \notin RowCall \cup DialogCall

account(role, pseudo) == [role |-> role, active |-> TRUE, pseudo |-> pseudo]

Existing == {u \in Accounts : users[u] # NoAccount}

UserInit ==
    /\ users = [u \in Accounts |-> IF u \in {1, 2} THEN account("ADMIN", u)
                                   ELSE IF u = 3 THEN account("RESPONSABLE_CHANTRE", u) ELSE NoAccount]
    /\ session = [m \in Managers |-> NoSession]
    /\ table = [m \in Managers |-> NoTable]
    /\ rowCall = [m \in Managers |-> NoCall] /\ dialogCall = [m \in Managers |-> NoCall]
    /\ commands = 0
    /\ grantor = [u \in Accounts |-> IF u <= 3 THEN "ADMIN" ELSE NoAccount]
    /\ workers = {} /\ unsure = [m \in Managers |-> {}]

Command == commands < MaxCommands /\ commands' = commands + 1

-----------------------------------------------------------------------------
(***************************************************************************)
(* Sessions and pages.                                                     *)
(***************************************************************************)
authorize(m, u) ==
    /\ session[m] = NoSession /\ u \in Existing /\ users[u].active
    /\ session' = [session EXCEPT ![m] = [id |-> u, role |-> users[u].role]]
    /\ UNCHANGED <<users, table, rowCall, dialogCall, commands, grantor, workers, unsure>>

\* The session of an account that was disabled or deleted keeps its role.
SessionId(m) ==
    IF session[m].id \in Existing /\ users[session[m].id].active THEN session[m].id ELSE Nobody

\* The page is opened, or loaded again.
AdminUsersPage(m) ==
    /\ session[m] # NoSession /\ canAccessUserAdmin(session[m].role)
    /\ rowCall[m] = NoCall /\ dialogCall[m] = NoCall
    /\ table' = [table EXCEPT ![m] = [self |-> SessionId(m),
                                      rows |-> [u \in Existing |-> users[u].active]]]
    /\ unsure' = [unsure EXCEPT ![m] = {}]
    /\ UNCHANGED <<users, session, rowCall, dialogCall, commands, grantor, workers>>

-----------------------------------------------------------------------------
(***************************************************************************)
(* The rows of the table.  One call at a time: the buttons wait.           *)
(***************************************************************************)
Row(m, u) == table[m] # NoTable /\ u \in DOMAIN table[m].rows /\ rowCall[m] = NoCall

CallRow(m, op, u, to) ==
    /\ rowCall' = [rowCall EXCEPT ![m] = [op |-> op, id |-> u, to |-> to, stage |-> "sent"]]
    /\ UNCHANGED <<users, session, table, dialogCall, grantor, workers, unsure>>

toggleActive_Self(m, u) ==
    /\ Row(m, u) /\ canChangeUserRole(session[m].role)
    /\ Command /\ CallRow(m, "toggle", u, ~table[m].rows[u])

toggleActive(m, u) ==
    /\ Row(m, u) /\ canChangeUserRole(session[m].role) /\ u # table[m].self
    /\ Command /\ CallRow(m, "toggle", u, ~table[m].rows[u])

doDelete(m, u) ==
    /\ Row(m, u) /\ canDeleteUser(session[m].role) /\ u # table[m].self
    /\ Command /\ CallRow(m, "delete", u, FALSE)

Stage(m, stage) == rowCall' = [rowCall EXCEPT ![m].stage = stage]

\* PATCH and DELETE of app/api/users/[id]; an account that is not there is an error.
serveRow(m) ==
    /\ rowCall[m] # NoCall /\ rowCall[m].stage = "sent"
    /\ LET u == rowCall[m].id
           ok == u \in Existing /\ (rowCall[m].op = "delete" => u # SessionId(m))
       IN  /\ users' = IF ~ok THEN users
                       ELSE IF rowCall[m].op = "delete" THEN [users EXCEPT ![u] = NoAccount]
                       ELSE [users EXCEPT ![u].active = rowCall[m].to]
           /\ workers' = IF ok THEN workers \cup {m} ELSE workers
           /\ unsure' = IF ok THEN [unsure EXCEPT ![m] = @ \ {u}] ELSE unsure
           /\ Stage(m, IF ok THEN "ok" ELSE "failed")
    /\ UNCHANGED <<session, table, dialogCall, commands, grantor>>

answerRow(m) ==
    /\ rowCall[m] # NoCall /\ rowCall[m].stage \in {"ok", "failed"}
    /\ table' = IF rowCall[m].stage = "failed" \/ rowCall[m].id \notin DOMAIN table[m].rows THEN table
                ELSE IF rowCall[m].op = "delete"
                     THEN [table EXCEPT ![m].rows = Restrict(@, DOMAIN @ \ {rowCall[m].id})]
                ELSE [table EXCEPT ![m].rows[rowCall[m].id] = rowCall[m].to]
    /\ rowCall' = [rowCall EXCEPT ![m] = NoCall]
    /\ UNCHANGED <<users, session, dialogCall, commands, grantor, workers, unsure>>

\* An error or no answer, whether the route did its part or not: the row stays.
loseRow(m) ==
    /\ rowCall[m] # NoCall
    /\ rowCall' = [rowCall EXCEPT ![m] = NoCall]
    /\ unsure' = IF rowCall[m].stage = "ok" THEN [unsure EXCEPT ![m] = @ \cup {rowCall[m].id}]
                                           ELSE unsure
    /\ UNCHANGED <<users, session, table, dialogCall, commands, grantor, workers>>

-----------------------------------------------------------------------------
(***************************************************************************)
(* The dialog of a new user, and the pseudo in the profile.  Both look for *)
(* the pseudo first, and the database refuses it if it is taken since.     *)
(***************************************************************************)
CallDialog(m, call) ==
    /\ dialogCall[m] = NoCall /\ Command
    /\ dialogCall' = [dialogCall EXCEPT ![m] = call]
    /\ UNCHANGED <<users, session, table, rowCall, grantor, workers, unsure>>

submitUser(m, role, pseudo) ==
    /\ table[m] # NoTable /\ role \in allowedRolesToAssign(session[m].role)
    /\ CallDialog(m, [op |-> "create", id |-> 0, role |-> role, pseudo |-> pseudo, stage |-> "sent",
                      rows |-> table[m].rows])

saveInfo(m, pseudo) ==
    /\ session[m] # NoSession /\ SessionId(m) # Nobody
    /\ CallDialog(m, [op |-> "rename", id |-> session[m].id, role |-> "", pseudo |-> pseudo,
                      stage |-> "sent", rows |-> <<>>])

Taken(pseudo, but) == \E u \in Existing \ {but} : users[u].pseudo = pseudo

checkPseudo(m) ==
    /\ dialogCall[m] # NoCall /\ dialogCall[m].stage = "sent"
    /\ dialogCall' = [dialogCall EXCEPT ![m].stage =
                        IF \/ Taken(dialogCall[m].pseudo, dialogCall[m].id)
                           \/ dialogCall[m].op = "create"
                                /\ dialogCall[m].role \notin allowedRolesToAssign(session[m].role)
                           \/ dialogCall[m].op = "rename" /\ SessionId(m) # dialogCall[m].id
                        THEN "failed" ELSE "checked"]
    /\ UNCHANGED <<users, session, table, rowCall, commands, grantor, workers, unsure>>

\* Identifiers are never used again.
FreeIds == {u \in Accounts : grantor[u] = NoAccount}

writeUser(m) ==
    /\ dialogCall[m] # NoCall /\ dialogCall[m].stage = "checked"
    /\ \/ /\ ~Taken(dialogCall[m].pseudo, dialogCall[m].id)
          /\ dialogCall[m].op = "create"
          /\ \E u \in FreeIds :
                /\ \A v \in FreeIds : u <= v
                /\ users' = [users EXCEPT ![u] = account(dialogCall[m].role, dialogCall[m].pseudo)]
                /\ grantor' = [grantor EXCEPT ![u] = session[m].role]
                /\ dialogCall' = [dialogCall EXCEPT ![m].stage = "ok", ![m].id = u]
          /\ workers' = workers \cup {m}
       \/ /\ ~Taken(dialogCall[m].pseudo, dialogCall[m].id)
          /\ dialogCall[m].op = "rename" /\ dialogCall[m].id \in Existing
          /\ users' = [users EXCEPT ![dialogCall[m].id].pseudo = dialogCall[m].pseudo]
          /\ dialogCall' = [dialogCall EXCEPT ![m].stage = "ok"]
          /\ UNCHANGED <<grantor, workers>>
       \/ /\ Taken(dialogCall[m].pseudo, dialogCall[m].id) \/ dialogCall[m].id \notin Existing \cup {0}
          /\ dialogCall' = [dialogCall EXCEPT ![m].stage = "failed"]
          /\ UNCHANGED <<users, grantor, workers>>
    /\ UNCHANGED <<session, table, rowCall, commands, unsure>>

WithRow(rows, id) == [u \in {id} \cup DOMAIN rows |-> IF u = id THEN TRUE ELSE rows[u]]

handleCreated_Stale(m) == WithRow(dialogCall[m].rows, dialogCall[m].id)

handleCreated(m) == WithRow(table[m].rows, dialogCall[m].id)

answerDialog(m) ==
    /\ dialogCall[m] # NoCall /\ dialogCall[m].stage \in {"ok", "failed"}
    /\ table' = IF dialogCall[m].stage = "ok" /\ dialogCall[m].op = "create"
                THEN [table EXCEPT ![m].rows = handleCreated(m)] ELSE table
    /\ dialogCall' = [dialogCall EXCEPT ![m] = NoCall]
    /\ UNCHANGED <<users, session, rowCall, commands, grantor, workers, unsure>>

\* The dialog says that it failed and adds no row, whether the account was made or not.
loseDialog(m) ==
    /\ dialogCall[m] # NoCall
    /\ dialogCall' = [dialogCall EXCEPT ![m] = NoCall]
    /\ unsure' = IF dialogCall[m].stage = "ok" /\ dialogCall[m].op = "create"
                 THEN [unsure EXCEPT ![m] = @ \cup {dialogCall[m].id}] ELSE unsure
    /\ UNCHANGED <<users, session, table, rowCall, commands, grantor, workers>>

-----------------------------------------------------------------------------
UserStep ==
    \E m \in Managers :
        \/ \E u \in Accounts : authorize(m, u) \/ toggleActive(m, u) \/ doDelete(m, u)
        \/ AdminUsersPage(m)
        \/ \E role \in NewRoles, pseudo \in Pseudos : submitUser(m, role, pseudo)
        \/ \E pseudo \in Pseudos : saveInfo(m, pseudo)
        \/ serveRow(m) \/ answerRow(m) \/ checkPseudo(m) \/ writeUser(m) \/ answerDialog(m)
        \/ loseRow(m) \/ loseDialog(m)

-----------------------------------------------------------------------------
(* Properties *)

\* allowedRolesToAssign through the life of the accounts: each one was made by
\* an administrator, or by somebody whose role was strictly above its own.
RolesGranted ==
    \A u \in Existing : grantor[u] = "ADMIN" \/ level(users[u].role) < level(grantor[u])

\* As long as a single browser manages the accounts, an active administrator is
\* left: the table lets nobody disable or delete the account that works.
AdminRemains ==
    Cardinality(workers) <= 1 => \E u \in Existing : users[u].role = "ADMIN" /\ users[u].active

\* The table of the only browser that manages the accounts is the database, also
\* when a row and the dialog of a new user are under way at the same time.  Except
\* for the accounts whose last change was done without the page being told
\* (UserTableClient.tsx:74, 91; NewUserDialog.tsx:73), until it repeats the change
\* with success or is loaded again; and no lost answer touches another account.
TableTrue ==
    \A m \in Managers :
        /\ table[m] # NoTable /\ workers \subseteq {m}
        /\ rowCall[m] = NoCall /\ dialogCall[m] = NoCall
        => \A u \in Accounts \ unsure[m] :
              /\ u \in DOMAIN table[m].rows <=> u \in Existing
              /\ u \in Existing => table[m].rows[u] = users[u].active

\* The accounts stay governed (roles.ts, api/users): nobody hands out a role as high
\* as his own without being an administrator, and an administrator is left to
\* manage the others.
AccountsGoverned == RolesGranted /\ AdminRemains
=============================================================================
