---------------------------- MODULE PgSyncProofs ----------------------------
(***************************************************************************)
(* Theorems about PgSync, for any sets of songs, plans and calls, any      *)
(* titles and dates and any number of edits and restarts.                  *)
(***************************************************************************)
EXTENDS PgSync, TLAPS

-----------------------------------------------------------------------------
(* Typing *)

LEMMA NoRowsType == NoRows \in Rows
BY DEF NoRows, Rows

LEMMA StoredType == AllPulled \in [Ids -> Storage]
BY DEF AllPulled, Storage

LEMMA ChangedType ==
    ASSUME TypeOK, NEW tbl, NEW t
    PROVE  Changed(tbl, t) \in Rows
BY DEF Changed, TypeOK, Rows

\* What a call that ends leaves is well typed.
LEMMA ReturnType ==
    ASSUME TypeOK, NEW c \in Calls, NEW result \in States, Return(c, result)
    PROVE  /\ pc' \in [Calls -> Steps]
           /\ left' \in [Calls -> SUBSET Tables]
           /\ since' \in [Calls -> Nat]
           /\ todo' \in [Calls -> Rows] /\ target' \in [Calls -> Rows]
           /\ overwritten' \in [Calls -> BOOLEAN]
           /\ snapshot' \in [Calls -> Rows]
           /\ state' \in States
BY NoRowsType DEF Return, TypeOK, Steps

LEMMA StartPullType ==
    ASSUME TypeOK, NEW c \in Calls, StartPull(c)
    PROVE  pc' \in [Calls -> Steps] /\ left' \in [Calls -> SUBSET Tables]
BY DEF StartPull, TypeOK, Steps

LEMMA StartingType == \A c : Starting(c) \in [Calls -> Steps]
BY DEF Starting, Steps

\* So is what a restart leaves.
LEMMA StartAgainType ==
    ASSUME TypeOK, StartAgain
    PROVE  /\ pc' \in [Calls -> Steps]
           /\ left' \in [Calls -> SUBSET Tables]
           /\ since' \in [Calls -> Nat]
           /\ todo' \in [Calls -> Rows] /\ target' \in [Calls -> Rows]
           /\ overwritten' \in [Calls -> BOOLEAN]
           /\ snapshot' \in [Calls -> Rows]
           /\ state' \in States
           /\ faults' \in Nat /\ toast' \in BOOLEAN
           /\ remote' \in Rows
<1>1. pc' \in [Calls -> Steps]
  BY StartingType DEF StartAgain, AnotherFault
<1>2. /\ left' \in [Calls -> SUBSET Tables] /\ since' \in [Calls -> Nat]
      /\ overwritten' \in [Calls -> BOOLEAN]
  BY DEF StartAgain, AnotherFault, ForCalls
<1>3. /\ todo' \in [Calls -> Rows] /\ target' \in [Calls -> Rows]
      /\ snapshot' \in [Calls -> Rows]
  BY NoRowsType DEF StartAgain, AnotherFault, ForCalls
<1>4. state' \in States /\ toast' \in BOOLEAN
  BY DEF StartAgain, AnotherFault, States
<1>5. faults' \in Nat
  BY DEF StartAgain, AnotherFault, TypeOK
<1>6. remote' \in Rows
  BY NoRowsType DEF StartAgain, AnotherFault, TypeOK
<1> QED BY <1>1, <1>2, <1>3, <1>4, <1>5, <1>6

LEMMA InitType == Init => TypeOK
<1> SUFFICES ASSUME Init PROVE TypeOK
  OBVIOUS
<1>1. pc \in [Calls -> Steps]
  BY StartingType DEF Init
<1>2. /\ left \in [Calls -> SUBSET Tables] /\ since \in [Calls -> Nat]
      /\ overwritten \in [Calls -> BOOLEAN]
  BY DEF Init, ForCalls
<1>3. /\ todo \in [Calls -> Rows] /\ target \in [Calls -> Rows]
      /\ snapshot \in [Calls -> Rows] /\ local \in Rows /\ remote \in Rows
  BY NoRowsType DEF Init, ForCalls
<1>4. state \in States /\ net \in BOOLEAN /\ toast \in BOOLEAN
  BY DEF Init, States
<1> QED BY <1>1, <1>2, <1>3, <1>4, StoredType DEF Init, TypeOK

LEMMA NextType == TypeOK /\ [Next]_vars => TypeOK'
<1> SUFFICES ASSUME TypeOK, [Next]_vars PROVE TypeOK'
  OBVIOUS
<1>1. ASSUME NEW c \in Calls, initialize(c) PROVE TypeOK'
  <2>1. CASE net
    BY <1>1, <2>1, StartPullType DEF initialize, TypeOK, dbs, history, States
  <2>2. CASE ~net
    BY <1>1, <2>2, ReturnType DEF initialize, TypeOK, dbs, history, States
  <2> QED BY <2>1, <2>2
<1>2. ASSUME NEW c \in Calls, checkAndReconnect(c) PROVE TypeOK'
  BY <1>2 DEF checkAndReconnect, TypeOK, dbs, history, Steps
<1>3. ASSUME NEW c \in Calls, reconnect(c) PROVE TypeOK'
  <2>1. CASE net
    <3>1. todo' \in [Calls -> Rows]
      BY <1>3, <2>1, ChangedType DEF reconnect, TypeOK
    <3>2. pc' \in [Calls -> Steps] /\ state' \in States
      BY <1>3, <2>1 DEF reconnect, TypeOK, Steps, States
    <3>3. left' \in [Calls -> SUBSET Tables] /\ since' \in [Calls -> Nat]
      BY <1>3, <2>1 DEF reconnect, TypeOK, Tables
    <3> QED BY <1>3, <2>1, <3>1, <3>2, <3>3 DEF reconnect, TypeOK, dbs, history
  <2>2. CASE ~net
    <3>1. state \in States
      BY DEF TypeOK
    <3> QED BY <1>3, <2>2, <3>1, ReturnType DEF reconnect, TypeOK, dbs, history
  <2> QED BY <2>1, <2>2
<1>4. ASSUME NEW c \in Calls, periodicPull(c) PROVE TypeOK'
  BY <1>4, StartPullType DEF periodicPull, TypeOK, dbs, history, States
<1>5. ASSUME NEW c \in Calls, NEW i \in Ids, pushLook(c, i) PROVE TypeOK'
  <2>1. todo' \in [Calls -> Rows]
    BY <1>5 DEF pushLook, TypeOK, Rows
  <2>2. pc' \in [Calls -> Steps]
    BY <1>5 DEF pushLook, TypeOK, Steps
  <2>3. target' \in [Calls -> Rows]
    <3>1. todo[c][i] \in Nat
      BY DEF TypeOK, Rows
    <3>2. [NoRows EXCEPT ![i] = todo[c][i]] \in Rows
      BY <3>1 DEF NoRows, Rows
    <3> QED BY <1>5, <3>2 DEF pushLook, TypeOK
  <2>4. overwritten' \in [Calls -> BOOLEAN]
    <3>1. \A v \in BOOLEAN : [overwritten EXCEPT ![c] = v] \in [Calls -> BOOLEAN]
      BY DEF TypeOK
    <3>2. (overwritten[c] \/ todo[c][i] > remote[i]) \in BOOLEAN
      OBVIOUS
    <3>3. CASE remote[i] = 0
      BY <1>5, <3>3 DEF pushLook, TypeOK
    <3>4. CASE remote[i] # 0
      BY <1>5, <3>1, <3>2, <3>4 DEF pushLook
    <3> QED BY <3>3, <3>4
  <2> QED BY <1>5, <2>1, <2>2, <2>3, <2>4 DEF pushLook, TypeOK, dbs, history
<1>6. ASSUME NEW c \in Calls, NEW i \in Ids, pushCreate(c, i) PROVE TypeOK'
  <2>1. CASE remote[i] = 0 /\ ~Clash(i, remote)
    <3>1. target[c][i] \in Nat
      BY DEF TypeOK, Rows
    <3>2. remote' \in Rows
      BY <1>6, <2>1, <3>1 DEF pushCreate, TypeOK, Rows
    <3>3. pc' \in [Calls -> Steps] /\ target' \in [Calls -> Rows]
      BY <1>6, <2>1, NoRowsType DEF pushCreate, TypeOK, Steps
    <3>4. published' \in SUBSET Nat
      BY <1>6, <2>1, <3>1 DEF pushCreate, TypeOK
    <3> QED BY <1>6, <2>1, <3>2, <3>3, <3>4 DEF pushCreate, TypeOK
  <2>2. CASE ~(remote[i] = 0 /\ ~Clash(i, remote))
    BY <1>6, <2>2, ReturnType DEF pushCreate, TypeOK, States
  <2> QED BY <2>1, <2>2
<1>7. ASSUME NEW c \in Calls, pushNext(c) PROVE TypeOK'
  <2>1. CASE left[c] # {}
    <3>1. todo' \in [Calls -> Rows] /\ left' \in [Calls -> SUBSET Tables]
      BY <1>7, <2>1, ChangedType DEF pushNext, TypeOK
    <3> QED BY <1>7, <2>1, <3>1 DEF pushNext, TypeOK, dbs, history
  <2>2. CASE left[c] = {}
    BY <1>7, <2>2, StartPullType DEF pushNext, TypeOK, dbs, history
  <2> QED BY <2>1, <2>2
<1>8. ASSUME NEW c \in Calls, NEW t \in Tables, pullFetch(c, t) PROVE TypeOK'
  <2>1. snapshot' \in [Calls -> Rows]
    BY <1>8 DEF pullFetch, TypeOK, Rows
  <2> QED BY <1>8, <2>1 DEF pullFetch, TypeOK, dbs, history, Steps
<1>9. ASSUME NEW c \in Calls, pullReplace(c) PROVE TypeOK'
  BY <1>9, ReturnType, StoredType DEF pullReplace, TypeOK, history, States
<1>10. ASSUME NEW c \in Calls, callFails(c) PROVE TypeOK'
  <2>1. faults' \in Nat
    BY <1>10 DEF callFails, AnotherFault, TypeOK
  <2>2. Return(c, "SYNC_ERROR") /\ toast' = FALSE /\ UNCHANGED <<net, dbs, history>>
    BY <1>10 DEF callFails
  <2> QED BY <2>1, <2>2, ReturnType DEF TypeOK, dbs, history, States
<1>11. ASSUME NEW c \in Calls, crashBeforeSave(c) PROVE TypeOK'
  BY <1>11, StartAgainType, StoredType DEF crashBeforeSave, TypeOK, history
<1>12. ASSUME NEW i \in Ids, LocalEdit(i) PROVE TypeOK'
  <2>1. local' \in Rows /\ clock' \in Nat
    BY <1>12 DEF LocalEdit, TypeOK, Rows
  <2>2. born' \in SUBSET Ids /\ offlineRows' \in SUBSET Ids
    BY <1>12 DEF LocalEdit, TypeOK
  <2>3. stored' \in [Ids -> Storage]
    BY <1>12 DEF LocalEdit, TypeOK, Storage
  <2> QED BY <1>12, <2>1, <2>2, <2>3 DEF LocalEdit, TypeOK, callVars
<1>13. ASSUME NEW i \in Ids, WebEdit(i) PROVE TypeOK'
  <2>1. remote' \in Rows /\ clock' \in Nat
    BY <1>13 DEF WebEdit, TypeOK, Rows
  <2>2. born' \in SUBSET Ids /\ published' \in SUBSET Nat
    BY <1>13 DEF WebEdit, TypeOK
  <2> QED BY <1>13, <2>1, <2>2 DEF WebEdit, TypeOK, callVars
<1>14. ASSUME NetworkChange PROVE TypeOK'
  BY <1>14 DEF NetworkChange, TypeOK, dbs, callVars, history
<1>15. ASSUME Restart PROVE TypeOK'
  BY <1>15, StartAgainType DEF Restart, TypeOK, dbs, history
<1>16. CASE UNCHANGED vars
  BY <1>16 DEF TypeOK, vars, dbs, callVars, history
<1> QED
  BY <1>1, <1>2, <1>3, <1>4, <1>5, <1>6, <1>7, <1>8, <1>9, <1>10, <1>11, <1>12,
     <1>13, <1>14, <1>15, <1>16 DEF Next, CallStep

\* Types are kept by the manager, the users, the network and the restarts.
THEOREM TypeCorrect == Spec => []TypeOK
<1>1. Init => TypeOK
  BY InitType
<1>2. TypeOK /\ [Next]_vars => TypeOK'
  BY NextType
<1> QED BY <1>1, <1>2, PTL DEF Spec

-----------------------------------------------------------------------------
(***************************************************************************)
(* What lastPullAt means.  LastPullSound is not inductive: a pull writes a *)
(* snapshot that some earlier step has fetched, so the invariant also says *)
(* where snapshots come from, and that the timestamp is never in the       *)
(* future.                                                                 *)
(***************************************************************************)
Origin ==
    /\ \A i \in Ids : remote[i] # 0 => remote[i] \in published
    /\ \A c \in Calls, i \in Ids : snapshot[c][i] # 0 => snapshot[c][i] \in published
    /\ lastPullAt <= clock

PullInv == TypeOK /\ Origin /\ LastPullSound

LEMMA PullInvInit == Init => PullInv
BY InitType DEF Init, PullInv, Origin, LastPullSound, NoRows, ForCalls

LEMMA PullInvNext == PullInv /\ [Next]_vars => PullInv'
<1> SUFFICES ASSUME PullInv, [Next]_vars PROVE Origin' /\ LastPullSound'
  BY NextType DEF PullInv
<1> USE DEF PullInv
<1>r. ASSUME NEW c \in Calls, snapshot' = [snapshot EXCEPT ![c] = NoRows]
      PROVE  \A d \in Calls, i \in Ids : snapshot'[d][i] # 0 => snapshot'[d][i] = snapshot[d][i]
  BY <1>r DEF TypeOK, NoRows
<1>1. ASSUME NEW c \in Calls, initialize(c) PROVE Origin' /\ LastPullSound'
  <2>1. \A d \in Calls, i \in Ids : snapshot'[d][i] # 0 => snapshot'[d][i] = snapshot[d][i]
    BY <1>1, <1>r DEF initialize, Return
  <2> QED BY <1>1, <2>1 DEF initialize, dbs, history, Origin, LastPullSound
<1>2. ASSUME NEW c \in Calls, checkAndReconnect(c) PROVE Origin' /\ LastPullSound'
  BY <1>2 DEF checkAndReconnect, dbs, history, Origin, LastPullSound
<1>3. ASSUME NEW c \in Calls, reconnect(c) PROVE Origin' /\ LastPullSound'
  <2>1. \A d \in Calls, i \in Ids : snapshot'[d][i] # 0 => snapshot'[d][i] = snapshot[d][i]
    BY <1>3, <1>r DEF reconnect, Return
  <2> QED BY <1>3, <2>1 DEF reconnect, dbs, history, Origin, LastPullSound
<1>4. ASSUME NEW c \in Calls, periodicPull(c) PROVE Origin' /\ LastPullSound'
  BY <1>4 DEF periodicPull, dbs, history, Origin, LastPullSound
<1>5. ASSUME NEW c \in Calls, NEW i \in Ids, pushLook(c, i) PROVE Origin' /\ LastPullSound'
  BY <1>5 DEF pushLook, dbs, history, Origin, LastPullSound
<1>6. ASSUME NEW c \in Calls, NEW i \in Ids, pushCreate(c, i)
      PROVE  Origin' /\ LastPullSound'
  <2>1. published \subseteq published'
    BY <1>6 DEF pushCreate
  <2>2. \A j \in Ids : remote'[j] # 0 => remote'[j] \in published'
    BY <1>6 DEF pushCreate, Origin, TypeOK, Rows
  <2>3. \A d \in Calls, j \in Ids : snapshot'[d][j] # 0 => snapshot'[d][j] = snapshot[d][j]
    BY <1>6, <1>r DEF pushCreate, Return
  <2> QED BY <1>6, <2>1, <2>2, <2>3 DEF pushCreate, Origin, LastPullSound
<1>7. ASSUME NEW c \in Calls, pushNext(c) PROVE Origin' /\ LastPullSound'
  BY <1>7 DEF pushNext, dbs, history, Origin, LastPullSound
<1>8. ASSUME NEW c \in Calls, NEW t \in Tables, pullFetch(c, t)
      PROVE  Origin' /\ LastPullSound'
  <2>1. \A d \in Calls, i \in Ids :
            snapshot'[d][i] = snapshot[d][i] \/ snapshot'[d][i] = remote[i]
    BY <1>8 DEF pullFetch, TypeOK
  <2> QED BY <1>8, <2>1 DEF pullFetch, dbs, history, Origin, LastPullSound
<1>9. ASSUME NEW c \in Calls, pullReplace(c) PROVE Origin' /\ LastPullSound'
  <2>1. \A d \in Calls, i \in Ids : snapshot'[d][i] # 0 => snapshot'[d][i] = snapshot[d][i]
    BY <1>9, <1>r DEF pullReplace, Return
  <2>2. clock \in Nat
    BY DEF TypeOK
  <2> QED BY <1>9, <2>1, <2>2 DEF pullReplace, history, Origin, LastPullSound
<1>10. ASSUME NEW c \in Calls, callFails(c) PROVE Origin' /\ LastPullSound'
  <2>1. \A d \in Calls, i \in Ids : snapshot'[d][i] # 0 => snapshot'[d][i] = snapshot[d][i]
    BY <1>10, <1>r DEF callFails, AnotherFault, Return
  <2> QED BY <1>10, <2>1 DEF callFails, AnotherFault, dbs, history, Origin, LastPullSound
<1>s. ASSUME StartAgain
      PROVE  /\ \A d \in Calls, i \in Ids : snapshot'[d][i] = 0
             /\ \A i \in Ids : remote'[i] # 0 => remote'[i] = remote[i]
  BY <1>s DEF StartAgain, AnotherFault, ForCalls, NoRows
<1>11. ASSUME NEW c \in Calls, crashBeforeSave(c) PROVE Origin' /\ LastPullSound'
  <2>1. lastPullAt' <= clock
    BY <1>11 DEF crashBeforeSave, Origin, TypeOK
  <2> QED BY <1>11, <1>s, <2>1 DEF crashBeforeSave, history, Origin, LastPullSound
<1>12. ASSUME NEW i \in Ids, LocalEdit(i) PROVE Origin' /\ LastPullSound'
  <2>1. clock + 1 > lastPullAt /\ lastPullAt <= clock + 1
    BY DEF Origin, TypeOK
  <2>2. \A j \in Ids : local'[j] = local[j] \/ local'[j] = clock + 1
    BY <1>12 DEF LocalEdit, TypeOK, Rows
  <2>3. lastPullAt \in Nat /\ clock \in Nat
    BY DEF TypeOK
  <2> QED BY <1>12, <2>1, <2>2, <2>3 DEF LocalEdit, callVars, Origin, LastPullSound
<1>13. ASSUME NEW i \in Ids, WebEdit(i) PROVE Origin' /\ LastPullSound'
  <2>1. lastPullAt <= clock + 1
    BY DEF Origin, TypeOK
  <2>2. \A j \in Ids : remote'[j] = remote[j] \/ remote'[j] = clock + 1
    BY <1>13 DEF WebEdit, TypeOK, Rows
  <2> QED BY <1>13, <2>1, <2>2 DEF WebEdit, callVars, Origin, LastPullSound
<1>14. ASSUME NetworkChange PROVE Origin' /\ LastPullSound'
  BY <1>14 DEF NetworkChange, dbs, callVars, history, Origin, LastPullSound
<1>15. ASSUME Restart PROVE Origin' /\ LastPullSound'
  BY <1>15, <1>s DEF Restart, dbs, history, Origin, LastPullSound
<1>16. CASE UNCHANGED vars
  BY <1>16 DEF vars, dbs, callVars, history, Origin, LastPullSound
<1> QED
  BY <1>1, <1>2, <1>3, <1>4, <1>5, <1>6, <1>7, <1>8, <1>9, <1>10, <1>11, <1>12,
     <1>13, <1>14, <1>15, <1>16 DEF Next, CallStep

\* A row of SQLite that is not newer than lastPullAt has been in PostgreSQL,
\* whatever the interleaving of the calls, the failures and the restarts.
THEOREM LastPullTheorem == Spec => []LastPullSound
<1>1. Init => PullInv
  BY PullInvInit
<1>2. PullInv /\ [Next]_vars => PullInv'
  BY PullInvNext
<1>3. PullInv => LastPullSound
  BY DEF PullInv
<1> QED BY <1>1, <1>2, <1>3, PTL DEF Spec

-----------------------------------------------------------------------------
(* PostgreSQL wins *)

\* Only a web edit changes a row that PostgreSQL has.
LEMMA ServerWinsNext ==
    ASSUME TypeOK, [Next]_vars, faults' = faults,
           NEW i \in Ids, remote[i] # 0, remote'[i] # remote[i]
    PROVE  remote'[i] > clock
<1>1. ASSUME NEW c \in Calls, NEW j \in Ids, pushCreate(c, j) PROVE FALSE
  BY <1>1 DEF pushCreate, TypeOK, Rows
<1>2. ASSUME NEW j \in Ids, WebEdit(j) PROVE remote'[i] > clock
  BY <1>2 DEF WebEdit, TypeOK, Rows
<1>3. ASSUME NEW c \in Calls,
             \/ initialize(c) \/ checkAndReconnect(c) \/ reconnect(c) \/ periodicPull(c)
             \/ \E j \in Ids : pushLook(c, j)
             \/ pushNext(c) \/ (\E t \in Tables : pullFetch(c, t))
             \/ pullReplace(c) \/ callFails(c)
      PROVE FALSE
  BY <1>3 DEF initialize, checkAndReconnect, reconnect, periodicPull, pushLook, pushNext,
              pullFetch, pullReplace, callFails, AnotherFault, dbs
<1>4. ASSUME \/ \E j \in Ids : LocalEdit(j)
             \/ NetworkChange \/ UNCHANGED vars
      PROVE FALSE
  BY <1>4 DEF LocalEdit, NetworkChange, vars, dbs
<1>5. ASSUME Restart \/ \E c \in Calls : crashBeforeSave(c) PROVE FALSE
  <2>1. faults' = faults + 1
    BY <1>5 DEF Restart, crashBeforeSave, StartAgain, AnotherFault
  <2>2. faults \in Nat
    BY DEF TypeOK
  <2> QED BY <2>1, <2>2
<1> QED BY <1>1, <1>2, <1>3, <1>4, <1>5 DEF Next, CallStep

\* No push, of one call or of several, replaces a row of PostgreSQL.
THEOREM ServerWinsTheorem == Spec => ServerWins
<1>1. TypeOK /\ [Next]_vars =>
        [\A i \in Ids :
            faults' = faults /\ remote[i] # 0 /\ remote'[i] # remote[i]
                => remote'[i] > clock]_vars
  BY ServerWinsNext
<1> QED BY <1>1, TypeCorrect, PTL DEF Spec, ServerWins
=============================================================================
