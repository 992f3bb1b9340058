---------------------------- MODULE LibraryProofs ----------------------------
(***************************************************************************)
(* Proofs about SongLibrary and MediaLibrary in Library, for any sets of   *)
(* songs, titles, blocks, dates, folders, names and calls and every bound: *)
(* the copies of the songs, the import that replaces the database, the     *)
(* renaming and the listing of media files.                                *)
(***************************************************************************)
EXTENDS Library, FiniteSetTheorems, TLAPS

-----------------------------------------------------------------------------
(* Media files *)

Data == {s.data : s \in Sources} \cup {NoFile}

MediaCall ==
    {Idle}
    \cup [op : {"copy"}, root : Roots, name : FileNames, data : Data, stale : SUBSET FileNames]
    \cup [op : {"unlink"}, root : Roots, name : FileNames, stale : SUBSET FileNames]
    \cup [op : {"rename"}, root : Roots, name : FileNames, to : FileNames, stale : SUBSET FileNames]
    \cup [op : {"list"}, root : Roots, names : SUBSET FileNames, left : SUBSET FileNames,
          stale : SUBSET FileNames]

MediaTypeOK ==
    /\ disk \in [Roots -> [FileNames -> Data]]
    /\ rootDir \in Roots
    /\ call \in [Calls -> MediaCall]

(***************************************************************************)
(* What a call that is under way has seen.  A name that was free when      *)
(* files:renameMedia looked still is, and the names that files:listMedia   *)
(* read are still those of the folder, but for the stale ones.             *)
(***************************************************************************)
RenameOK(k) == k.to # k.name /\ (k.to \in Files(k.root) => k.to \in k.stale)

ListOK(k) ==
    /\ k.left \subseteq k.names
    /\ k.names \subseteq Files(k.root) \cup k.stale
    /\ Files(k.root) \subseteq k.names \cup k.stale

CallOK(k) ==
    /\ k.op = "rename" => RenameOK(k)
    /\ k.op = "list" => ListOK(k)

MediaInv == MediaTypeOK /\ \A c \in Calls : CallOK(call[c])

\* A call other than the one that ends stays what it was, with more stale names.
LEMMA TouchInv ==
    ASSUME MediaInv, NEW c \in Calls, NEW r \in Roots, NEW names \in SUBSET FileNames,
           Touch(c, r, names), rootDir' = rootDir, disk' \in [Roots -> [FileNames -> Data]],
           \A q \in Roots, n \in FileNames : q # r \/ n \notin names => disk'[q][n] = disk[q][n]
    PROVE  MediaInv'
<1>1. \A d \in Calls : call[d] \in MediaCall
  BY DEF MediaInv, MediaTypeOK
<1>2. call' \in [Calls -> MediaCall]
  <2>1. ASSUME NEW d \in Calls, call[d] # Idle PROVE [call[d] EXCEPT !.stale = @ \cup names] \in MediaCall
    <3>1. call[d] \in MediaCall \ {Idle}
      BY <1>1, <2>1
    <3> QED BY <3>1 DEF MediaCall
  <2>2. Idle \in MediaCall
    BY DEF MediaCall
  <2> QED BY <1>1, <2>1, <2>2 DEF Touch
<1>3. ASSUME NEW d \in Calls PROVE CallOK(call[d])'
  <2>1. CASE call'[d] = Idle
    BY <2>1 DEF CallOK, Idle
  <2>2. CASE call'[d] = call[d] /\ call[d] # Idle /\ call[d].root # r
    <3>1. Files(call[d].root)' = Files(call[d].root)
      BY <1>1, <2>2 DEF Files, MediaCall
    <3>2. CallOK(call[d])
      BY DEF MediaInv
    <3> QED BY <2>2, <3>1, <3>2 DEF CallOK, RenameOK, ListOK
  <2>3. CASE call'[d] = [call[d] EXCEPT !.stale = @ \cup names] /\ call[d] # Idle /\ call[d].root = r
    <3>1. Files(r)' \subseteq Files(r) \cup names /\ Files(r) \subseteq Files(r)' \cup names
      BY DEF Files
    <3>2. CallOK(call[d])
      BY DEF MediaInv
    <3>3. CASE call[d].op = "rename"
      <4>1. /\ call'[d].op = "rename" /\ call'[d].to = call[d].to /\ call'[d].name = call[d].name
            /\ call'[d].root = r /\ call'[d].stale = call[d].stale \cup names
        BY <1>1, <2>3, <3>3 DEF MediaCall
      <4> QED BY <3>1, <3>2, <3>3, <4>1, <2>3 DEF CallOK, RenameOK
    <3>4. CASE call[d].op = "list"
      <4>1. /\ call'[d].op = "list" /\ call'[d].left = call[d].left /\ call'[d].names = call[d].names
            /\ call'[d].root = r /\ call'[d].stale = call[d].stale \cup names
        BY <1>1, <2>3, <3>4 DEF MediaCall
      <4> QED BY <3>1, <3>2, <3>4, <4>1, <2>3 DEF CallOK, ListOK
    <3>5. CASE call[d].op \notin {"rename", "list"}
      <4>1. call'[d].op = call[d].op
        BY <1>1, <2>3 DEF MediaCall
      <4> QED BY <3>5, <4>1 DEF CallOK
    <3> QED BY <3>3, <3>4, <3>5
  <2> QED BY <2>1, <2>2, <2>3 DEF Touch
<1> QED BY <1>2, <1>3 DEF MediaInv, MediaTypeOK

\* A call begins, goes on or ends, and nothing else changes.
LEMMA CallInv ==
    ASSUME MediaInv, NEW c \in Calls, NEW k \in MediaCall, call' = [call EXCEPT ![c] = k],
           CallOK(k), disk' = disk, rootDir' = rootDir
    PROVE  MediaInv'
<1>1. ASSUME NEW d \in Calls PROVE CallOK(call[d])'
  <2>1. CallOK(call'[d])
    BY DEF MediaInv, MediaTypeOK
  <2>2. \A q : Files(q)' = Files(q)
    BY DEF Files
  <2> QED BY <2>1, <2>2 DEF CallOK, RenameOK, ListOK
<1> QED BY <1>1 DEF MediaInv, MediaTypeOK

LEMMA MediaInitInv == MediaInit => MediaInv
BY MediaAssumption DEF MediaInit, MediaInv, MediaTypeOK, MediaCall, CallOK, Idle, Data

LEMMA MediaStepInv == MediaInv /\ [MediaStep]_mediaVars => MediaInv'
<1> SUFFICES ASSUME MediaInv, [MediaStep]_mediaVars PROVE MediaInv'
  OBVIOUS
<1> USE DEF MediaInv
<1>0. /\ MediaTypeOK /\ \A c \in Calls : call[c] \in MediaCall /\ CallOK(call[c])
  BY DEF MediaTypeOK
<1>1. ASSUME NEW c \in Calls, pickMedia(c) PROVE MediaInv'
  <2>1. PICK s \in Sources : Begin(c, [op |-> "copy", root |-> rootDir, name |-> s.name,
                                       data |-> s.data, stale |-> {}])
    BY <1>1 DEF pickMedia
  <2> DEFINE k == [op |-> "copy", root |-> rootDir, name |-> s.name, data |-> s.data, stale |-> {}]
  <2>2. k \in MediaCall /\ CallOK(k)
    BY MediaAssumption, <1>0 DEF MediaCall, MediaTypeOK, CallOK, Data
  <2> HIDE DEF k
  <2> QED BY <1>1, <2>1, <2>2, CallInv DEF pickMedia, Begin, k
<1>2. ASSUME NEW c \in Calls, copyFile(c) PROVE MediaInv'
  <2>1. call[c].root \in Roots /\ call[c].name \in FileNames /\ call[c].data \in Data
    BY <1>0, <1>2 DEF copyFile, MediaCall, Idle
  <2> QED BY <1>0, <1>2, <2>1, TouchInv DEF copyFile, MediaTypeOK
<1>3. ASSUME NEW c \in Calls, renameFile(c) PROVE MediaInv'
  <2>1. call[c].root \in Roots /\ call[c].name \in FileNames /\ call[c].to \in FileNames
    BY <1>0, <1>3 DEF renameFile, MediaCall, Idle
  <2>2. CASE Done(c) /\ UNCHANGED disk
    <3>1. Idle \in MediaCall /\ CallOK(Idle)
      BY DEF MediaCall, CallOK, Idle
    <3> QED BY <1>3, <2>2, <3>1, CallInv DEF Done, renameFile
  <2>3. CASE ~(Done(c) /\ UNCHANGED disk)
    <3> DEFINE r == call[c].root  n == call[c].name  m == call[c].to
    <3>1. /\ disk' = [disk EXCEPT ![r][m] = disk[r][n], ![r][n] = NoFile]
          /\ Touch(c, r, {n, m}) /\ rootDir' = rootDir
      BY <1>3, <2>3 DEF renameFile
    <3>2. disk' \in [Roots -> [FileNames -> Data]]
      BY <1>0, <2>1, <3>1 DEF MediaTypeOK, Data
    <3>3. \A q \in Roots, x \in FileNames : q # r \/ x \notin {n, m} => disk'[q][x] = disk[q][x]
      BY <1>0, <2>1, <3>1 DEF MediaTypeOK
    <3>4. r \in Roots /\ {n, m} \in SUBSET FileNames
      BY <2>1
    <3> HIDE DEF r, n, m
    <3> QED BY <3>1, <3>2, <3>3, <3>4, TouchInv
  <2> QED BY <2>2, <2>3
<1>4. ASSUME NEW c \in Calls, unlinkFile(c) PROVE MediaInv'
  <2>1. call[c].root \in Roots /\ call[c].name \in FileNames /\ NoFile \in Data
    BY <1>0, <1>4 DEF unlinkFile, MediaCall, Idle, Data
  <2> QED BY <1>0, <1>4, <2>1, TouchInv DEF unlinkFile, MediaTypeOK
<1>5. ASSUME NEW c \in Calls, listMedia(c) PROVE MediaInv'
  <2> DEFINE k == [op |-> "list", root |-> rootDir, names |-> Files(rootDir),
                   left |-> Files(rootDir), stale |-> {}]
  <2>1. k \in MediaCall /\ CallOK(k)
    BY <1>0 DEF MediaCall, MediaTypeOK, CallOK, ListOK, Files
  <2>2. call' = [call EXCEPT ![c] = k] /\ disk' = disk /\ rootDir' = rootDir
    BY <1>5 DEF listMedia, Begin
  <2> HIDE DEF k
  <2> QED BY <2>1, <2>2, CallInv
<1>6. ASSUME NEW c \in Calls, statFile(c) PROVE MediaInv'
  <2>1. disk' = disk /\ rootDir' = rootDir
    BY <1>6 DEF statFile
  <2>2. CASE Done(c)
    <3>1. Idle \in MediaCall /\ CallOK(Idle)
      BY DEF MediaCall, CallOK, Idle
    <3> QED BY <2>1, <2>2, <3>1, CallInv DEF Done
  <2>3. CASE ~Done(c)
    <3>1. PICK n \in call[c].left : call' = [call EXCEPT ![c].left = @ \ {n}]
      BY <1>6, <2>3 DEF statFile, Answer
    <3> DEFINE k == [call[c] EXCEPT !.left = @ \ {n}]
    <3>2. call[c].op = "list"
      BY <1>6 DEF statFile
    <3>3. k \in MediaCall /\ CallOK(k)
      BY <1>0, <3>2 DEF MediaCall, CallOK, ListOK, Idle
    <3>4. call' = [call EXCEPT ![c] = k]
      BY <1>0, <3>1 DEF MediaTypeOK
    <3> HIDE DEF k
    <3> QED BY <2>1, <3>3, <3>4, CallInv
  <2> QED BY <2>2, <2>3
<1>7. ASSUME NEW c \in Calls, NEW n \in FileNames, deleteMedia(c, n) PROVE MediaInv'
  <2> DEFINE k == [op |-> "unlink", root |-> rootDir, name |-> n, stale |-> {}]
  <2>1. k \in MediaCall /\ CallOK(k)
    BY <1>0 DEF MediaCall, MediaTypeOK, CallOK
  <2>2. call' = [call EXCEPT ![c] = k] /\ disk' = disk /\ rootDir' = rootDir
    BY <1>7 DEF deleteMedia, Begin
  <2> HIDE DEF k
  <2> QED BY <2>1, <2>2, CallInv
<1>8. ASSUME NEW c \in Calls, NEW n \in FileNames, NEW m \in FileNames, renameMedia(c, n, m)
      PROVE  MediaInv'
  <2> DEFINE k == [op |-> "rename", root |-> rootDir, name |-> n, to |-> m, stale |-> {}]
  <2>1. k \in MediaCall /\ CallOK(k)
    BY <1>0, <1>8 DEF MediaCall, MediaTypeOK, CallOK, RenameOK, Files, renameMedia
  <2>2. call' = [call EXCEPT ![c] = k] /\ disk' = disk /\ rootDir' = rootDir
    BY <1>8 DEF renameMedia, Begin
  <2> HIDE DEF k
  <2> QED BY <2>1, <2>2, CallInv
<1>9. ASSUME NEW r \in Roots, chooseLibraryDir(r) PROVE MediaInv'
  BY <1>9 DEF chooseLibraryDir, MediaTypeOK, CallOK, RenameOK, ListOK, Files
<1>10. CASE UNCHANGED mediaVars
  BY <1>10 DEF mediaVars, MediaTypeOK, CallOK, RenameOK, ListOK, Files
<1> QED BY <1>1, <1>2, <1>3, <1>4, <1>5, <1>6, <1>7, <1>8, <1>9, <1>10 DEF MediaStep

\* A call of the given kind that ends does so in its own step: a step of another
\* call only makes names stale.
LEMMA EndsItself ==
    ASSUME MediaInv, [MediaStep]_mediaVars, NEW c \in Calls, call'[c] = Idle
    PROVE  /\ call[c].op = "rename" => renameFile(c)
           /\ call[c].op = "list" => statFile(c)
<1> SUFFICES ASSUME call[c].op \in {"rename", "list"}
             PROVE  renameFile(c) \/ statFile(c)
  BY DEF renameFile, statFile
<1>0. call \in [Calls -> MediaCall] /\ call[c] \in MediaCall \ {Idle}
  BY DEF MediaInv, MediaTypeOK, Idle
<1>1. call[c].op = "copy" \/ call[c].op = "unlink" \/ call'[c] # call[c]
  BY <1>0
<1>2. ASSUME NEW d \in Calls, NEW r, NEW names, Touch(d, r, names) PROVE d = c
  <2>1. [call[c] EXCEPT !.stale = @ \cup names].op = call[c].op
    BY <1>0 DEF MediaCall
  <2> QED BY <1>0, <1>2, <2>1 DEF Touch, Idle
<1>3. ASSUME NEW d \in Calls, NEW k, Begin(d, k) PROVE FALSE
  BY <1>0, <1>1, <1>3 DEF Begin
<1>4. ASSUME NEW d \in Calls, copyFile(d) \/ unlinkFile(d) PROVE FALSE
  BY <1>2, <1>4 DEF copyFile, unlinkFile
<1>5. ASSUME NEW d \in Calls, renameFile(d) \/ statFile(d) PROVE d = c
  BY <1>0, <1>1, <1>2, <1>5 DEF renameFile, statFile, Done, Answer
<1>6. ASSUME NEW r \in Roots, chooseLibraryDir(r) PROVE FALSE
  BY <1>1, <1>6 DEF chooseLibraryDir
<1> QED
  BY <1>1, <1>3, <1>4, <1>5, <1>6
  DEF MediaStep, pickMedia, deleteMedia, renameMedia, listMedia, mediaVars

LEMMA RenameStep ==
    ASSUME MediaInv, NEW c \in Calls, renameFile(c), disk' # disk
    PROVE  LET r == call[c].root
           IN  /\ disk[r][call[c].to] # NoFile => call[c].to \in call[c].stale
               /\ disk'[r][call[c].to] = disk[r][call[c].name]
               /\ \A n \in FileNames \ {call[c].name, call[c].to} : disk'[r][n] = disk[r][n]
               /\ \A q \in Roots \ {r} : disk'[q] = disk[q]
<1>1. call[c] \in MediaCall /\ CallOK(call[c]) /\ call[c].op = "rename"
  BY DEF MediaInv, MediaTypeOK, renameFile
<1>2. call[c].root \in Roots /\ call[c].name \in FileNames /\ call[c].to \in FileNames
  BY <1>1 DEF MediaCall, Idle
<1>3. RenameOK(call[c])
  BY <1>1 DEF CallOK
<1>4. /\ disk \in [Roots -> [FileNames -> Data]]
      /\ disk' = [disk EXCEPT ![call[c].root][call[c].to] = disk[call[c].root][call[c].name],
                              ![call[c].root][call[c].name] = NoFile]
  BY DEF renameFile, MediaInv, MediaTypeOK
<1> QED BY <1>2, <1>3, <1>4 DEF RenameOK, Files

LEMMA ListStep ==
    ASSUME MediaInv, NEW c \in Calls, statFile(c), call'[c] = Idle
    PROVE  /\ listed'.names \subseteq Files(call[c].root) \cup call[c].stale
           /\ Files(call[c].root) \ call[c].stale \subseteq listed'.names \/ listed'.failed
           /\ listed'.failed => call[c].stale \cap call[c].names # {}
<1>1. call[c] \in MediaCall /\ CallOK(call[c]) /\ call[c].op = "list"
  BY DEF MediaInv, MediaTypeOK, statFile
<1>2. /\ call[c].root \in Roots /\ call[c].names \subseteq FileNames /\ ListOK(call[c])
      /\ call \in [Calls -> MediaCall]
  BY <1>1 DEF MediaCall, Idle, CallOK, MediaInv, MediaTypeOK
<1>3. CASE Answer(c, call[c].names, FALSE)
  BY <1>2, <1>3 DEF Answer, ListOK
<1>4. CASE \E n \in call[c].left : disk[call[c].root][n] = NoFile /\ Answer(c, {}, TRUE)
  BY <1>2, <1>4 DEF Answer, ListOK, Files
<1>5. CASE \E n \in call[c].left : call' = [call EXCEPT ![c].left = @ \ {n}]
  <2>1. call'[c].op = "list"
    BY <1>1, <1>2, <1>5 DEF MediaCall, Idle
  <2> QED BY <2>1 DEF Idle
<1> QED BY <1>3, <1>4, <1>5 DEF statFile

(***************************************************************************)
(* files:renameMedia takes no file away that it could have seen.           *)
(***************************************************************************)
THEOREM RenameTheorem == Spec => RenameKeepsFiles
<1>1. Init => MediaInv
  BY MediaInitInv DEF Init
<1>2. MediaInv /\ [Next]_vars => MediaInv'
  BY MediaStepInv DEF Next, vars, mediaVars
<1>3. MediaInv /\ [Next]_vars =>
        [\A c \in Calls :
            call[c].op = "rename" /\ call'[c] = Idle /\ disk' # disk =>
                LET r == call[c].root
                IN  /\ disk[r][call[c].to] # NoFile => call[c].to \in call[c].stale
                    /\ disk'[r][call[c].to] = disk[r][call[c].name]
                    /\ \A n \in FileNames \ {call[c].name, call[c].to} : disk'[r][n] = disk[r][n]
                    /\ \A q \in Roots \ {r} : disk'[q] = disk[q]]_mediaVars
  <2> SUFFICES ASSUME MediaInv, [Next]_vars, NEW c \in Calls,
                      call[c].op = "rename", call'[c] = Idle, disk' # disk
               PROVE  LET r == call[c].root
                      IN  /\ disk[r][call[c].to] # NoFile => call[c].to \in call[c].stale
                          /\ disk'[r][call[c].to] = disk[r][call[c].name]
                          /\ \A n \in FileNames \ {call[c].name, call[c].to} : disk'[r][n] = disk[r][n]
                          /\ \A q \in Roots \ {r} : disk'[q] = disk[q]
    OBVIOUS
  <2>1. [MediaStep]_mediaVars
    BY DEF Next, vars, mediaVars
  <2> QED BY <2>1, EndsItself, RenameStep
<1> QED BY <1>1, <1>2, <1>3, PTL DEF Spec, RenameKeepsFiles

(***************************************************************************)
(* files:listMedia answers what is there, but for what changed meanwhile.  *)
(***************************************************************************)
THEOREM ListTheorem == Spec => ListIsTrue
<1>1. Init => MediaInv
  BY MediaInitInv DEF Init
<1>2. MediaInv /\ [Next]_vars => MediaInv'
  BY MediaStepInv DEF Next, vars, mediaVars
<1>3. MediaInv /\ [Next]_vars =>
        [\A c \in Calls :
            call[c].op = "list" /\ call'[c] = Idle =>
                /\ listed'.names \subseteq Files(call[c].root) \cup call[c].stale
                /\ Files(call[c].root) \ call[c].stale \subseteq listed'.names \/ listed'.failed
                /\ listed'.failed => call[c].stale \cap call[c].names # {}]_mediaVars
  <2> SUFFICES ASSUME MediaInv, [Next]_vars, NEW c \in Calls, call[c].op = "list", call'[c] = Idle
               PROVE  /\ listed'.names \subseteq Files(call[c].root) \cup call[c].stale
                      /\ Files(call[c].root) \ call[c].stale \subseteq listed'.names \/ listed'.failed
                      /\ listed'.failed => call[c].stale \cap call[c].names # {}
    OBVIOUS
  <2>1. [MediaStep]_mediaVars
    BY DEF Next, vars, mediaVars
  <2> QED BY <2>1, EndsItself, ListStep
<1> QED BY <1>1, <1>2, <1>3, PTL DEF Spec, ListIsTrue

-----------------------------------------------------------------------------
(* Sets of numbers in their order *)

Increasing(q) == \A i, j \in DOMAIN q : i < j => q[i] < q[j]

\* The elements of S up to x.
UpTo(S, x) == {y \in S : y <= x}

LEMMA RankGrows ==
    ASSUME NEW S \in SUBSET Nat, IsFiniteSet(S), NEW x \in S, NEW y \in S, x < y
    PROVE  Cardinality(UpTo(S, x)) < Cardinality(UpTo(S, y))
<1>1. IsFiniteSet(UpTo(S, x)) /\ IsFiniteSet(UpTo(S, y))
  BY FS_Subset DEF UpTo
<1>2. UpTo(S, x) \in SUBSET UpTo(S, y) /\ y \in UpTo(S, y) /\ y \notin UpTo(S, x)
  <2>1. \A z \in S : z \in Nat
    OBVIOUS
  <2>2. \A z \in S : z <= x => z <= y
    BY <2>1
  <2>3. y <= y /\ ~(y <= x)
    BY <2>1
  <2> QED BY <2>2, <2>3 DEF UpTo
<1>3. Cardinality(UpTo(S, x)) <= Cardinality(UpTo(S, y)) /\ Cardinality(UpTo(S, x)) # Cardinality(UpTo(S, y))
  BY <1>1, <1>2, FS_Subset
<1> QED BY <1>1, <1>3, FS_CardinalityType

LEMMA RankType ==
    ASSUME NEW S \in SUBSET Nat, IsFiniteSet(S), NEW x \in S
    PROVE  Cardinality(UpTo(S, x)) \in 1..Cardinality(S)
<1>1. /\ IsFiniteSet(UpTo(S, x)) /\ Cardinality(UpTo(S, x)) <= Cardinality(S) /\ x \in UpTo(S, x)
  BY FS_Subset DEF UpTo
<1>2. Cardinality(UpTo(S, x)) # 0
  BY <1>1, FS_EmptySet
<1> QED BY <1>1, <1>2, FS_CardinalityType

\* An increasing sequence with values in S, as long as S is large, lists S.
LEMMA IncreasingOnto ==
    ASSUME NEW S \in SUBSET Nat, IsFiniteSet(S), NEW q \in [1..Cardinality(S) -> S], Increasing(q)
    PROVE  q \in Bijection(1..Cardinality(S), S)
<1> DEFINE n == Cardinality(S)
<1>1. n \in Nat /\ IsFiniteSet(1..n) /\ Cardinality(1..n) = n
  BY FS_CardinalityType, FS_Interval
<1>2. q \in Injection(1..n, S)
  <2>1. ASSUME NEW i \in 1..n, NEW j \in 1..n, q[i] = q[j] PROVE i = j
    <3>0. (\A z \in S : z \in Nat) /\ q[i] \in S /\ q[j] \in S
      OBVIOUS
    <3>1. q[i] \in Nat /\ q[j] \in Nat
      BY <3>0
    <3>2. ~(i < j) /\ ~(j < i)
      BY <2>1, <3>1 DEF Increasing
    <3>3. i \in Nat /\ j \in Nat
      BY <1>1
    <3> QED BY <3>2, <3>3
  <2> QED BY <2>1 DEF Injection, IsInjective
<1>3. q \in Surjection(1..n, S)
  BY <1>1, <1>2, FS_Injection
<1> QED BY <1>2, <1>3 DEF Bijection

LEMMA InOrderSorts ==
    ASSUME NEW S \in SUBSET Nat, IsFiniteSet(S)
    PROVE  InOrder(S) \in Bijection(1..Cardinality(S), S) /\ Increasing(InOrder(S))
<1> DEFINE n == Cardinality(S)
           rank == [x \in S |-> Cardinality(UpTo(S, x))]
           q == [k \in 1..n |-> CHOOSE x \in S : rank[x] = k]
<1>1. n \in Nat /\ IsFiniteSet(1..n) /\ Cardinality(1..n) = n
  BY FS_CardinalityType, FS_Interval
<1>2. rank \in [S -> 1..n]
  BY RankType
<1>3. \A x, y \in S : x < y => rank[x] < rank[y]
  BY RankGrows
<1> HIDE DEF rank
<1>4. rank \in Injection(S, 1..n)
  BY <1>1, <1>2, <1>3 DEF Injection, IsInjective
<1>5. rank \in Surjection(S, 1..n)
  BY <1>1, <1>4, FS_Injection
<1>6. \A k \in 1..n : q[k] \in S /\ rank[q[k]] = k
  BY <1>5 DEF Surjection
<1>7. q \in [1..n -> S]
  BY <1>6
<1> HIDE DEF q
<1>8. Increasing(q)
  <2> SUFFICES ASSUME NEW i \in 1..n, NEW j \in 1..n, i < j PROVE q[i] < q[j]
    BY <1>7 DEF Increasing
  <2>1. q[i] \in S /\ q[j] \in S /\ rank[q[i]] = i /\ rank[q[j]] = j
    BY <1>6
  <2>0. \A z \in S : z \in Nat
    OBVIOUS
  <2>2. q[i] \in Nat /\ q[j] \in Nat
    BY <2>0, <2>1
  <2>5. i \in Nat /\ j \in Nat
    BY <1>1
  <2>3. ~(q[j] < q[i])
    <3>1. q[j] < q[i] => j < i
      BY <1>3, <2>1
    <3> QED BY <2>5, <3>1
  <2>4. q[i] # q[j]
    BY <2>1, <2>5
  <2> QED BY <2>2, <2>3, <2>4
<1>9. InOrder(S) \in [1..n -> S] /\ Increasing(InOrder(S))
  BY <1>7, <1>8 DEF InOrder, Increasing
<1> QED BY <1>9, IncreasingOnto

\* There is only one.
LEMMA InOrderUnique ==
    ASSUME NEW S \in SUBSET Nat, IsFiniteSet(S), NEW q \in [1..Cardinality(S) -> S], Increasing(q)
    PROVE  q = InOrder(S)
<1> DEFINE n == Cardinality(S)
<1>1. n \in Nat
  BY FS_CardinalityType
<1>2. ASSUME NEW p \in [1..n -> S], Increasing(p), NEW k \in 1..n
      PROVE  Cardinality(UpTo(S, p[k])) = k
  <2>1. p \in Bijection(1..n, S)
    BY <1>2, IncreasingOnto
  <2> DEFINE f == [i \in 1..k |-> p[i]]
  <2>2. \A i \in 1..n : p[i] <= p[k] <=> i <= k
    <3> SUFFICES ASSUME NEW i \in 1..n PROVE p[i] <= p[k] <=> i <= k
      OBVIOUS
    <3>0. (\A z \in S : z \in Nat) /\ p[i] \in S /\ p[k] \in S
      BY <1>2
    <3>1. p[i] \in Nat /\ p[k] \in Nat
      BY <3>0
    <3>4. i \in Nat /\ k \in Nat
      BY <1>1
    <3>2. (i < k => p[i] < p[k]) /\ (k < i => p[k] < p[i])
      BY <1>2 DEF Increasing
    <3>3. i = k => p[i] = p[k]
      OBVIOUS
    <3> QED BY <3>1, <3>2, <3>3, <3>4
  <2>3. \A y \in UpTo(S, p[k]) : \E i \in 1..k : p[i] = y
    BY <1>1, <2>1, <2>2 DEF UpTo, Bijection, Surjection
  <2>4. f \in [1..k -> UpTo(S, p[k])]
    BY <1>1, <1>2, <2>2 DEF UpTo
  <2>5. f \in Bijection(1..k, UpTo(S, p[k]))
    <3>1. \A i, j \in 1..k : f[i] = f[j] => i = j
      BY <1>1, <1>2, <2>1 DEF Bijection, Injection, IsInjective
    <3> QED BY <2>3, <2>4, <3>1 DEF Bijection, Injection, Surjection, IsInjective
  <2>6. IsFiniteSet(1..k) /\ Cardinality(1..k) = k
    BY <1>1, FS_Interval
  <2> QED BY <2>5, <2>6, FS_Bijection DEF ExistsBijection
<1>3. InOrder(S) \in [1..n -> S] /\ Increasing(InOrder(S))
  BY InOrderSorts DEF Bijection, Injection
<1>4. ASSUME NEW k \in 1..n PROVE q[k] = InOrder(S)[k]
  <2>1. Cardinality(UpTo(S, q[k])) = Cardinality(UpTo(S, InOrder(S)[k]))
    BY <1>2, <1>3
  <2>2. ~(q[k] < InOrder(S)[k]) /\ ~(InOrder(S)[k] < q[k])
    <3>1. q[k] \in S /\ InOrder(S)[k] \in S
      BY <1>3
    <3> DEFINE a == q[k]  b == InOrder(S)[k]
    <3> HIDE DEF a, b
    <3>2. Cardinality(UpTo(S, a)) \in 1..n /\ Cardinality(UpTo(S, b)) \in 1..n
      BY <3>1, RankType DEF a, b
    <3>3. a < b => Cardinality(UpTo(S, a)) < Cardinality(UpTo(S, b))
      BY <3>1, RankGrows DEF a, b
    <3>4. b < a => Cardinality(UpTo(S, b)) < Cardinality(UpTo(S, a))
      BY <3>1, RankGrows DEF a, b
    <3>5. Cardinality(UpTo(S, a)) = Cardinality(UpTo(S, b))
      BY <2>1 DEF a, b
    <3>6. ~(a < b) /\ ~(b < a)
      BY <1>1, <3>2, <3>3, <3>4, <3>5
    <3> QED BY <3>6 DEF a, b
  <2>3. q[k] \in Nat /\ InOrder(S)[k] \in Nat
    BY <1>3
  <2> QED BY <2>2, <2>3
<1>5. q \in [1..n -> S] /\ \A k \in 1..n : q[k] = InOrder(S)[k]
  BY <1>4
<1>6. q = [k \in 1..n |-> q[k]] /\ InOrder(S) = [k \in 1..n |-> InOrder(S)[k]]
  BY <1>3, <1>5
<1> QED BY <1>4, <1>6

-----------------------------------------------------------------------------
(* The blocks of songs and the items of plans *)

LEMMA NumberedFacts ==
    ASSUME NEW T, NEW b \in Numbered(T)
    PROVE  /\ DOMAIN b \in SUBSET Nat /\ DOMAIN b \subseteq 0..MaxBlocks /\ IsFiniteSet(DOMAIN b)
           /\ Cardinality(DOMAIN b) \in Nat /\ Cardinality(DOMAIN b) <= MaxBlocks
           /\ \A k \in DOMAIN b : b[k] \in T
<1>1. PICK D \in SUBSET (0..MaxBlocks) : Cardinality(D) <= MaxBlocks /\ b \in [D -> T]
  BY DEF Numbered
<1>2. MaxBlocks \in Nat /\ IsFiniteSet(0..MaxBlocks)
  BY LibraryAssumption, FS_Interval
<1>3. IsFiniteSet(D)
  BY <1>2, FS_Subset
<1>4. Cardinality(D) \in Nat
  BY <1>3, FS_CardinalityType
<1>5. DOMAIN b = D /\ D \in SUBSET Nat
  BY <1>1, <1>2
<1> QED BY <1>1, <1>3, <1>4, <1>5

LEMMA NumberedIntro ==
    ASSUME NEW T, NEW D \in SUBSET (0..MaxBlocks), Cardinality(D) <= MaxBlocks, NEW b \in [D -> T]
    PROVE  b \in Numbered(T)
BY DEF Numbered

LEMMA InOrderOf ==
    ASSUME NEW T, NEW b \in Numbered(T)
    PROVE  LET n == Cardinality(DOMAIN b)
               q == InOrder(DOMAIN b)
           IN  /\ n \in Nat /\ n <= MaxBlocks /\ q \in [1..n -> DOMAIN b] /\ Increasing(q)
               /\ \A k \in 1..n : q[k] \in Nat /\ q[k] \in 0..MaxBlocks /\ (q[k] = 0 => k = 1)
               /\ \A d \in DOMAIN b : \E k \in 1..n : q[k] = d
<1> DEFINE n == Cardinality(DOMAIN b)
           q == InOrder(DOMAIN b)
<1>1. /\ DOMAIN b \in SUBSET Nat /\ DOMAIN b \subseteq 0..MaxBlocks /\ IsFiniteSet(DOMAIN b)
      /\ n \in Nat /\ n <= MaxBlocks
  BY NumberedFacts
<1>2. q \in Bijection(1..n, DOMAIN b) /\ Increasing(q)
  BY <1>1, InOrderSorts
<1>3. q \in [1..n -> DOMAIN b] /\ \A d \in DOMAIN b : \E k \in 1..n : q[k] = d
  BY <1>2 DEF Bijection, Injection, Surjection
<1>4. ASSUME NEW k \in 1..n PROVE q[k] \in Nat /\ q[k] \in 0..MaxBlocks /\ (q[k] = 0 => k = 1)
  <2>1. q[k] \in DOMAIN b /\ q[1] \in DOMAIN b
    BY <1>1, <1>3
  <2>2. q[k] \in Nat /\ q[k] \in 0..MaxBlocks /\ q[1] \in Nat
    BY <1>1, <2>1
  <2>3. 1 \in 1..n /\ k \in Nat /\ k >= 1
    BY <1>1
  <2>4. 1 < k => q[1] < q[k]
    BY <1>2, <1>3, <2>3 DEF Increasing
  <2> QED BY <2>2, <2>3, <2>4
<1> HIDE DEF n, q
<1>5. /\ n \in Nat /\ n <= MaxBlocks /\ q \in [1..n -> DOMAIN b] /\ Increasing(q)
      /\ \A k \in 1..n : q[k] \in Nat /\ q[k] \in 0..MaxBlocks /\ (q[k] = 0 => k = 1)
      /\ \A d \in DOMAIN b : \E k \in 1..n : q[k] = d
  BY <1>1, <1>2, <1>3, <1>4
<1> QED BY <1>5 DEF n, q

LEMMA RenumberType ==
    ASSUME NEW T, NEW b \in Numbered(T)
    PROVE  /\ Renumber(b) \in [1..Cardinality(DOMAIN b) -> T] /\ Renumber(b) \in Numbered(T)
           /\ \A k \in 1..Cardinality(DOMAIN b) : Renumber(b)[k] = b[InOrder(DOMAIN b)[k]]
<1> DEFINE n == Cardinality(DOMAIN b)
           q == InOrder(DOMAIN b)
<1>1. n \in Nat /\ n <= MaxBlocks /\ q \in [1..n -> DOMAIN b]
  BY InOrderOf
<1>2. \A k \in DOMAIN b : b[k] \in T
  BY NumberedFacts
<1>3. Renumber(b) = [k \in 1..n |-> b[q[k]]]
  BY <1>1 DEF Renumber
<1>4. Renumber(b) \in [1..n -> T]
  BY <1>1, <1>2, <1>3
<1>5. 1..n \in SUBSET (0..MaxBlocks) /\ Cardinality(1..n) <= MaxBlocks
  <2>1. Cardinality(1..n) = n
    BY <1>1, FS_Interval
  <2>2. 1..n \subseteq 0..MaxBlocks
    BY <1>1, LibraryAssumption
  <2> QED BY <1>1, <2>1, <2>2
<1>6. Renumber(b) \in Numbered(T)
  BY <1>4, <1>5, NumberedIntro
<1> QED BY <1>3, <1>4, <1>6

\* asPositiveInt only moves a block that is numbered 0, the first one, to 1.
LEMMA ImportedOrdersAre ==
    ASSUME NEW T, NEW b \in Numbered(T)
    PROVE  LET n == Cardinality(DOMAIN b)
               q == InOrder(DOMAIN b)
           IN  /\ ImportedOrders(b) \in [1..n -> 1..MaxBlocks]
               /\ \A k \in 1..n : ImportedOrders(b)[k] = IF q[k] = 0 THEN 1 ELSE q[k]
<1> DEFINE n == Cardinality(DOMAIN b)
           q == InOrder(DOMAIN b)
<1>1. /\ n \in Nat /\ n <= MaxBlocks /\ q \in [1..n -> DOMAIN b]
      /\ \A k \in 1..n : q[k] \in Nat /\ q[k] \in 0..MaxBlocks /\ (q[k] = 0 => k = 1)
  BY InOrderOf
<1>2. ImportedOrders(b) = [k \in 1..n |-> IF q[k] > 0 THEN q[k] ELSE k]
  BY <1>1 DEF ImportedOrders, asPositiveInt
<1> HIDE DEF n, q
<1>3. MaxBlocks \in Nat \ {0}
  BY LibraryAssumption
<1>4. ASSUME NEW k \in 1..n
      PROVE  /\ (IF q[k] > 0 THEN q[k] ELSE k) = IF q[k] = 0 THEN 1 ELSE q[k]
             /\ (IF q[k] = 0 THEN 1 ELSE q[k]) \in 1..MaxBlocks
  BY <1>1, <1>3
<1>5. /\ ImportedOrders(b) \in [1..n -> 1..MaxBlocks]
      /\ \A k \in 1..n : ImportedOrders(b)[k] = IF q[k] = 0 THEN 1 ELSE q[k]
  BY <1>2, <1>4
<1> QED BY <1>5 DEF n, q

LEMMA ImportedType ==
    ASSUME NEW T, NEW b \in Numbered(T)
    PROVE  ImportedRows(b) \in Numbered(T)
<1> DEFINE n == Cardinality(DOMAIN b)
           o == ImportedOrders(b)
           all == [m \in Range(o) |-> Renumber(b)[CHOOSE k \in DOMAIN o : o[k] = m]]
<1>1. o \in [1..n -> 1..MaxBlocks] /\ n \in Nat /\ n <= MaxBlocks /\ MaxBlocks \in Nat
  BY ImportedOrdersAre, InOrderOf, LibraryAssumption
<1>2. Renumber(b) \in [1..n -> T]
  BY RenumberType
<1> HIDE DEF n, o
<1>3. Range(o) \in SUBSET (0..MaxBlocks)
  BY <1>1 DEF Range
<1>4. o \in Surjection(1..n, Range(o))
  BY <1>1 DEF Range, Surjection
<1>5. Cardinality(Range(o)) <= MaxBlocks
  <2>1. IsFiniteSet(1..n) /\ Cardinality(1..n) = n
    BY <1>1, FS_Interval
  <2>2. IsFiniteSet(Range(o)) /\ Cardinality(Range(o)) <= n
    BY <1>4, <2>1, FS_Surjection
  <2> QED BY <1>1, <2>2, FS_CardinalityType
<1>6. all \in [Range(o) -> T]
  <2>1. ASSUME NEW m \in Range(o) PROVE (CHOOSE k \in DOMAIN o : o[k] = m) \in 1..n
    BY <1>1 DEF Range
  <2> QED BY <1>2, <2>1
<1>7. all \in Numbered(T)
  BY <1>3, <1>5, <1>6, NumberedIntro
<1>8. ImportedRows(b) = all
  BY DEF ImportedRows, o
<1> QED BY <1>7, <1>8

LEMMA NormalizedType == ASSUME NEW s \in Song PROVE normalizeSong(s) \in Row
<1>1. ImportedRows(s.blocks) \in Blocks /\ s.title \in Titles
  BY ImportedType DEF Song, Blocks
<1> QED BY <1>1 DEF normalizeSong, New, Row

LEMMA UnlinkedType ==
    ASSUME NEW items \in Items
    PROVE  /\ Unlinked(items) \in Items /\ DOMAIN Unlinked(items) = DOMAIN items
<1> DEFINE Item == [text : BlockText, song : SongIds \cup {None}]
<1>1. PICK D \in SUBSET (0..MaxBlocks) : Cardinality(D) <= MaxBlocks /\ items \in [D -> Item]
  BY DEF Items, Numbered
<1>2. \A x \in Item : [x EXCEPT !.song = None] \in Item
  OBVIOUS
<1>3. Unlinked(items) = [n \in D |-> [items[n] EXCEPT !.song = None]]
  BY <1>1 DEF Unlinked
<1> HIDE DEF Item
<1>4. Unlinked(items) \in [D -> Item]
  BY <1>1, <1>2, <1>3
<1>5. Unlinked(items) \in Numbered(Item)
  BY <1>1, <1>4, NumberedIntro
<1> QED BY <1>1, <1>3, <1>5 DEF Items, Item

LEMMA PlanType == ASSUME NEW items \in Items PROVE normalizePlan(items) \in Plan
<1>1. ImportedRows(Unlinked(items)) \in Items
  BY UnlinkedType, ImportedType DEF Items
<1> QED BY <1>1 DEF normalizePlan, Plan

\* Rows are refused only if two of them are numbered 0 and 1.
LEMMA Refused ==
    ASSUME NEW T, NEW b \in Numbered(T), ~Accepted(b)
    PROVE  ZeroAndOne(b)
<1> DEFINE n == Cardinality(DOMAIN b)
           q == InOrder(DOMAIN b)
           o == ImportedOrders(b)
<1>1. o \in [1..n -> 1..MaxBlocks] /\ \A k \in 1..n : o[k] = IF q[k] = 0 THEN 1 ELSE q[k]
  BY ImportedOrdersAre
<1>2. /\ n \in Nat /\ q \in [1..n -> DOMAIN b] /\ Increasing(q)
      /\ \A k \in 1..n : q[k] \in Nat /\ (q[k] = 0 => k = 1)
  BY InOrderOf
<1>3. PICK i \in 1..n, j \in 1..n : o[i] = o[j] /\ i # j
  BY <1>1 DEF Accepted, IsInjective
<1> HIDE DEF n, q, o
<1>4. q[i] # q[j]
  <2>1. i \in Nat /\ j \in Nat /\ q[i] \in Nat /\ q[j] \in Nat
    BY <1>2
  <2>2. (i < j => q[i] < q[j]) /\ (j < i => q[j] < q[i])
    BY <1>2 DEF Increasing
  <2> QED BY <1>3, <2>1, <2>2
<1>5. (q[i] = 0 /\ q[j] = 1) \/ (q[i] = 1 /\ q[j] = 0)
  BY <1>1, <1>3, <1>4
<1>6. q[i] \in DOMAIN b /\ q[j] \in DOMAIN b
  BY <1>2
<1> QED BY <1>5, <1>6 DEF ZeroAndOne

\* Rows that are accepted keep their order.
LEMMA AcceptedRows ==
    ASSUME NEW T, NEW b \in Numbered(T), Accepted(b)
    PROVE  Renumber(ImportedRows(b)) = Renumber(b)
<1> DEFINE n == Cardinality(DOMAIN b)
           q == InOrder(DOMAIN b)
           o == ImportedOrders(b)
           all == [m \in Range(o) |-> Renumber(b)[CHOOSE k \in DOMAIN o : o[k] = m]]
<1>1. o \in [1..n -> 1..MaxBlocks] /\ \A k \in 1..n : o[k] = IF q[k] = 0 THEN 1 ELSE q[k]
  BY ImportedOrdersAre
<1>2. /\ n \in Nat /\ q \in [1..n -> DOMAIN b] /\ Increasing(q)
      /\ \A k \in 1..n : q[k] \in Nat /\ (q[k] = 0 => k = 1)
  BY InOrderOf
<1>3. Renumber(b) \in [1..n -> T]
  BY RenumberType
<1>4. \A i, j \in 1..n : o[i] = o[j] => i = j
  BY <1>1 DEF Accepted, IsInjective
<1>5. all = ImportedRows(b)
  BY DEF ImportedRows
<1> HIDE DEF n, q, o
<1>6. Increasing(o)
  <2> SUFFICES ASSUME NEW i \in 1..n, NEW j \in 1..n, i < j PROVE o[i] < o[j]
    BY <1>1 DEF Increasing
  <2>1. q[i] < q[j]
    BY <1>2 DEF Increasing
  <2>2. o[i] # o[j]
    <3>1. i # j
      BY <1>2
    <3> QED BY <1>4, <3>1
  <2>3. q[i] \in Nat /\ q[j] \in Nat
    BY <1>2
  <2>4. o[i] = (IF q[i] = 0 THEN 1 ELSE q[i]) /\ o[j] = (IF q[j] = 0 THEN 1 ELSE q[j])
    BY <1>1
  <2> QED BY <2>1, <2>2, <2>3, <2>4
<1> DEFINE R == Range(o)
<1>7. R \in SUBSET Nat /\ o \in [1..n -> R] /\ \A m \in R : \E k \in 1..n : o[k] = m
  BY <1>1 DEF Range
<1>8. o \in Bijection(1..n, R)
  BY <1>4, <1>7 DEF Bijection, Injection, Surjection, IsInjective
<1>9. IsFiniteSet(R) /\ Cardinality(R) = n
  <2>1. IsFiniteSet(1..n) /\ Cardinality(1..n) = n
    BY <1>2, FS_Interval
  <2> QED BY <1>8, <2>1, FS_Bijection DEF ExistsBijection
<1>10. o = InOrder(R)
  BY <1>6, <1>7, <1>9, InOrderUnique
<1>11. DOMAIN all = R
  OBVIOUS
<1>12. ASSUME NEW k \in 1..n PROVE all[o[k]] = Renumber(b)[k]
  <2>1. (CHOOSE i \in DOMAIN o : o[i] = o[k]) = k
    BY <1>1, <1>4
  <2> QED BY <1>7, <2>1
<1> HIDE DEF all, R
<1>13. Renumber(all) = [k \in 1..n |-> all[o[k]]]
  BY <1>1, <1>10, <1>11 DEF Renumber
<1>14. Renumber(all) = Renumber(b)
  BY <1>3, <1>12, <1>13
<1> QED BY <1>5, <1>14

\* A song that is accepted keeps its title and its blocks in their order, and a plan
\* its items.
LEMMA AcceptedTexts ==
    ASSUME NEW s \in Song, Accepted(s.blocks)
    PROVE  Texts(normalizeSong(s)) = Texts(s)
<1>1. Renumber(ImportedRows(s.blocks)) = Renumber(s.blocks)
  BY AcceptedRows DEF Song, Blocks
<1> QED BY <1>1 DEF Texts, normalizeSong, New

LEMMA SameNumbers ==
    ASSUME NEW items \in Items
    PROVE  Accepted(Unlinked(items)) <=> Accepted(items)
<1>1. ImportedOrders(Unlinked(items)) = ImportedOrders(items)
  BY UnlinkedType DEF ImportedOrders
<1> QED BY <1>1 DEF Accepted

LEMMA AcceptedPlan ==
    ASSUME NEW items \in Items, Accepted(items)
    PROVE  Renumber(normalizePlan(items).items) = Renumber(Unlinked(items))
<1>1. Renumber(ImportedRows(Unlinked(items))) = Renumber(Unlinked(items))
  BY UnlinkedType, SameNumbers, AcceptedRows DEF Items
<1> QED BY <1>1 DEF normalizePlan

-----------------------------------------------------------------------------
(* Songs, their copies and the imports *)

FileSongs == UNION {[D -> Song] : D \in SUBSET SongIds}

FilePlans == UNION {[D -> Items] : D \in SUBSET Dates}

File == [songs : FileSongs, plans : FilePlans]

Import ==
    [stage : {"idle", "REPLACE", "replace", "STRICT", "ENTITY", "replaced", "merged", "rolledBack",
              "failed"},
     songs : FileSongs, plans : FilePlans, todo : SUBSET SongIds, days : SUBSET Dates]

LibTypeOK ==
    /\ songs \in [SongIds -> Row \cup {None}]
    /\ plans \in [Dates -> Plan \cup {None}]
    /\ copies \in [SongIds -> Song \cup {None, Torn}]
    /\ jobs \in [Slots -> Job \cup {None}]
    /\ want \in [SongIds -> [copy : Song \cup {None}, sure : BOOLEAN]]
    /\ file \in File \cup {None}
    /\ imp \in Import
    /\ backup \in [songs : [SongIds -> Row \cup {None}], late : SUBSET SongIds]

(***************************************************************************)
(* The copy of a song whose last edit was alone and did not fail: it is    *)
(* what that edit meant, or the one job of the song writes that.           *)
(***************************************************************************)
CopyOK(i) ==
    want[i].sure =>
        \/ JobsOf(i) = {} /\ copies[i] = want[i].copy
        \/ \E n \in Slots : JobsOf(i) = {n} /\ jobs[n].to = want[i].copy

\* Between the snapshot and the transaction of a REPLACE.
BackupOK ==
    imp.stage = "replace" => \A i \in SongIds \ backup.late : backup.songs[i] = songs[i]

TodoOK == imp.todo \subseteq DOMAIN imp.songs /\ imp.days \subseteq DOMAIN imp.plans

LibInv == LibTypeOK /\ (\A i \in SongIds : CopyOK(i)) /\ BackupOK /\ TodoOK

LEMMA NoImportType == NoImport \in Import
<1>1. <<>> \in [{} -> Song] /\ <<>> \in [{} -> Items]
  OBVIOUS
<1>2. <<>> \in FileSongs /\ <<>> \in FilePlans
  BY <1>1 DEF FileSongs, FilePlans
<1> QED BY <1>2 DEF NoImport, Import

LEMMA LibInitInv == LibInit => LibInv
<1> SUFFICES ASSUME LibInit PROVE LibInv
  OBVIOUS
<1>1. NoImport \in Import
  BY NoImportType
<1>2. \A i \in SongIds : CopyOK(i)
  BY DEF LibInit, CopyOK, JobsOf
<1>3. LibTypeOK
  BY <1>1 DEF LibInit, LibTypeOK
<1> QED BY <1>1, <1>2, <1>3 DEF LibInv, BackupOK, TodoOK, LibInit, NoImport

\* The rest of the state, when no copy is started, written or removed.
LEMMA CopiesKept ==
    ASSUME \A i \in SongIds : CopyOK(i), UNCHANGED <<copies, jobs, want>>
    PROVE  \A i \in SongIds : CopyOK(i)'
<1>1. \A i : JobsOf(i)' = JobsOf(i)
  BY DEF JobsOf
<1> QED BY <1>1 DEF CopyOK

\* A copy is started: the last edit of the song means it, alone if no job of the
\* song is under way.
LEMMA StartCopyInv ==
    ASSUME LibInv, NEW i \in SongIds, NEW content \in Song \cup {None}, StartCopy(i, content),
           copies' = copies
    PROVE  /\ jobs' \in [Slots -> Job \cup {None}]
           /\ want' \in [SongIds -> [copy : Song \cup {None}, sure : BOOLEAN]]
           /\ \A j \in SongIds : CopyOK(j)'
<1> DEFINE k == [song |-> i, to |-> content, stage |-> "dir"]
<1>1. PICK n \in Slots : jobs[n] = None /\ jobs' = [jobs EXCEPT ![n] = k]
  BY DEF StartCopy
<1>2. /\ jobs \in [Slots -> Job \cup {None}]
      /\ want \in [SongIds -> [copy : Song \cup {None}, sure : BOOLEAN]]
      /\ want' = [want EXCEPT ![i] = [copy |-> content, sure |-> JobsOf(i) = {}]]
  BY DEF LibInv, LibTypeOK, StartCopy
<1>3. k \in Job /\ k # None /\ k.song = i /\ k.to = content
  BY LibraryAssumption DEF Job
<1> HIDE DEF k
<1>4. /\ jobs' \in [Slots -> Job \cup {None}]
      /\ want' \in [SongIds -> [copy : Song \cup {None}, sure : BOOLEAN]]
  BY <1>1, <1>2, <1>3
<1>5. JobsOf(i)' = JobsOf(i) \cup {n}
  BY <1>1, <1>2, <1>3 DEF JobsOf
<1>6. \A j \in SongIds \ {i} : JobsOf(j)' = JobsOf(j) /\ n \notin JobsOf(j)
  BY <1>1, <1>2, <1>3 DEF JobsOf
<1>7. CopyOK(i)'
  <2>1. want'[i] = [copy |-> content, sure |-> JobsOf(i) = {}] /\ jobs'[n].to = content
    BY <1>1, <1>2, <1>3
  <2>2. want'[i].sure => JobsOf(i) = {}
    <3>1. [copy |-> content, sure |-> JobsOf(i) = {}].sure <=> JobsOf(i) = {}
      BY Zenon
    <3> QED BY <2>1, <3>1, Zenon
  <2>3. want'[i].copy = content
    BY <2>1
  <2>4. want'[i].sure => JobsOf(i)' = {n}
    BY <1>5, <2>2
  <2> QED BY <2>1, <2>3, <2>4 DEF CopyOK
<1>8. ASSUME NEW j \in SongIds \ {i} PROVE CopyOK(j)'
  <2>1. want'[j] = want[j] /\ CopyOK(j) /\ \A m \in Slots \ {n} : jobs'[m] = jobs[m]
    BY <1>1, <1>2 DEF LibInv
  <2> QED BY <1>6, <2>1 DEF CopyOK
<1> QED BY <1>4, <1>7, <1>8

\* A job goes on, ends with the copy that it was for, or fails.
LEMMA JobInv ==
    ASSUME LibInv, NEW n \in Slots, writeSongJsonAutoSync(n) \/ deleteSongJsonAutoSync(n)
    PROVE  LibInv'
<1>0. PICK i : i = jobs[n].song
  OBVIOUS
<1>1. /\ jobs[n] \in Job /\ i \in SongIds /\ n \in JobsOf(i) /\ jobs[n].to \in Song \cup {None}
      /\ jobs \in [Slots -> Job \cup {None}] /\ copies \in [SongIds -> Song \cup {None, Torn}]
      /\ want \in [SongIds -> [copy : Song \cup {None}, sure : BOOLEAN]]
      /\ \A j \in SongIds : CopyOK(j)
      /\ UNCHANGED <<songs, plans, file, imp, backup>>
  BY <1>0, LibraryAssumption
  DEF LibInv, LibTypeOK, writeSongJsonAutoSync, deleteSongJsonAutoSync, JobsOf, Job
<1>2. SUFFICES /\ jobs' \in [Slots -> Job \cup {None}]
               /\ copies' \in [SongIds -> Song \cup {None, Torn}]
               /\ want' \in [SongIds -> [copy : Song \cup {None}, sure : BOOLEAN]]
               /\ \A j \in SongIds : CopyOK(j)'
  BY <1>1 DEF LibInv, LibTypeOK, BackupOK, TodoOK
<1>3. ASSUME jobs' = [jobs EXCEPT ![n] = None],
             \/ want' = want /\ copies' = [copies EXCEPT ![i] = jobs[n].to]
             \/ copies' = copies /\ want' = [want EXCEPT ![i].sure = FALSE]
      PROVE  \A j \in SongIds \ {i} : CopyOK(j)'
  <2>1. \A j \in SongIds : JobsOf(j)' = JobsOf(j) \ {n}
    BY <1>1, <1>3 DEF JobsOf
  <2>2. ASSUME NEW j \in SongIds \ {i} PROVE CopyOK(j)'
    <3>1. n \notin JobsOf(j)
      BY <1>0 DEF JobsOf
    <3>2. copies'[j] = copies[j] /\ want'[j] = want[j]
      <4>1. CASE want' = want /\ copies' = [copies EXCEPT ![i] = jobs[n].to]
        BY <1>1, <4>1
      <4>2. CASE copies' = copies /\ want' = [want EXCEPT ![i].sure = FALSE]
        BY <1>1, <4>2
      <4> QED BY <1>3, <4>1, <4>2
    <3>3. JobsOf(j)' = JobsOf(j) \ {n} /\ JobsOf(j) \ {n} = JobsOf(j)
      BY <2>1, <3>1
    <3>4. CopyOK(j)
      BY <1>1
    <3>5. \A m \in Slots \ {n} : jobs'[m] = jobs[m]
      BY <1>1, <1>3
    <3>6. \A m \in Slots : JobsOf(j) = {m} => jobs'[m] = jobs[m]
      BY <3>1, <3>5
    <3> QED BY <3>2, <3>6, <3>3, <3>4 DEF CopyOK
  <2> QED BY <2>2
<1>4. CASE EndCopy(n, FALSE)
  <2>0. /\ jobs' = [jobs EXCEPT ![n] = None]
        /\ UNCHANGED want /\ copies' = [copies EXCEPT ![i] = jobs[n].to]
    BY <1>0, <1>4 DEF EndCopy
  <2>1. JobsOf(i)' = JobsOf(i) \ {n} /\ want'[i] = want[i] /\ copies'[i] = jobs[n].to
    BY <1>1, <2>0 DEF JobsOf
  <2>2. CopyOK(i)'
    <3>1. want[i].sure => JobsOf(i) = {n} /\ jobs[n].to = want[i].copy
      BY <1>1 DEF CopyOK
    <3>2. want[i].sure => JobsOf(i)' = {} /\ copies'[i] = want'[i].copy
      BY <2>1, <3>1
    <3> QED BY <2>1, <3>2 DEF CopyOK
  <2>3. \A j \in SongIds \ {i} : CopyOK(j)'
    BY <1>3, <2>0
  <2> QED BY <1>1, <2>0, <2>2, <2>3
<1>5. CASE EndCopy(n, TRUE)
  <2>0. /\ jobs' = [jobs EXCEPT ![n] = None]
        /\ UNCHANGED copies /\ want' = [want EXCEPT ![i].sure = FALSE]
    BY <1>0, <1>5 DEF EndCopy
  <2>1. want' \in [SongIds -> [copy : Song \cup {None}, sure : BOOLEAN]] /\ ~want'[i].sure
    BY <1>1, <2>0
  <2>2. CopyOK(i)'
    BY <2>1 DEF CopyOK
  <2>3. \A j \in SongIds \ {i} : CopyOK(j)'
    BY <1>3, <2>0
  <2> QED BY <1>1, <2>0, <2>1, <2>2, <2>3
<1>6. CASE /\ jobs' = [jobs EXCEPT ![n].stage = "write"]
           /\ copies' = [copies EXCEPT ![i] = Torn]
           /\ UNCHANGED want
  <2>1. jobs'[n] \in Job /\ jobs'[n].song = i /\ jobs'[n].to = jobs[n].to /\ jobs'[n] # None
    BY <1>0, <1>1, <1>6, LibraryAssumption DEF Job
  <2>2. \A j \in SongIds : JobsOf(j)' = JobsOf(j)
    BY <1>1, <1>6, <2>1 DEF JobsOf
  <2>3. ASSUME NEW j \in SongIds PROVE CopyOK(j)'
    <3>1. CASE j = i
      BY <1>1, <1>6, <2>1, <2>2, <3>1 DEF CopyOK
    <3>2. CASE j # i
      <4>1. copies'[j] = copies[j] /\ \A m \in Slots : jobs'[m].to = jobs[m].to
        BY <1>1, <1>6, <2>1, <3>2
      <4> QED BY <1>1, <1>6, <2>2, <4>1 DEF CopyOK
    <3> QED BY <3>1, <3>2
  <2> QED BY <1>1, <1>6, <2>1, <2>3
<1>7. \/ EndCopy(n, FALSE)
      \/ EndCopy(n, TRUE)
      \/ /\ jobs' = [jobs EXCEPT ![n].stage = "write"]
         /\ copies' = [copies EXCEPT ![i] = Torn]
         /\ UNCHANGED want
  BY <1>0 DEF writeSongJsonAutoSync, deleteSongJsonAutoSync
<1> QED BY <1>4, <1>5, <1>6, <1>7

\* A stop drops the jobs: the copy of a song that had none is what it was.
LEMMA StopInv == ASSUME LibInv, stop PROVE LibInv'
<1>1. /\ want \in [SongIds -> [copy : Song \cup {None}, sure : BOOLEAN]]
      /\ \A i \in SongIds : CopyOK(i)
  BY DEF LibInv, LibTypeOK
<1>2. jobs' \in [Slots -> Job \cup {None}] /\ \A i : JobsOf(i)' = {}
  BY DEF stop, JobsOf
<1>3. ASSUME NEW i \in SongIds
      PROVE  want'[i] \in [copy : Song \cup {None}, sure : BOOLEAN] /\ CopyOK(i)'
  <2>1. CASE JobsOf(i) = {}
    <3>1. want'[i].copy = want[i].copy /\ (want'[i].sure <=> want[i].sure)
          /\ want'[i] \in [copy : Song \cup {None}, sure : BOOLEAN]
      BY <1>1, <2>1 DEF stop
    <3>2. copies' = copies /\ CopyOK(i)
      BY <1>1 DEF stop
    <3> QED BY <1>2, <2>1, <3>1, <3>2 DEF CopyOK
  <2>2. CASE JobsOf(i) # {}
    <3>1. ~want'[i].sure /\ want'[i] \in [copy : Song \cup {None}, sure : BOOLEAN]
      BY <1>1, <2>2 DEF stop
    <3> QED BY <3>1 DEF CopyOK
  <2> QED BY <2>1, <2>2
<1>4. want' \in [SongIds -> [copy : Song \cup {None}, sure : BOOLEAN]]
  <2>1. want' = [i \in SongIds |-> want'[i]]
    BY DEF stop
  <2> QED BY <1>3, <2>1
<1>5. imp' \in Import /\ imp'.stage = "idle" /\ imp'.todo = {} /\ imp'.days = {}
  BY NoImportType DEF stop, NoImport
<1>6. UNCHANGED <<songs, plans, copies, file, backup>>
  BY DEF stop
<1> QED BY <1>2, <1>3, <1>4, <1>5, <1>6 DEF LibInv, LibTypeOK, BackupOK, TodoOK

\* An edit of the regie, an import of a file or a pull changes one row.
LEMMA EditInv ==
    ASSUME LibInv, NEW i \in SongIds, NEW r \in Row, Edit(i, r),
           jobs' \in [Slots -> Job \cup {None}],
           want' \in [SongIds -> [copy : Song \cup {None}, sure : BOOLEAN]],
           \A j \in SongIds : CopyOK(j)'
    PROVE  LibInv'
<1>1. /\ songs \in [SongIds -> Row \cup {None}] /\ songs' = [songs EXCEPT ![i] = r]
      /\ backup \in [songs : [SongIds -> Row \cup {None}], late : SUBSET SongIds]
      /\ backup' = IF imp.stage = "replace" THEN [backup EXCEPT !.late = @ \cup {i}] ELSE backup
      /\ UNCHANGED <<plans, copies, file, imp>>
  BY DEF LibInv, LibTypeOK, Edit
<1>2. songs' \in [SongIds -> Row \cup {None}]
  BY <1>1
<1>3. backup' \in [songs : [SongIds -> Row \cup {None}], late : SUBSET SongIds]
  BY <1>1
<1>4. BackupOK'
  BY <1>1 DEF LibInv, BackupOK
<1> QED BY <1>1, <1>2, <1>3, <1>4 DEF LibInv, LibTypeOK, TodoOK

LEMMA SongEditInv ==
    ASSUME LibInv, NEW i \in SongIds,
           \/ \E t \in Titles : songsCreate(i, t) \/ songsUpdateMeta(i, t)
           \/ \E b \in Bodies : songsReplaceBlocks(i, b)
           \/ songsDelete(i)
    PROVE  LibInv'
<1>1. ASSUME NEW r \in Row, NEW content \in Song \cup {None}, Edit(i, r), StartCopy(i, content)
      PROVE  LibInv'
  <2>1. copies' = copies
    BY <1>1 DEF Edit
  <2> QED BY <1>1, <2>1, StartCopyInv, EditInv
<1>2. \A r \in Row : Content(r) \in Song
  BY DEF Content, Row, Song
<1>3. \A j \in SongIds : j \in Used => songs[j] \in Row
  BY DEF Used, LibInv, LibTypeOK
<1>4. ASSUME NEW t \in Titles, songsCreate(i, t) PROVE LibInv'
  <2>1. [n \in 1..2 |-> ""] \in Blocks
    <3>2. \A n \in Nat : Cardinality(1..n) = n
      BY FS_Interval
    <3>3. Cardinality(1..2) = 2
      BY <3>2
    <3>1. 1..2 \in SUBSET (0..MaxBlocks) /\ Cardinality(1..2) <= MaxBlocks
      BY LibraryAssumption, <3>3
    <3>4. [n \in 1..2 |-> ""] \in [1..2 -> BlockText]
      BY DEF BlockText
    <3> QED BY <3>1, <3>4, NumberedIntro DEF Blocks
  <2>2. New(t, [n \in 1..2 |-> ""]) \in Row
    BY <2>1 DEF New, Row
  <2> QED BY <1>1, <1>2, <1>4, <2>2 DEF songsCreate
<1>5. ASSUME NEW t \in Titles, songsUpdateMeta(i, t) PROVE LibInv'
  <2>1. [songs[i] EXCEPT !.title = t] \in Row
    BY <1>3, <1>5 DEF songsUpdateMeta, Row
  <2> QED BY <1>1, <1>2, <1>5, <2>1 DEF songsUpdateMeta
<1>6. ASSUME NEW b \in Bodies, songsReplaceBlocks(i, b) PROVE LibInv'
  <2>1. [songs[i] EXCEPT !.blocks = b] \in Row
    BY <1>3, <1>6, LibraryAssumption DEF songsReplaceBlocks, Row
  <2> QED BY <1>1, <1>2, <1>6, <2>1 DEF songsReplaceBlocks
<1>7. ASSUME songsDelete(i) PROVE LibInv'
  <2>1. [songs[i] EXCEPT !.deleted = TRUE] \in Row
    BY <1>3, <1>7 DEF songsDelete, Row
  <2> QED BY <1>1, <1>7, <2>1 DEF songsDelete
<1> QED BY <1>4, <1>5, <1>6, <1>7

LEMMA NewSongInv ==
    ASSUME LibInv, NEW i \in SongIds,
           \/ \E t \in Titles, b \in WebBodies : pullFromPostgres(i, t, b)
           \/ \E t \in Titles, b \in Bodies : importDocSong(i, t, b)
           \/ \E j \in SongIds : importJsonFile(i, j)
    PROVE  LibInv'
<1>1. PICK t \in Titles, b \in Blocks : Edit(i, New(t, b)) /\ UNCHANGED <<jobs, want>>
  <2>1. \A j \in SongIds : copies[j] \in Song \cup {None, Torn}
    BY DEF LibInv, LibTypeOK
  <2>2. \A c \in Song : c.title \in Titles /\ Renumber(c.blocks) \in Blocks
    BY RenumberType DEF Song, Blocks
  <2> QED
    BY <2>1, <2>2, LibraryAssumption DEF pullFromPostgres, importDocSong, importJsonFile
<1>2. New(t, b) \in Row
  BY DEF New, Row
<1>3. copies' = copies
  BY <1>1 DEF Edit
<1>4. \A j \in SongIds : CopyOK(j)'
  BY <1>1, <1>3, CopiesKept DEF LibInv
<1> QED BY <1>1, <1>2, <1>4, EditInv DEF LibInv, LibTypeOK

LEMMA InjectionExists ==
    ASSUME NEW S, NEW T, IsFiniteSet(S), IsFiniteSet(T), Cardinality(S) <= Cardinality(T)
    PROVE  \E f \in [S -> T] : IsInjective(f)
<1> DEFINE m == Cardinality(S)
           n == Cardinality(T)
<1>1. m \in Nat /\ n \in Nat
  BY FS_CardinalityType
<1>2. PICK g \in Bijection(1..m, S) : TRUE
  BY FS_CardinalityType DEF ExistsBijection
<1>3. PICK h \in Bijection(1..n, T) : TRUE
  BY FS_CardinalityType DEF ExistsBijection
<1> HIDE DEF m, n
<1> DEFINE at == [x \in S |-> CHOOSE k \in 1..m : g[k] = x]
           f == [x \in S |-> h[at[x]]]
<1>4. \A x \in S : \E k \in 1..m : g[k] = x
  BY <1>2 DEF Bijection, Surjection
<1>5. \A x \in S : at[x] \in 1..m /\ g[at[x]] = x
  BY <1>4
<1>6. \A k \in 1..m : k \in 1..n
  BY <1>1 DEF m, n
<1>7. h \in [1..n -> T] /\ \A k, l \in 1..n : h[k] = h[l] => k = l
  BY <1>3 DEF Bijection, Injection, IsInjective
<1> HIDE DEF at
<1>8. f \in [S -> T]
  BY <1>5, <1>6, <1>7
<1>9. ASSUME NEW x \in S, NEW y \in S, f[x] = f[y] PROVE x = y
  <2>1. at[x] = at[y]
    BY <1>5, <1>6, <1>7, <1>9
  <2> QED BY <1>5, <2>1
<1> HIDE DEF f
<1> QED BY <1>8, <1>9 DEF IsInjective

\* The songs of a file under ids of their own.
LEMMA InsertedAre ==
    ASSUME LibInv, EnoughIds, NEW base \in [SongIds -> Row \cup {None}]
    PROVE  /\ Inserted(base) \in [SongIds -> Row \cup {None}]
           /\ \E f \in [DOMAIN imp.songs -> SongIds] :
                /\ IsInjective(f)
                /\ \A j \in DOMAIN imp.songs : Inserted(base)[f[j]] = normalizeSong(imp.songs[j])
                /\ \A i \in SongIds \ Range(f) : Inserted(base)[i] = base[i]
<1> DEFINE D == DOMAIN imp.songs
           place == CHOOSE f \in [D -> FreshIds] : IsInjective(f)
           all == Inserted(base)
<1>1. D \in SUBSET SongIds /\ \A j \in D : imp.songs[j] \in Song
  BY DEF LibInv, LibTypeOK, Import, FileSongs
<1>2. FreshIds \in SUBSET SongIds /\ IsFiniteSet(SongIds)
  BY LibraryAssumption DEF FreshIds
<1>3. IsFiniteSet(D) /\ IsFiniteSet(FreshIds)
  BY <1>1, <1>2, FS_Subset
<1>4. Cardinality(D) <= Cardinality(FreshIds)
  BY <1>3, FS_CardinalityType DEF EnoughIds
<1>5. place \in [D -> FreshIds] /\ IsInjective(place)
  BY <1>3, <1>4, InjectionExists
<1>6. all = [i \in SongIds |-> IF \E j \in D : place[j] = i
                               THEN normalizeSong(imp.songs[CHOOSE j \in D : place[j] = i])
                               ELSE base[i]]
  BY DEF Inserted
<1> HIDE DEF D, place, all
<1>7. place \in [D -> SongIds] /\ \A i, j \in D : place[i] = place[j] => i = j
  BY <1>2, <1>5 DEF IsInjective
<1>8. ASSUME NEW j \in D PROVE all[place[j]] = normalizeSong(imp.songs[j])
  <2>1. (CHOOSE i \in D : place[i] = place[j]) = j
    BY <1>7
  <2> QED BY <1>6, <1>7, <2>1
<1>9. ASSUME NEW i \in SongIds \ Range(place) PROVE all[i] = base[i]
  <2>1. ~\E j \in D : place[j] = i
    BY <1>7 DEF Range
  <2> QED BY <1>6, <2>1
<1>10. ASSUME NEW i \in SongIds PROVE all[i] \in Row \cup {None}
  <2>1. CASE i \in Range(place)
    <3>1. PICK j \in D : i = place[j]
      BY <1>7, <2>1 DEF Range
    <3> QED BY <1>1, <1>8, <3>1, NormalizedType DEF D
  <2> QED BY <1>9, <2>1
<1>11. all \in [SongIds -> Row \cup {None}]
  BY <1>6, <1>10
<1> QED BY <1>5, <1>7, <1>8, <1>9, <1>11 DEF D, all

LEMMA FilePlanType ==
    ASSUME LibInv, NEW d \in DOMAIN imp.plans
    PROVE  imp.plans[d] \in Items /\ d \in Dates
BY DEF LibInv, LibTypeOK, Import, FilePlans

LEMMA PlansAdded ==
    ASSUME LibInv, NEW base \in [Dates -> Plan \cup {None}]
    PROVE  createPlanWithItems(base) \in [Dates -> Plan \cup {None}]
<1>1. \A d \in DOMAIN imp.plans : normalizePlan(imp.plans[d]) \in Plan
  BY FilePlanType, PlanType
<1> QED BY <1>1 DEF createPlanWithItems

\* What a transaction leaves of the import.
LEMMA FinishType ==
    ASSUME LibInv, NEW outcome \in {"replaced", "merged", "rolledBack", "failed"}, Finish(outcome)
    PROVE  imp' \in Import /\ imp'.stage = outcome /\ imp'.todo = {} /\ imp'.days = {}
BY DEF Finish, LibInv, LibTypeOK, Import

\* The transactions of the whole database.
LEMMA TransactionInv ==
    ASSUME LibInv, NEW outcome \in {"replaced", "merged", "rolledBack", "failed"}, Finish(outcome),
           songs' \in [SongIds -> Row \cup {None}], plans' \in [Dates -> Plan \cup {None}],
           UNCHANGED <<copies, jobs, want, file, backup>>
    PROVE  LibInv'
<1>1. imp' \in Import /\ imp'.stage = outcome /\ imp'.todo = {} /\ imp'.days = {}
  BY FinishType
<1>2. \A i \in SongIds : CopyOK(i)'
  BY CopiesKept DEF LibInv
<1> QED BY <1>1, <1>2 DEF LibInv, LibTypeOK, BackupOK, TodoOK

LEMMA ImportInv ==
    ASSUME LibInv,
           \/ replaceTransaction \/ strictTransaction \/ entityEnd
           \/ \E i, j \in SongIds : entitySong(j, i)
           \/ \E d \in Dates : entityPlan(d)
    PROVE  LibInv'
<1>0. /\ songs \in [SongIds -> Row \cup {None}] /\ plans \in [Dates -> Plan \cup {None}]
      /\ imp \in Import
  BY DEF LibInv, LibTypeOK
<1>1. ASSUME NEW outcome \in {"rolledBack", "failed"}, Refuse(outcome),
             UNCHANGED <<copies, jobs, want, file, backup>>
      PROVE  LibInv'
  BY <1>0, <1>1, TransactionInv DEF Refuse
<1>2. ASSUME replaceTransaction PROVE LibInv'
  <2>1. CASE /\ songs' = Inserted([i \in SongIds |-> None])
             /\ plans' = createPlanWithItems([d \in Dates |-> None])
             /\ Finish("replaced")
    <3>1. /\ [i \in SongIds |-> None] \in [SongIds -> Row \cup {None}]
          /\ [d \in Dates |-> None] \in [Dates -> Plan \cup {None}]
      OBVIOUS
    <3>2. EnoughIds /\ UNCHANGED <<copies, jobs, want, file, backup>>
      BY <1>2 DEF replaceTransaction
    <3>3. songs' \in [SongIds -> Row \cup {None}]
      BY <2>1, <3>1, <3>2, InsertedAre
    <3>4. plans' \in [Dates -> Plan \cup {None}]
      BY <2>1, <3>1, PlansAdded
    <3> QED BY <2>1, <3>2, <3>3, <3>4, TransactionInv
  <2> QED BY <1>1, <1>2, <2>1 DEF replaceTransaction
<1>3. ASSUME strictTransaction PROVE LibInv'
  <2>1. CASE /\ songs' = Inserted(songs)
             /\ plans' = createPlanWithItems(plans)
             /\ Finish("merged")
    <3>1. EnoughIds /\ UNCHANGED <<copies, jobs, want, file, backup>>
      BY <1>3 DEF strictTransaction
    <3>2. songs' \in [SongIds -> Row \cup {None}]
      BY <1>0, <2>1, <3>1, InsertedAre
    <3>3. plans' \in [Dates -> Plan \cup {None}]
      BY <1>0, <2>1, PlansAdded
    <3> QED BY <2>1, <3>1, <3>2, <3>3, TransactionInv
  <2> QED BY <1>1, <1>3, <2>1 DEF strictTransaction
<1>4. ASSUME entityEnd PROVE LibInv'
  BY <1>0, <1>4, TransactionInv DEF entityEnd
<1>5. ASSUME NEW i \in SongIds, NEW j \in SongIds, entitySong(j, i) PROVE LibInv'
  <2>1. /\ imp.stage = "ENTITY" /\ j \in imp.todo
        /\ imp' = [imp EXCEPT !.todo = @ \ {j}]
        /\ UNCHANGED <<plans, copies, jobs, want, file, backup>>
    BY <1>5 DEF entitySong
  <2>2. imp.songs[j] \in Song
    <3>1. j \in DOMAIN imp.songs
      BY <2>1 DEF LibInv, TodoOK
    <3> QED BY <1>0, <3>1 DEF Import, FileSongs
  <2>3. songs' \in [SongIds -> Row \cup {None}]
    BY <1>0, <1>5, <2>2, NormalizedType DEF entitySong
  <2>4. imp' \in Import /\ imp'.stage = "ENTITY" /\ TodoOK'
    BY <1>0, <2>1 DEF Import, LibInv, TodoOK
  <2>5. \A k \in SongIds : CopyOK(k)'
    BY <2>1, CopiesKept DEF LibInv
  <2> QED BY <2>1, <2>3, <2>4, <2>5 DEF LibInv, LibTypeOK, BackupOK
<1>6. ASSUME NEW d \in Dates, entityPlan(d) PROVE LibInv'
  <2>1. /\ imp.stage = "ENTITY" /\ d \in imp.days
        /\ imp' = [imp EXCEPT !.days = @ \ {d}]
        /\ UNCHANGED <<songs, copies, jobs, want, file, backup>>
    BY <1>6 DEF entityPlan
  <2>2. normalizePlan(imp.plans[d]) \in Plan
    <3>1. d \in DOMAIN imp.plans
      BY <2>1 DEF LibInv, TodoOK
    <3> QED BY <3>1, FilePlanType, PlanType
  <2>3. plans' \in [Dates -> Plan \cup {None}]
    BY <1>0, <1>6, <2>2 DEF entityPlan
  <2>4. imp' \in Import /\ imp'.stage = "ENTITY" /\ TodoOK'
    BY <1>0, <2>1 DEF Import, LibInv, TodoOK
  <2>5. \A k \in SongIds : CopyOK(k)'
    BY <2>1, CopiesKept DEF LibInv
  <2> QED BY <2>1, <2>3, <2>4, <2>5 DEF LibInv, LibTypeOK, BackupOK
<1> QED BY <1>2, <1>3, <1>4, <1>5, <1>6

\* An edit of a plan changes nothing else.
LEMMA EditPlanInv ==
    ASSUME LibInv, NEW d \in Dates, NEW plan \in Plan, EditPlan(d, plan)
    PROVE  LibInv'
<1>1. plans' \in [Dates -> Plan \cup {None}] /\ UNCHANGED <<songs, copies, jobs, want, file, imp, backup>>
  BY DEF EditPlan, LibInv, LibTypeOK
<1>2. \A i \in SongIds : CopyOK(i)'
  BY <1>1, CopiesKept DEF LibInv
<1> QED BY <1>1, <1>2 DEF LibInv, LibTypeOK, BackupOK, TodoOK

LEMMA PlanEditInv ==
    ASSUME LibInv, NEW d \in Dates,
           \/ plansCreate(d) \/ plansDelete(d)
           \/ \E i \in SongIds \cup {None}, b \in Bodies : \E n \in DOMAIN b : plansAddItem(d, b[n], i)
           \/ \E i \in SongIds \cup {None}, b \in WebBodies : pullPlan(d, b, i)
    PROVE  LibInv'
<1> DEFINE Item == [text : BlockText, song : SongIds \cup {None}]
<1>0. plans[d] \in Plan \cup {None}
  BY DEF LibInv, LibTypeOK
<1>1. CASE plansCreate(d)
  <2>1. {} \in SUBSET (0..MaxBlocks) /\ Cardinality({}) <= MaxBlocks /\ <<>> \in [{} -> Item]
    BY FS_EmptySet, LibraryAssumption
  <2>2. <<>> \in Items
    BY <2>1, NumberedIntro DEF Items
  <2>3. [items |-> <<>>, deleted |-> FALSE] \in Plan
    BY <2>2 DEF Plan
  <2> QED BY <1>1, <2>3, EditPlanInv DEF plansCreate
<1>2. CASE plansDelete(d)
  <2>1. [plans[d] EXCEPT !.deleted = TRUE] \in Plan
    BY <1>0, <1>2 DEF plansDelete, LivePlans, Plan
  <2> QED BY <1>2, <2>1, EditPlanInv DEF plansDelete
<1>3. ASSUME NEW i \in SongIds \cup {None}, NEW b \in Bodies, NEW n \in DOMAIN b, plansAddItem(d, b[n], i)
      PROVE  LibInv'
  <2> DEFINE items == plans[d].items
             D == DOMAIN items
             x == [text |-> b[n], song |-> i]
  <2>1. plans[d] \in Plan /\ Cardinality(D) < MaxBlocks
    BY <1>0, <1>3 DEF plansAddItem
  <2>2. items \in Numbered(Item) /\ plans[d].deleted \in BOOLEAN
    BY <2>1 DEF Plan, Items
  <2>3. D \in SUBSET (0..MaxBlocks) /\ IsFiniteSet(D) /\ Cardinality(D) \in Nat /\ items \in [D -> Item]
    <3>1. \A k \in D : items[k] \in Item
      BY <2>2, NumberedFacts
    <3>2. items = [k \in D |-> items[k]]
      BY <2>2 DEF Numbered
    <3> HIDE DEF Item, items
    <3> QED BY <2>2, <3>1, <3>2, NumberedFacts
  <2>4. x \in Item
    <3>1. b[n] \in BlockText
      BY LibraryAssumption, NumberedFacts DEF Blocks
    <3> QED BY <3>1
  <2>5. PICK m \in 1..MaxBlocks :
          EditPlan(d, [items |-> [k \in D \cup {m} |-> IF k = m THEN x ELSE items[k]],
                       deleted |-> plans[d].deleted])
    BY <1>3 DEF plansAddItem
  <2> HIDE DEF Item, items, D, x
  <2> DEFINE more == [k \in D \cup {m} |-> IF k = m THEN x ELSE items[k]]
  <2>6. more \in [D \cup {m} -> Item]
    BY <2>3, <2>4
  <2>7. D \cup {m} \in SUBSET (0..MaxBlocks) /\ Cardinality(D \cup {m}) <= MaxBlocks
    <3>1. MaxBlocks \in Nat
      BY LibraryAssumption
    <3>2. Cardinality(D \cup {m}) <= Cardinality(D) + 1 /\ Cardinality(D \cup {m}) \in Nat
      <4>1. Cardinality(D \cup {m}) = IF m \in D THEN Cardinality(D) ELSE Cardinality(D) + 1
        BY <2>3, FS_AddElement
      <4> QED BY <2>3, <4>1
    <3>3. Cardinality(D) < MaxBlocks
      BY <2>1 DEF D, items
    <3>4. m \in 0..MaxBlocks
      BY <3>1
    <3> QED BY <2>3, <3>1, <3>2, <3>3, <3>4
  <2>8. more \in Numbered(Item)
    <3> HIDE DEF more
    <3> QED BY <2>6, <2>7, NumberedIntro
  <2>9. [items |-> more, deleted |-> plans[d].deleted] \in Plan
    <3> HIDE DEF more
    <3> QED BY <2>2, <2>8 DEF Plan, Items, Item
  <2>10. EditPlan(d, [items |-> more, deleted |-> plans[d].deleted])
    BY <2>5
  <2> HIDE DEF more
  <2> QED BY <2>9, <2>10, EditPlanInv
<1>4. ASSUME NEW i \in SongIds \cup {None}, NEW b \in WebBodies, pullPlan(d, b, i) PROVE LibInv'
  <2> DEFINE all == [n \in DOMAIN b |-> [text |-> b[n], song |-> i]]
  <2>1. PICK D \in SUBSET (0..MaxBlocks) : Cardinality(D) <= MaxBlocks /\ b \in [D -> BlockText]
    BY LibraryAssumption DEF Blocks, Numbered
  <2>2. all \in [D -> Item]
    BY <2>1
  <2>3. EditPlan(d, [items |-> all, deleted |-> FALSE])
    BY <1>4 DEF pullPlan
  <2> HIDE DEF all
  <2>4. all \in Items
    <3> HIDE DEF Item
    <3>1. all \in Numbered(Item)
      BY <2>1, <2>2, NumberedIntro
    <3> QED BY <3>1 DEF Items, Item
  <2>5. [items |-> all, deleted |-> FALSE] \in Plan
    BY <2>4 DEF Plan
  <2> QED BY <2>3, <2>5, EditPlanInv
<1> QED BY <1>1, <1>2, <1>3, <1>4

\* Steps that change neither a song nor a copy.
LEMMA FileInv ==
    ASSUME LibInv,
           \/ exportAll \/ backupDatabaseSnapshot \/ closeReport
           \/ \E mode \in {"REPLACE", "STRICT", "ENTITY"} : importAll(mode)
           \/ UNCHANGED libVars
    PROVE  LibInv'
<1>1. \A i \in SongIds : CopyOK(i)'
  <2>1. UNCHANGED <<copies, jobs, want>>
    BY DEF exportAll, backupDatabaseSnapshot, closeReport, importAll, libVars
  <2> QED BY <2>1, CopiesKept DEF LibInv
<1>2. UNCHANGED <<songs, copies, jobs, want>>
  BY DEF exportAll, backupDatabaseSnapshot, Refuse, closeReport, importAll, libVars
<1>0. LibTypeOK /\ BackupOK /\ TodoOK
  BY DEF LibInv
<1>4. ASSUME exportAll PROVE LibInv'
  <2>1. \A i \in Live : Content(songs[i]) \in Song
    BY <1>0 DEF LibTypeOK, Live, Used, Content, Row, Song
  <2>2. [i \in Live |-> Content(songs[i])] \in FileSongs
    <3>1. Live \in SUBSET SongIds
      BY DEF Live, Used
    <3> QED BY <2>1, <3>1 DEF FileSongs
  <2>3. [d \in LivePlans |-> plans[d].items] \in FilePlans
    <3>1. LivePlans \in SUBSET Dates /\ \A d \in LivePlans : plans[d].items \in Items
      BY <1>0 DEF LivePlans, LibTypeOK, Plan
    <3> QED BY <3>1 DEF FilePlans
  <2>4. file' \in File
    BY <1>4, <2>2, <2>3 DEF exportAll, File
  <2> QED BY <1>0, <1>1, <1>4, <2>4 DEF LibInv, LibTypeOK, BackupOK, TodoOK, exportAll
<1>5. ASSUME NEW mode \in {"REPLACE", "STRICT", "ENTITY"}, importAll(mode) PROVE LibInv'
  <2>1. file \in File
    BY <1>0, <1>5 DEF LibTypeOK, importAll
  <2>2. imp' = [stage |-> mode, songs |-> file.songs, plans |-> file.plans,
                todo |-> DOMAIN file.songs, days |-> DOMAIN file.plans]
    BY <1>5 DEF importAll
  <2>3. /\ file.songs \in FileSongs /\ DOMAIN file.songs \in SUBSET SongIds
        /\ file.plans \in FilePlans /\ DOMAIN file.plans \in SUBSET Dates
    BY <2>1 DEF File, FileSongs, FilePlans
  <2>4. imp' \in Import /\ imp'.stage # "replace" /\ TodoOK'
    BY <2>2, <2>3 DEF Import, TodoOK
  <2> QED BY <1>0, <1>1, <1>5, <2>4 DEF LibInv, LibTypeOK, BackupOK, importAll
<1>6. ASSUME backupDatabaseSnapshot PROVE LibInv'
  <2>1. CASE backup' = [songs |-> songs, late |-> {}] /\ imp' = [imp EXCEPT !.stage = "replace"]
    <3>1. imp' \in Import /\ TodoOK'
      BY <1>0, <2>1 DEF LibTypeOK, Import, TodoOK
    <3>2. UNCHANGED <<plans, file>>
      BY <1>6 DEF backupDatabaseSnapshot, Refuse
    <3> QED BY <1>0, <1>1, <1>2, <2>1, <3>1, <3>2 DEF LibInv, LibTypeOK, BackupOK
  <2>2. CASE Refuse("failed") /\ UNCHANGED backup
    BY <1>0, <1>6, <2>2, TransactionInv DEF backupDatabaseSnapshot, Refuse, LibTypeOK
  <2> QED BY <1>6, <2>1, <2>2 DEF backupDatabaseSnapshot
<1>7. ASSUME closeReport PROVE LibInv'
  <2>1. /\ NoImport \in Import
        /\ NoImport.todo = {} /\ NoImport.days = {} /\ NoImport.stage = "idle"
    BY NoImportType DEF NoImport
  <2> QED BY <1>0, <1>1, <1>7, <2>1 DEF LibInv, LibTypeOK, BackupOK, TodoOK, closeReport
<1>8. ASSUME UNCHANGED libVars PROVE LibInv'
  BY <1>0, <1>1, <1>8 DEF LibInv, LibTypeOK, BackupOK, TodoOK, libVars
<1> QED BY <1>4, <1>5, <1>6, <1>7, <1>8

LEMMA LibStepInv == LibInv /\ [LibraryStep]_libVars => LibInv'
<1> SUFFICES ASSUME LibInv, [LibraryStep]_libVars PROVE LibInv'
  OBVIOUS
<1>1. ASSUME NEW n \in Slots, writeSongJsonAutoSync(n) \/ deleteSongJsonAutoSync(n) PROVE LibInv'
  BY <1>1, JobInv
<1>2. ASSUME NEW i \in SongIds,
             \/ \E t \in Titles : songsCreate(i, t) \/ songsUpdateMeta(i, t)
             \/ \E b \in Bodies : songsReplaceBlocks(i, b)
             \/ songsDelete(i)
      PROVE  LibInv'
  BY <1>2, SongEditInv
<1>3. ASSUME NEW i \in SongIds,
             \/ \E t \in Titles, b \in WebBodies : pullFromPostgres(i, t, b)
             \/ \E t \in Titles, b \in Bodies : importDocSong(i, t, b)
             \/ \E j \in SongIds : importJsonFile(i, j)
      PROVE  LibInv'
  BY <1>3, NewSongInv
<1>4. ASSUME \/ replaceTransaction \/ strictTransaction \/ entityEnd
             \/ \E i, j \in SongIds : entitySong(j, i)
             \/ \E d \in Dates : entityPlan(d)
      PROVE  LibInv'
  BY <1>4, ImportInv
<1>5. ASSUME \/ exportAll \/ backupDatabaseSnapshot \/ closeReport
             \/ \E mode \in {"REPLACE", "STRICT", "ENTITY"} : importAll(mode)
             \/ UNCHANGED libVars
      PROVE  LibInv'
  BY <1>5, FileInv
<1>6. ASSUME NEW d \in Dates,
             \/ plansCreate(d) \/ plansDelete(d)
             \/ \E i \in SongIds \cup {None}, b \in Bodies : \E n \in DOMAIN b : plansAddItem(d, b[n], i)
             \/ \E i \in SongIds \cup {None}, b \in WebBodies : pullPlan(d, b, i)
      PROVE  LibInv'
  BY <1>6, PlanEditInv
<1>7. ASSUME stop PROVE LibInv'
  BY <1>7, StopInv
<1> QED BY <1>1, <1>2, <1>3, <1>4, <1>5, <1>6, <1>7 DEF LibraryStep

(***************************************************************************)
(* The copies in the songs folder follow the edits of the regie.           *)
(***************************************************************************)
THEOREM CopiesTheorem == Spec => []CopiesSettle
<1>1. Init => LibInv
  BY LibInitInv DEF Init
<1>2. LibInv /\ [Next]_vars => LibInv'
  BY LibStepInv DEF Next, vars, libVars
<1>3. LibInv => CopiesSettle
  BY DEF LibInv, CopyOK, CopiesSettle
<1> QED BY <1>1, <1>2, <1>3, PTL DEF Spec

\* The steps that leave the stage between the snapshot and the transaction.
LEMMA ReplaceStep ==
    ASSUME LibInv, replaceTransaction
    PROVE  \/ imp'.stage = "replaced" /\ SongsRestored /\ PlansRestored
           \/ /\ imp'.stage \in {"rolledBack", "failed"}
              /\ UNCHANGED <<songs, plans>>
              /\ imp'.stage = "rolledBack" =>
                    \/ \E j \in DOMAIN imp.songs : ZeroAndOne(imp.songs[j].blocks)
                    \/ \E d \in DOMAIN imp.plans : ZeroAndOne(imp.plans[d])
<1>0. /\ imp \in Import
      /\ \A j \in DOMAIN imp.songs : imp.songs[j] \in Song /\ imp.songs[j].blocks \in Blocks
      /\ \A d \in DOMAIN imp.plans : imp.plans[d] \in Items /\ d \in Dates
  BY FilePlanType DEF LibInv, LibTypeOK, Import, FileSongs, Song
<1>1. CASE /\ AllAccepted
           /\ songs' = Inserted([i \in SongIds |-> None])
           /\ plans' = createPlanWithItems([d \in Dates |-> None])
           /\ Finish("replaced")
  <2> DEFINE base == [i \in SongIds |-> None]
  <2>1. base \in [SongIds -> Row \cup {None}] /\ EnoughIds /\ songs' = Inserted(base)
    BY <1>1 DEF replaceTransaction
  <2>2. PICK f \in [DOMAIN imp.songs -> SongIds] :
                /\ IsInjective(f)
                /\ \A j \in DOMAIN imp.songs : songs'[f[j]] = normalizeSong(imp.songs[j])
                /\ \A i \in SongIds \ Range(f) : songs'[i] = base[i]
    BY <2>1, InsertedAre
  <2>3. \A j \in DOMAIN imp.songs : songs'[f[j]] # None
    BY <1>0, <2>2, NormalizedType, LibraryAssumption
  <2>4. \A i \in SongIds \ Range(f) : songs'[i] = None
    BY <2>2
  <2>5. Range(f) = {i \in SongIds : songs'[i] # None}
    BY <2>2, <2>3, <2>4 DEF Range
  <2>6. f \in [DOMAIN imp.songs -> {i \in SongIds : songs'[i] # None}]
    BY <2>2, <2>3
  <2>7. \A j \in DOMAIN imp.songs : Texts(songs'[f[j]]) = Texts(imp.songs[j])
    BY <1>0, <1>1, <2>2, AcceptedTexts DEF AllAccepted
  <2>8. SongsRestored
    BY <2>2, <2>5, <2>6, <2>7 DEF SongsRestored
  <2>9. ASSUME NEW d \in DOMAIN imp.plans
        PROVE  /\ plans'[d] # None /\ ~plans'[d].deleted
               /\ Renumber(plans'[d].items) = Renumber(Unlinked(imp.plans[d]))
    <3>1. plans'[d] = normalizePlan(imp.plans[d])
      BY <1>0, <1>1 DEF createPlanWithItems
    <3>2. normalizePlan(imp.plans[d]) \in Plan /\ ~normalizePlan(imp.plans[d]).deleted
      BY <1>0, PlanType DEF normalizePlan
    <3>3. Renumber(normalizePlan(imp.plans[d]).items) = Renumber(Unlinked(imp.plans[d]))
      BY <1>0, <1>1, AcceptedPlan DEF AllAccepted
    <3> QED BY <3>1, <3>2, <3>3, LibraryAssumption
  <2>10. \A d \in Dates \ DOMAIN imp.plans : plans'[d] = None
    BY <1>1 DEF createPlanWithItems
  <2>11. PlansRestored
    BY <1>0, <2>9, <2>10 DEF PlansRestored
  <2>12. imp'.stage = "replaced"
    BY <1>0, <1>1 DEF Finish, Import
  <2> QED BY <2>8, <2>11, <2>12
<1>2. CASE ~AllAccepted /\ Refuse("rolledBack")
  <2>1. imp'.stage = "rolledBack" /\ UNCHANGED <<songs, plans>>
    BY <1>0, <1>2 DEF Refuse, Finish, Import
  <2>2. \/ \E j \in DOMAIN imp.songs : ZeroAndOne(imp.songs[j].blocks)
        \/ \E d \in DOMAIN imp.plans : ZeroAndOne(imp.plans[d])
    <3>1. \A j \in DOMAIN imp.songs : ~Accepted(imp.songs[j].blocks) => ZeroAndOne(imp.songs[j].blocks)
      BY <1>0, Refused DEF Blocks
    <3>2. \A d \in DOMAIN imp.plans : ~Accepted(imp.plans[d]) => ZeroAndOne(imp.plans[d])
      BY <1>0, Refused DEF Items
    <3> QED BY <1>2, <3>1, <3>2 DEF AllAccepted
  <2> QED BY <2>1, <2>2
<1>3. CASE Refuse("failed")
  BY <1>0, <1>3 DEF Refuse, Finish, Import
<1> QED BY <1>1, <1>2, <1>3 DEF replaceTransaction

LEMMA LeavesReplace ==
    ASSUME LibInv, [LibraryStep]_libVars, imp.stage = "replace", imp'.stage # "replace"
    PROVE  replaceTransaction \/ stop
<1>1. imp' # imp
  OBVIOUS
<1>2. ASSUME NEW i, NEW r, Edit(i, r) PROVE FALSE
  BY <1>1, <1>2 DEF Edit
<1>3. ASSUME NEW d, NEW plan, EditPlan(d, plan) PROVE FALSE
  BY <1>1, <1>3 DEF EditPlan
<1>4. ASSUME NEW d \in Dates,
             \/ plansCreate(d) \/ plansDelete(d)
             \/ \E i \in SongIds \cup {None}, b \in Bodies : \E n \in DOMAIN b : plansAddItem(d, b[n], i)
             \/ \E i \in SongIds \cup {None}, b \in WebBodies : pullPlan(d, b, i)
      PROVE  FALSE
  BY <1>3, <1>4 DEF plansCreate, plansDelete, plansAddItem, pullPlan
<1> QED
  BY <1>1, <1>2, <1>4
  DEF LibraryStep, libVars, writeSongJsonAutoSync, deleteSongJsonAutoSync, songsCreate, songsUpdateMeta,
      songsReplaceBlocks, songsDelete, pullFromPostgres, importDocSong, importJsonFile,
      exportAll, importAll, backupDatabaseSnapshot, strictTransaction, entitySong, entityPlan,
      entityEnd, closeReport

(***************************************************************************)
(* A REPLACE import puts the whole file in place, or changes nothing, and  *)
(* what it removes is in the snapshot.                                     *)
(***************************************************************************)
THEOREM ReplaceTheorem == Spec => ReplaceSafe
<1>1. Init => LibInv
  BY LibInitInv DEF Init
<1>2. LibInv /\ [Next]_vars => LibInv'
  BY LibStepInv DEF Next, vars, libVars
<1>3. LibInv /\ [Next]_vars =>
        [imp.stage = "replace" /\ imp'.stage # "replace" =>
            \/ imp'.stage = "replaced" /\ SongsRestored /\ PlansRestored
            \/ /\ imp'.stage \in {"rolledBack", "failed", "idle"}
               /\ UNCHANGED <<songs, plans>>
               /\ imp'.stage = "rolledBack" =>
                     \/ \E j \in DOMAIN imp.songs : ZeroAndOne(imp.songs[j].blocks)
                     \/ \E d \in DOMAIN imp.plans : ZeroAndOne(imp.plans[d])]_libVars
  <2>1. [Next]_vars => [LibraryStep]_libVars
    BY DEF Next, vars, libVars
  <2>2. stop => imp'.stage = "idle" /\ UNCHANGED <<songs, plans>>
    BY DEF stop, NoImport
  <2> QED BY <2>1, <2>2, LeavesReplace, ReplaceStep
<1>4. LibInv /\ [Next]_vars =>
        [imp.stage = "replace" /\ imp'.stage = "replaced" =>
            \A i \in Used \ backup.late : backup.songs[i] = songs[i]]_libVars
  BY DEF LibInv, BackupOK, Used
<1> QED BY <1>1, <1>2, <1>3, <1>4, PTL DEF Spec, ReplaceSafe, ReplaceRestores, ReplaceBackedUp
=============================================================================
