-------------------------- MODULE ProfileStoreProofs --------------------------
(***************************************************************************)
(* Proofs about ProfileStore, for any number of calls and of profiles: the *)
(* lists of profiles on their way to settings.json are always usable.      *)
(***************************************************************************)
EXTENDS ProfileStore, FiniteSetTheorems, WellFoundedInduction, TLAPS

-----------------------------------------------------------------------------
(* Lists without repetitions *)

\* A profile of a list has a first place in it.
LEMMA FirstPlace ==
    ASSUME NEW S, NEW s \in Seq(S), NEW id \in ToSet(s)
    PROVE  \E i \in Firsts(s) : s[i] = id
<1> DEFINE T == {i \in DOMAIN s : s[i] = id}
           R == OpToRel(<, Nat)
<1>1. T \subseteq Nat /\ T # {}
  BY DEF ToSet
<1>2. PICK i \in T : \A j \in T : <<j, i>> \notin R
  <2> HIDE DEF T, R
  <2>1. IsWellFoundedOn(R, Nat)
    BY NatLessThanWellFounded DEF R
  <2> QED BY <1>1, <2>1, WFMin
<1>3. \A j \in T : ~(j < i)
  <2>1. \A j \in T : j \in Nat /\ i \in Nat
    BY <1>1
  <2> QED BY <1>2, <2>1 DEF OpToRel
<1>4. DOMAIN s = 1..Len(s) /\ Len(s) \in Nat
  OBVIOUS
<1>5. i \in Firsts(s)
  BY <1>3, <1>4 DEF Firsts
<1> QED BY <1>5

\* Two first places hold different profiles.
LEMMA FirstsDiffer ==
    ASSUME NEW S, NEW s \in Seq(S), NEW i \in Firsts(s), NEW j \in Firsts(s), s[i] = s[j]
    PROVE  i = j
<1>1. i \in 1..Len(s) /\ j \in 1..Len(s)
  BY DEF Firsts
<1>2. i < j \/ j < i \/ i = j
  BY <1>1
<1> QED BY <1>1, <1>2 DEF Firsts

\* Counting the first places up to each of them numbers them.
LEMMA FirstsRanked ==
    ASSUME NEW S, NEW s \in Seq(S)
    PROVE  /\ IsFiniteSet(Firsts(s)) /\ Cardinality(Firsts(s)) \in Nat
           /\ \A n \in 1..Cardinality(Firsts(s)) :
                \E i \in Firsts(s) : Cardinality({j \in Firsts(s) : j <= i}) = n
           /\ \A i \in Firsts(s) :
                Cardinality({j \in Firsts(s) : j <= i}) \in 1..Cardinality(Firsts(s))
           /\ \A i, k \in Firsts(s) :
                Cardinality({j \in Firsts(s) : j <= i}) = Cardinality({j \in Firsts(s) : j <= k})
                => i = k
<1> DEFINE F == Firsts(s)
           upTo(i) == {j \in F : j <= i}
           rank == [i \in F |-> Cardinality(upTo(i))]
           N == Cardinality(F)
<1>1. F \subseteq 1..Len(s) /\ Len(s) \in Nat
  BY DEF Firsts
<1> HIDE DEF F
<1>2. IsFiniteSet(F) /\ N \in Nat
  <2>1. IsFiniteSet(1..Len(s))
    BY <1>1, FS_Interval
  <2>2. IsFiniteSet(F)
    BY <1>1, <2>1, FS_Subset
  <2> QED BY <2>2, FS_CardinalityType
<1>3. \A i \in F : IsFiniteSet(upTo(i)) /\ Cardinality(upTo(i)) \in 1..N
  <2> TAKE i \in F
  <2>1. upTo(i) \subseteq F /\ i \in upTo(i)
    BY <1>1
  <2>2. IsFiniteSet(upTo(i)) /\ Cardinality(upTo(i)) <= N /\ Cardinality(upTo(i)) \in Nat
    BY <2>1, <1>2, FS_Subset, FS_CardinalityType
  <2>3. Cardinality(upTo(i)) # 0
    BY <2>1, <2>2, FS_EmptySet
  <2> HIDE DEF upTo, N
  <2> QED BY <1>2, <2>2, <2>3
<1>4. \A i, j \in F : i < j => Cardinality(upTo(i)) < Cardinality(upTo(j))
  <2> SUFFICES ASSUME NEW i \in F, NEW j \in F, i < j
               PROVE  Cardinality(upTo(i)) < Cardinality(upTo(j))
    OBVIOUS
  <2>0. \A k \in F : k \in Int
    BY <1>1
  <2>1. upTo(i) \subseteq upTo(j) /\ j \in upTo(j) /\ j \notin upTo(i)
    BY <2>0
  <2>2. IsFiniteSet(upTo(j))
    BY <1>3
  <2> HIDE DEF upTo
  <2>3. Cardinality(upTo(i)) <= Cardinality(upTo(j)) /\ upTo(i) # upTo(j)
    BY <2>1, <2>2, FS_Subset
  <2>4. Cardinality(upTo(i)) # Cardinality(upTo(j))
    BY <2>1, <2>2, <2>3, FS_Subset
  <2>5. Cardinality(upTo(i)) \in Nat /\ Cardinality(upTo(j)) \in Nat
    BY <1>3
  <2> QED BY <2>3, <2>4, <2>5
<1>5. rank \in Injection(F, 1..N)
  <2> HIDE DEF upTo, N
  <2>1. rank \in [F -> 1..N]
    BY <1>3
  <2>2. ASSUME NEW i \in F, NEW j \in F, rank[i] = rank[j] PROVE i = j
    <3>1. i < j \/ j < i \/ i = j
      BY <1>1
    <3>2. Cardinality(upTo(i)) \in 1..N /\ Cardinality(upTo(j)) \in 1..N
      BY <1>3
    <3> QED BY <1>4, <2>2, <3>1, <3>2
  <2> QED BY <2>1, <2>2 DEF Injection, IsInjective
<1>6. \A n \in 1..N : \E i \in F : rank[i] = n
  <2>1. IsFiniteSet(1..N) /\ Cardinality(1..N) = N
    BY <1>2, FS_Interval
  <2> HIDE DEF rank, N
  <2>2. rank \in Surjection(F, 1..N)
    BY <1>5, <2>1, FS_Injection DEF N
  <2> QED BY <2>2 DEF Surjection
<1>7. \A i, k \in F : rank[i] = rank[k] => i = k
  BY <1>5 DEF Injection, IsInjective
<1> HIDE DEF N
<1> QED BY <1>2, <1>3, <1>6, <1>7 DEF F, N

\* Distinct keeps the profiles and drops the repetitions.
LEMMA DistinctKeeps ==
    ASSUME NEW S, NEW s \in Seq(S)
    PROVE  /\ Distinct(s) \in Seq(S)
           /\ IsInjective(Distinct(s))
           /\ ToSet(Distinct(s)) = ToSet(s)
<1> DEFINE F == Firsts(s)
           N == Cardinality(F)
           rank(i) == Cardinality({j \in F : j <= i})
           at(n) == CHOOSE i \in F : rank(i) = n
           d == [n \in 1..N |-> s[at(n)]]
<1>1. Distinct(s) = d
  BY DEF Distinct
<1>2. /\ N \in Nat
      /\ \A n \in 1..N : \E i \in F : rank(i) = n
      /\ \A i \in F : rank(i) \in 1..N
      /\ \A i, k \in F : rank(i) = rank(k) => i = k
  BY FirstsRanked
<1>3. \A i \in F : i \in 1..Len(s) /\ s[i] \in S
  BY DEF Firsts
<1>4. \A n \in 1..N : at(n) \in F /\ rank(at(n)) = n
  <2> TAKE n \in 1..N
  <2> HIDE DEF F, rank, N
  <2>1. \E i \in F : rank(i) = n
    BY <1>2
  <2> QED BY <2>1
<1>5. \A i, j \in F : s[i] = s[j] => i = j
  BY FirstsDiffer
<1>6. d \in Seq(S) /\ DOMAIN d = 1..N
  <2> HIDE DEF F, N, at
  <2>1. d \in [1..N -> S]
    BY <1>3, <1>4
  <2> QED BY <1>2, <2>1
<1>7. IsInjective(d)
  <2> SUFFICES ASSUME NEW m \in 1..N, NEW n \in 1..N, d[m] = d[n] PROVE m = n
    BY <1>6 DEF IsInjective
  <2> HIDE DEF F, N, at, rank
  <2>1. at(m) = at(n)
    BY <1>4, <1>5
  <2> QED BY <1>4, <2>1
<1>8. ToSet(d) \subseteq ToSet(s)
  <2> HIDE DEF F, N, at
  <2>1. DOMAIN s = 1..Len(s)
    OBVIOUS
  <2> QED BY <1>3, <1>4, <1>6, <2>1 DEF ToSet
<1>9. ASSUME NEW id \in ToSet(s) PROVE id \in ToSet(d)
  <2>1. PICK i \in F : s[i] = id
    BY FirstPlace
  <2>2. rank(i) \in 1..N /\ at(rank(i)) \in F /\ rank(at(rank(i))) = rank(i)
    BY <1>2, <1>4
  <2>3. PICK n \in 1..N : n = rank(i)
    BY <2>2
  <2>4. at(n) = i
    <3>1. at(n) \in F /\ rank(at(n)) = rank(i)
      BY <2>2, <2>3
    <3> QED BY <2>1, <3>1, FirstsRanked
  <2> HIDE DEF F, N, at, rank
  <2>5. d[n] = id
    BY <2>1, <2>4
  <2> QED BY <1>6, <2>5 DEF ToSet
<1> HIDE DEF d
<1> QED BY <1>1, <1>6, <1>7, <1>8, <1>9

\* What a handler may make of its list: distinct again once it is normalised.
Usable(list) == list.entries # <<>> /\ list.active # None

\* A list with a profile and an active one is well formed once it is normalised,
\* whatever repetitions it has.
LEMMA NormalisedWellFormed ==
    ASSUME NEW list \in Profiles, Usable(list)
    PROVE  /\ normalizeProfilesConfig(list) \in Profiles
           /\ WellFormed(normalizeProfilesConfig(list))
<1> DEFINE d == Distinct(list.entries)
<1>1. list.entries \in Seq(Ids) /\ list.active \in Ids \cup {None}
  BY DEF Profiles
<1>2. d \in Seq(Ids) /\ IsInjective(d) /\ ToSet(d) = ToSet(list.entries)
  BY <1>1, DistinctKeeps
<1>3. ToSet(d) # {}
  BY <1>1, <1>2 DEF Usable, ToSet
<1> HIDE DEF d
<1>4. d # <<>> /\ Head(d) \in ToSet(d) /\ ToSet(d) \subseteq Ids
  BY <1>2, <1>3 DEF ToSet
<1>5. Contains(d, list.active) <=> list.active \in ToSet(d)
  BY <1>2 DEF Contains, ToSet
<1>6. normalizeProfilesConfig(list) =
        [active |-> IF list.active \in ToSet(d) THEN list.active ELSE Head(d), entries |-> d]
  BY <1>4, <1>5 DEF normalizeProfilesConfig, Usable, d
<1> QED BY <1>2, <1>4, <1>6 DEF WellFormed, Entries, Profiles

-----------------------------------------------------------------------------
Patch ==
    [kind : {"profiles"}, call : Calls, state : Profiles] \cup [kind : {"other"}, call : Calls]

CallState ==
    [op : {"idle", "create", "activate", "rename", "save", "delete", "sync", "other"},
     id : Ids \cup {None}, owner : Calls \cup {None}, idx : Nat,
     at : {"idle", "ensure", "ensure2", "ensureWrite", "ready", "snapshot", "queued"}]

TypeOK ==
    /\ file \in Profiles \cup {Torn}
    /\ queue \in Seq(Patch)
    /\ writing \in Profiles \cup {None}
    /\ ensuring \in Calls \cup {None}
    /\ obj \in [Calls -> Profiles]
    /\ call \in [Calls -> CallState]

Kept(list) == list = NoProfiles \/ WellFormed(list)

(***************************************************************************)
(* The inductive invariant.  The lists that handlers change are not well   *)
(* formed (a profile may be there twice), but never without a profile; a   *)
(* call has one patch in the queue while it waits for it, and the call     *)
(* that others wait for does not end before its patch.                     *)
(***************************************************************************)
FileOK ==
    /\ file = Torn \/ Kept(file)
    /\ writing # None => queue # <<>> /\ Kept(writing)
    /\ \A i \in DOMAIN queue : queue[i].kind = "profiles" => WellFormed(queue[i].state)

QueueOK ==
    /\ \A i \in DOMAIN queue : call[queue[i].call].at \in {"queued", "ensureWrite"}
    /\ \A i, j \in DOMAIN queue : queue[i].call = queue[j].call => i = j

EnsuringOK ==
    /\ ensuring # None => /\ call[ensuring].owner = ensuring
                          /\ call[ensuring].at \in {"ensure", "ensure2", "ensureWrite"}
                          /\ \A d \in Calls : call[d].owner = ensuring /\ d # ensuring =>
                                call[d].at = "ensure"
    /\ \A c \in Calls : call[c].at = "ensureWrite" => ensuring = c /\ Usable(obj[c])

CallOK(c) ==
    /\ call[c].op = "create" => call[c].id \in Ids
    /\ call[c].at \in {"ensure", "ensure2", "ensureWrite", "ready"} =>
            call[c].owner \in Calls
    /\ call[c].at = "ready" \/ (call[c].at = "snapshot" /\ call[c].op = "save") =>
            call[c].owner \in Calls /\ Usable(obj[call[c].owner])
    /\ call[c].at = "snapshot" => call[c].id \in Ids
    /\ call[c].op = "sync" => call[c].owner = None
    /\ call[c].at = "snapshot" /\ call[c].op = "save" => call[c].idx >= 1

IInv == TypeOK /\ FileOK /\ QueueOK /\ EnsuringOK /\ \A c \in Calls : CallOK(c)

-----------------------------------------------------------------------------
(* Lemmas about the parts of a step *)

\* What readProfilesState gives.
LEMMA ReadKept ==
    ASSUME IInv PROVE readProfilesState \in Profiles /\ Kept(readProfilesState)
<1>1. NoProfiles \in Profiles
  BY DEF NoProfiles, Profiles
<1> QED BY <1>1 DEF IInv, TypeOK, FileOK, readProfilesState, Kept

\* A list that was read is empty or usable.
LEMMA KeptUsable ==
    ASSUME NEW list \in Profiles, Kept(list)
    PROVE  /\ list.entries # <<>> => Usable(list)
           /\ list.active # None => WellFormed(list)
<1>1. CASE list = NoProfiles
  BY <1>1 DEF NoProfiles
<1>2. CASE WellFormed(list)
  <2>1. list.entries \in Seq(Ids)
    BY DEF Profiles
  <2>2. list.active \in Ids
    BY <1>2, <2>1 DEF WellFormed, Entries, ToSet
  <2> QED BY <1>2, <2>2, NothingAssumption DEF Usable
<1> QED BY <1>1, <1>2 DEF Kept

\* A patch enters the queue for a call that had none there.
LEMMA PatchQueued ==
    ASSUME IInv, NEW c \in Calls, call[c].at \notin {"queued", "ensureWrite"},
           NEW patch \in Patch, patch.call = c,
           patch.kind = "profiles" => WellFormed(patch.state),
           queue' = Append(queue, patch), UNCHANGED <<file, writing>>,
           call'[c].at \in {"queued", "ensureWrite"}, \A d \in Calls \ {c} : call'[d] = call[d]
    PROVE  queue' \in Seq(Patch) /\ FileOK' /\ QueueOK'
<1> DEFINE n == Len(queue)
<1>1. queue \in Seq(Patch) /\ n \in Nat
  BY DEF IInv, TypeOK
<1>2. /\ queue' \in Seq(Patch) /\ queue' # <<>> /\ DOMAIN queue' = 1..(n + 1)
      /\ queue'[n + 1] = patch /\ \A i \in DOMAIN queue : i \in 1..n /\ queue'[i] = queue[i]
      /\ \A i \in DOMAIN queue' : i = n + 1 \/ i \in DOMAIN queue
  BY <1>1
<1>3. \A i \in DOMAIN queue : queue[i].call \in Calls \ {c}
  <2>1. \A i \in DOMAIN queue : queue[i].call \in Calls
    BY <1>1 DEF Patch
  <2> QED BY <2>1 DEF IInv, QueueOK
<1> HIDE DEF n
<1>4. FileOK'
  BY <1>2 DEF IInv, FileOK, Kept, WellFormed, Entries
<1>5. QueueOK'
  BY <1>2, <1>3 DEF IInv, QueueOK
<1> QED BY <1>2, <1>4, <1>5

\* The first patch leaves the queue; the other calls that wait for a patch go on
\* waiting.
LEMMA PatchTaken ==
    ASSUME IInv, queue # <<>>, queue' = Tail(queue), writing' = None,
           file' = Torn \/ Kept(file'),
           \A d \in Calls \ {Head(queue).call} :
                call[d].at \in {"queued", "ensureWrite"} => call'[d].at = call[d].at
    PROVE  queue' \in Seq(Patch) /\ FileOK' /\ QueueOK'
<1> DEFINE n == Len(queue)
<1>1. queue \in Seq(Patch) /\ n \in Nat
  BY DEF IInv, TypeOK
<1>2. /\ queue' \in Seq(Patch) /\ DOMAIN queue' = 1..(n - 1) /\ n >= 1 /\ DOMAIN queue = 1..n
      /\ \A i \in DOMAIN queue' : i + 1 \in DOMAIN queue /\ queue'[i] = queue[i + 1]
      /\ Head(queue) = queue[1] /\ 1 \in DOMAIN queue
  BY <1>1
<1>3. \A i \in DOMAIN queue' : i + 1 # 1
  BY <1>1, <1>2
<1>4. \A i \in DOMAIN queue' : queue'[i].call \in Calls \ {Head(queue).call}
  <2>1. \A i \in DOMAIN queue : queue[i].call \in Calls
    BY <1>1 DEF Patch
  <2> QED BY <1>2, <1>3, <2>1 DEF IInv, QueueOK
<1>5. \A i, j \in DOMAIN queue' : i + 1 = j + 1 => i = j
  BY <1>1, <1>2
<1> HIDE DEF n
<1>6. FileOK'
  BY <1>2 DEF IInv, FileOK, Kept, WellFormed, Entries
<1>7. QueueOK'
  BY <1>2, <1>4, <1>5 DEF IInv, QueueOK
<1> QED BY <1>2, <1>6, <1>7

\* Nothing on the way to the file changes.
LEMMA FileUntouched ==
    ASSUME IInv, UNCHANGED <<file, queue, writing>>,
           \A d \in Calls : call[d].at \in {"queued", "ensureWrite"} => call'[d] = call[d]
    PROVE  queue' \in Seq(Patch) /\ FileOK' /\ QueueOK'
<1>1. \A i \in DOMAIN queue : queue[i].call \in Calls
  BY DEF IInv, TypeOK, Patch
<1> QED BY <1>1 DEF IInv, TypeOK, FileOK, QueueOK, Kept, WellFormed, Entries

\* A list object is dropped only when no call holds it.
LEMMA Collected ==
    ASSUME IInv, Collect, call' \in [Calls -> CallState]
    PROVE  /\ obj' \in [Calls -> Profiles]
           /\ \A c \in Calls : call'[c].owner \in Calls => obj'[call'[c].owner] = obj[call'[c].owner]
<1>1. NoProfiles \in Profiles
  BY DEF NoProfiles, Profiles
<1> QED BY <1>1 DEF Collect, IInv, TypeOK

-----------------------------------------------------------------------------
(* The steps *)

\* A call goes on to another point.
LEMMA PointSet ==
    ASSUME NEW x \in CallState,
           NEW point \in {"ensure2", "ensureWrite", "ready", "snapshot", "queued"}
    PROVE  /\ [x EXCEPT !.at = point] \in CallState /\ [x EXCEPT !.at = point].at = point
           /\ [x EXCEPT !.at = point].owner = x.owner /\ [x EXCEPT !.at = point].op = x.op
           /\ [x EXCEPT !.at = point].id = x.id /\ [x EXCEPT !.at = point].idx = x.idx
BY DEF CallState

LEMMA BeginKeeps ==
    ASSUME IInv, NEW c \in Calls, NEW op \in Ops, NEW id \in Ids \cup {None}, begin(c, op, id)
    PROVE  IInv'
<1> DEFINE x == [op |-> op, id |-> id, at |-> "ensure", idx |-> 0,
                 owner |-> IF ensuring = None THEN c ELSE ensuring]
<1>1. /\ x \in CallState /\ x.at = "ensure" /\ x.owner \in Calls /\ (x.op = "create" => x.id \in Ids)
      /\ x.op # "sync"
  <2>1. op \in {"create", "activate", "rename", "save", "delete"}
    BY DEF begin
  <2>2. op = "create" => id \in Ids
    BY DEF begin, FreshIds
  <2>3. ensuring \in Calls \cup {None}
    BY DEF IInv, TypeOK
  <2> QED BY <2>1, <2>2, <2>3 DEF CallState
<1>2. x.owner = (IF ensuring = None THEN c ELSE ensuring)
  OBVIOUS
<1> HIDE DEF x
<1>3. /\ call[c].at = "idle" /\ \A d \in Calls : call[d].owner # c
      /\ call' = [call EXCEPT ![c] = x] /\ ensuring' = (IF ensuring = None THEN c ELSE ensuring)
      /\ UNCHANGED <<file, queue, writing, obj, used>>
  BY DEF begin, Idle, x
<1>4. TypeOK'
  BY <1>1, <1>3 DEF IInv, TypeOK
<1>5. call'[c] = x /\ \A d \in Calls \ {c} : call'[d] = call[d]
  BY <1>3 DEF IInv, TypeOK
<1>6. FileOK' /\ QueueOK'
  BY <1>3, <1>5, FileUntouched
<1>7. EnsuringOK'
  BY <1>1, <1>2, <1>3, <1>5, NothingAssumption DEF IInv, TypeOK, EnsuringOK, Usable
<1>8. \A d \in Calls : CallOK(d)'
  BY <1>1, <1>3, <1>5 DEF IInv, CallOK, Usable
<1> QED BY <1>4, <1>6, <1>7, <1>8 DEF IInv

\* The promise of ensureProfilesOnStartup is fulfilled with a usable list.
LEMMA ResolveKeeps ==
    ASSUME IInv, ensuring # None, NEW list \in Profiles, Usable(list), Resolve(ensuring, list)
    PROVE  /\ obj' \in [Calls -> Profiles] /\ call' \in [Calls -> CallState]
           /\ EnsuringOK' /\ \A c \in Calls : CallOK(c)'
           /\ \A d \in Calls \ {ensuring} :
                call[d].at \in {"queued", "ensureWrite"} => call'[d] = call[d]
<1> DEFINE o == ensuring
           resolved(d) == call[d].at # "idle" /\ call[d].owner = o
<1>1. o \in Calls /\ call \in [Calls -> CallState] /\ obj \in [Calls -> Profiles]
  BY DEF IInv, TypeOK
<1>2. /\ obj' = [obj EXCEPT ![o] = list] /\ ensuring' = None
      /\ \A d \in Calls : call'[d] = IF resolved(d) THEN [call[d] EXCEPT !.at = "ready"] ELSE call[d]
      /\ call' \in [Calls -> CallState]
  <2> DEFINE ready(d) == [call[d] EXCEPT !.at = "ready"]
  <2>1. \A d \in Calls : ready(d) \in CallState
    BY <1>1, PointSet
  <2>2. obj' = [obj EXCEPT ![o] = list] /\ ensuring' = None
        /\ call' = [d \in Calls |-> IF resolved(d) THEN ready(d) ELSE call[d]]
    BY DEF Resolve
  <2> HIDE DEF ready, resolved
  <2>3. \A d \in Calls : call'[d] = IF resolved(d) THEN ready(d) ELSE call[d]
    BY <2>2
  <2>4. call' \in [Calls -> CallState]
    BY <1>1, <2>1, <2>2
  <2> QED BY <2>2, <2>3, <2>4 DEF ready
<1>3. \A d \in Calls : resolved(d) => call[d].at \in {"ensure", "ensure2", "ensureWrite"}
  BY <1>1 DEF IInv, EnsuringOK
<1>4. \A d \in Calls : call[d].at = "ensureWrite" => d = o /\ resolved(d)
  BY <1>1 DEF IInv, EnsuringOK
<1>5. \A d \in Calls : /\ resolved(d) => call'[d].at = "ready"
                       /\ ~resolved(d) => call'[d].at = call[d].at
                       /\ call'[d].owner = call[d].owner /\ call'[d].op = call[d].op
                       /\ call'[d].id = call[d].id /\ call'[d].idx = call[d].idx
  <2> TAKE d \in Calls
  <2> DEFINE x == [call[d] EXCEPT !.at = "ready"]
  <2>1. /\ x.at = "ready" /\ x.owner = call[d].owner /\ x.op = call[d].op
        /\ x.id = call[d].id /\ x.idx = call[d].idx
    BY <1>1, PointSet
  <2>2. call'[d] = IF resolved(d) THEN x ELSE call[d]
    BY <1>2
  <2> HIDE DEF x, resolved
  <2> QED BY <2>1, <2>2
<1>6. obj' \in [Calls -> Profiles] /\ obj'[o] = list /\ \A c \in Calls \ {o} : obj'[c] = obj[c]
  BY <1>1, <1>2
<1>7. EnsuringOK'
  BY <1>2, <1>4, <1>5, NothingAssumption DEF EnsuringOK
<1>8. ASSUME NEW d \in Calls PROVE CallOK(d)'
  <2>1. CallOK(d)
    BY DEF IInv
  <2>2. \A c \in Calls : Usable(obj[c]) => Usable(obj'[c])
    BY <1>6
  <2> HIDE DEF o
  <2>3. CASE resolved(d)
    BY <1>1, <1>5, <1>6, <2>1, <2>3 DEF CallOK, Usable
  <2>4. CASE ~resolved(d)
    BY <1>1, <1>5, <2>1, <2>2, <2>4 DEF CallOK, Usable
  <2> QED BY <2>3, <2>4
<1>9. \A d \in Calls \ {o} : call[d].at \in {"queued", "ensureWrite"} => call'[d] = call[d]
  BY <1>2, <1>3, <1>4
<1> QED BY <1>2, <1>6, <1>7, <1>8, <1>9

\* The list that was read is the one that all go on with.
LEMMA ReadResolved ==
    ASSUME IInv, NEW c \in Calls, ensuring = c, call[c].at \in {"ensure", "ensure2"},
           UNCHANGED <<file, queue, writing>>,
           readProfilesState.entries # <<>>, Resolve(c, readProfilesState)
    PROVE  IInv'
<1> DEFINE list == readProfilesState
<1>1. list \in Profiles /\ Usable(list)
  BY ReadKept, KeptUsable
<1> HIDE DEF list
<1>2. ensuring # None /\ Resolve(ensuring, list)
  BY NothingAssumption DEF list
<1>3. /\ obj' \in [Calls -> Profiles] /\ call' \in [Calls -> CallState]
      /\ EnsuringOK' /\ \A d \in Calls : CallOK(d)'
      /\ \A d \in Calls \ {c} : call[d].at \in {"queued", "ensureWrite"} => call'[d] = call[d]
  BY <1>1, <1>2, ResolveKeeps
<1>4. queue' \in Seq(Patch) /\ FileOK' /\ QueueOK'
  BY <1>3, FileUntouched
<1>5. ensuring' = None
  BY DEF Resolve
<1> QED BY <1>3, <1>4, <1>5 DEF IInv, TypeOK

LEMMA EnsureReadKeeps == ASSUME IInv, NEW c \in Calls, ensureRead(c) PROVE IInv'
<1>1. ensuring = c /\ call[c].at = "ensure" /\ UNCHANGED <<file, queue, writing, used>>
  BY DEF ensureRead
<1>2. CASE readProfilesState.entries # <<>> /\ Resolve(c, readProfilesState)
  BY <1>1, <1>2, ReadResolved
<1>3. CASE call' = [call EXCEPT ![c].at = "ensure2"] /\ UNCHANGED <<obj, ensuring>>
  <2> DEFINE x == [call[c] EXCEPT !.at = "ensure2"]
  <2>0. x \in CallState /\ x.at = "ensure2" /\ x.owner = call[c].owner
        /\ x.op = call[c].op /\ x.id = call[c].id
    BY PointSet DEF IInv, TypeOK
  <2>1. call' = [call EXCEPT ![c] = x]
    BY <1>3
  <2> HIDE DEF x
  <2>2. /\ call' \in [Calls -> CallState] /\ \A d \in Calls \ {c} : call'[d] = call[d]
        /\ call'[c] = x
    BY <2>0, <2>1 DEF IInv, TypeOK
  <2>3. queue' \in Seq(Patch) /\ FileOK' /\ QueueOK'
    BY <1>1, <2>2, FileUntouched
  <2>4. EnsuringOK'
    BY <1>1, <1>3, <2>0, <2>2 DEF IInv, EnsuringOK
  <2>5. \A d \in Calls : CallOK(d)'
    BY <1>1, <1>3, <2>0, <2>2 DEF IInv, CallOK
  <2> QED BY <1>1, <1>3, <2>2, <2>3, <2>4, <2>5 DEF IInv, TypeOK
<1> QED BY <1>2, <1>3 DEF ensureRead

\* The list with the one profile that the start makes is written before anybody has it.
LEMMA EnsureRereadKeeps == ASSUME IInv, NEW c \in Calls, ensureReread(c) PROVE IInv'
<1>1. ensuring = c /\ call[c].at = "ensure2" /\ UNCHANGED <<file, writing, used>>
  BY DEF ensureReread
<1>2. CASE readProfilesState.entries # <<>> /\ Resolve(c, readProfilesState) /\ UNCHANGED queue
  BY <1>1, <1>2, ReadResolved
<1>3. ASSUME NEW id \in FreshIds,
             LET next == [active |-> id, entries |-> <<id>>]
             IN  /\ obj' = [obj EXCEPT ![c] = next]
                 /\ call' = [call EXCEPT ![c].at = "ensureWrite"]
                 /\ writeProfilesState(c, next)
                 /\ UNCHANGED ensuring
      PROVE  IInv'
  <2> DEFINE next == [active |-> id, entries |-> <<id>>]
             x == [call[c] EXCEPT !.at = "ensureWrite"]
             patch == [kind |-> "profiles", call |-> c, state |-> normalizeProfilesConfig(next)]
  <2>1. next \in Profiles /\ Usable(next)
    BY NothingAssumption DEF Usable, Profiles, FreshIds
  <2>2. /\ x \in CallState /\ x.at = "ensureWrite" /\ x.owner = call[c].owner
        /\ x.op = call[c].op /\ x.id = call[c].id
    BY PointSet DEF IInv, TypeOK
  <2>3. /\ obj' = [obj EXCEPT ![c] = next] /\ call' = [call EXCEPT ![c] = x]
        /\ queue' = Append(queue, patch) /\ ensuring' = ensuring
    BY <1>3 DEF writeProfilesState
  <2> HIDE DEF next
  <2>4. patch \in Patch /\ patch.call = c /\ WellFormed(patch.state)
    BY <2>1, NormalisedWellFormed DEF Patch
  <2> HIDE DEF x, patch
  <2>5. /\ call' \in [Calls -> CallState] /\ call'[c] = x /\ \A d \in Calls \ {c} : call'[d] = call[d]
        /\ obj' \in [Calls -> Profiles] /\ obj'[c] = next /\ \A d \in Calls \ {c} : obj'[d] = obj[d]
    BY <2>1, <2>2, <2>3 DEF IInv, TypeOK
  <2>6. queue' \in Seq(Patch) /\ FileOK' /\ QueueOK'
    BY <1>1, <2>2, <2>3, <2>4, <2>5, PatchQueued
  <2>7. EnsuringOK'
    BY <1>1, <2>1, <2>2, <2>3, <2>5 DEF IInv, EnsuringOK, Usable
  <2>8. \A d \in Calls : Usable(obj[d]) => Usable(obj'[d])
    BY <2>1, <2>5 DEF Usable
  <2>9. \A d \in Calls : CallOK(d)'
    BY <1>1, <2>2, <2>5, <2>8 DEF IInv, CallOK, Usable
  <2> QED BY <1>1, <2>3, <2>5, <2>6, <2>7, <2>9 DEF IInv, TypeOK
<1> QED BY <1>2, <1>3 DEF ensureReread

\* A handler changes its list object and waits for the write of a copy.
LEMMA SubmitKeeps ==
    ASSUME IInv, NEW c \in Calls, call[c].at \in {"ready", "snapshot"}, call[c].owner \in Calls,
           NEW list \in Profiles, Usable(list), Submit(c, list)
    PROVE  IInv'
<1> DEFINE o == call[c].owner
           x == [call[c] EXCEPT !.at = "queued"]
           patch == [kind |-> "profiles", call |-> c, state |-> normalizeProfilesConfig(list)]
<1>1. /\ x \in CallState /\ x.at = "queued" /\ x.owner = call[c].owner
      /\ x.op = call[c].op /\ x.id = call[c].id
  BY PointSet DEF IInv, TypeOK
<1>2. /\ obj' = [obj EXCEPT ![o] = list] /\ call' = [call EXCEPT ![c] = x]
      /\ queue' = Append(queue, patch) /\ UNCHANGED <<file, writing, ensuring, used>>
  BY DEF Submit, writeProfilesState
<1>3. patch \in Patch /\ patch.call = c /\ WellFormed(patch.state)
  BY NormalisedWellFormed DEF Patch
<1> HIDE DEF x, patch, o
<1>4. o \in Calls
  BY DEF o
<1>5. /\ call' \in [Calls -> CallState] /\ call'[c] = x /\ \A d \in Calls \ {c} : call'[d] = call[d]
      /\ obj' \in [Calls -> Profiles] /\ obj'[o] = list /\ \A d \in Calls \ {o} : obj'[d] = obj[d]
  BY <1>1, <1>2, <1>4 DEF IInv, TypeOK
<1>6. queue' \in Seq(Patch) /\ FileOK' /\ QueueOK'
  BY <1>1, <1>2, <1>3, <1>5, PatchQueued
<1>7. \A d \in Calls : Usable(obj[d]) => Usable(obj'[d])
  BY <1>5
<1>8. EnsuringOK'
  <2>1. ensuring # c
    BY NothingAssumption DEF IInv, EnsuringOK
  <2>2. ensuring # None => call[c].owner # ensuring
    BY <2>1 DEF IInv, EnsuringOK
  <2> QED BY <1>1, <1>2, <1>5, <1>7, <2>1, <2>2 DEF IInv, TypeOK, EnsuringOK, Usable
<1>9. \A d \in Calls : CallOK(d)'
  BY <1>1, <1>5, <1>7 DEF IInv, CallOK, Usable
<1> QED BY <1>2, <1>5, <1>6, <1>8, <1>9 DEF IInv, TypeOK

\* A call that nobody waits for ends.
LEMMA EndedKeeps ==
    ASSUME IInv, NEW c \in Calls, call[c].at \in {"ready", "queued"},
           call' = Ended(c), Collect, UNCHANGED ensuring
    PROVE  /\ obj' \in [Calls -> Profiles] /\ call' \in [Calls -> CallState]
           /\ EnsuringOK' /\ \A d \in Calls : CallOK(d)'
           /\ \A d \in Calls \ {c} : call'[d] = call[d]
<1>1. Idle \in CallState /\ Idle.at = "idle" /\ Idle.op = "idle" /\ Idle.owner = None
  BY DEF Idle, CallState
<1>2. /\ call' \in [Calls -> CallState] /\ call'[c] = Idle
      /\ \A d \in Calls \ {c} : call'[d] = call[d]
  BY <1>1 DEF Ended, IInv, TypeOK
<1>3. /\ obj' \in [Calls -> Profiles]
      /\ \A d \in Calls : call'[d].owner \in Calls => obj'[call'[d].owner] = obj[call'[d].owner]
  BY <1>2, Collected
<1>4. EnsuringOK'
  <2>1. ensuring # c
    BY NothingAssumption DEF IInv, EnsuringOK
  <2>2. \A d \in Calls : call'[d].at = "ensureWrite" => call'[d] = call[d] /\ ensuring = d
    BY <1>1, <1>2 DEF IInv, EnsuringOK
  <2>3. \A d \in Calls : call'[d].at = "ensureWrite" => obj'[d] = obj[d]
    BY <1>3, <2>2, NothingAssumption DEF IInv, EnsuringOK
  <2> QED BY <1>1, <1>2, <2>1, <2>2, <2>3, NothingAssumption DEF IInv, TypeOK, EnsuringOK, Usable
<1>5. \A d \in Calls : CallOK(d)'
  BY <1>1, <1>2, <1>3, NothingAssumption DEF IInv, CallOK, Usable
<1> QED BY <1>2, <1>3, <1>4, <1>5

LEMMA RefuseKeeps ==
    ASSUME IInv, NEW c \in Calls, call[c].at = "ready", Refuse(c) PROVE IInv'
<1>1. call' = Ended(c) /\ Collect /\ UNCHANGED <<file, queue, writing, ensuring, used>>
  BY DEF Refuse
<1>2. /\ obj' \in [Calls -> Profiles] /\ call' \in [Calls -> CallState]
      /\ EnsuringOK' /\ \A d \in Calls : CallOK(d)'
      /\ \A d \in Calls \ {c} : call'[d] = call[d]
  BY <1>1, EndedKeeps
<1>3. queue' \in Seq(Patch) /\ FileOK' /\ QueueOK'
  BY <1>1, <1>2, FileUntouched
<1> QED BY <1>1, <1>2, <1>3 DEF IInv, TypeOK

\* What a handler that goes on finds in its list object.
LEMMA ListInHand ==
    ASSUME IInv, NEW c \in Calls,
           call[c].at = "ready" \/ (call[c].at = "snapshot" /\ call[c].op = "save")
    PROVE  /\ call[c].owner \in Calls /\ State(c) \in Profiles /\ Usable(State(c))
           /\ State(c).entries \in Seq(Ids) /\ State(c).active \in Ids
           /\ State(c) = [active |-> State(c).active, entries |-> State(c).entries]
<1>1. call[c].owner \in Calls /\ State(c) \in Profiles /\ Usable(State(c))
  BY DEF IInv, TypeOK, CallOK, State
<1> QED BY <1>1 DEF Profiles, Usable

LEMMA RemovedOne ==
    ASSUME NEW S, NEW s \in Seq(S), NEW i \in 1..Len(s)
    PROVE  RemoveAt(s, i) \in Seq(S) /\ Len(RemoveAt(s, i)) = Len(s) - 1
<1>1. Len(s) \in Nat /\ i \in Nat
  OBVIOUS
<1> DEFINE a == SubSeq(s, 1, i - 1)
           b == SubSeq(s, i + 1, Len(s))
<1>2. a \in Seq(S) /\ Len(a) = i - 1
  BY <1>1
<1>3. b \in Seq(S) /\ Len(b) = Len(s) - i
  BY <1>1
<1>4. RemoveAt(s, i) = a \o b
  BY DEF RemoveAt
<1> HIDE DEF a, b
<1>5. a \o b \in Seq(S) /\ Len(a \o b) = Len(a) + Len(b)
  BY <1>2, <1>3
<1> QED BY <1>1, <1>2, <1>3, <1>4, <1>5

LEMMA HandlersKeep ==
    ASSUME IInv, NEW c \in Calls,
           createProfile(c) \/ activateProfile(c) \/ renameProfile(c) \/ deleteProfile(c)
    PROVE  IInv'
<1> DEFINE list == State(c)
<1>1. call[c].at = "ready"
  BY DEF createProfile, activateProfile, renameProfile, deleteProfile, Ready
<1>2. /\ call[c].owner \in Calls /\ list \in Profiles /\ Usable(list)
      /\ list.entries \in Seq(Ids) /\ list.active \in Ids
      /\ list = [active |-> list.active, entries |-> list.entries]
  BY <1>1, ListInHand
<1>3. CASE createProfile(c)
  <2> DEFINE next == [active |-> call[c].id, entries |-> Append(list.entries, call[c].id)]
  <2>1. call[c].id \in Ids
    BY <1>3 DEF createProfile, Ready, IInv, CallOK
  <2>2. next \in Profiles /\ Usable(next)
    <3>1. Append(list.entries, call[c].id) \in Seq(Ids) /\ Append(list.entries, call[c].id) # <<>>
      BY <1>2, <2>1
    <3> QED BY <2>1, <3>1, NothingAssumption DEF Profiles, Usable
  <2>3. Submit(c, next)
    BY <1>3 DEF createProfile
  <2> HIDE DEF next
  <2> QED BY <1>1, <1>2, <2>2, <2>3, SubmitKeeps
<1>4. CASE activateProfile(c)
  <2> DEFINE next == [list EXCEPT !.active = call[c].id]
  <2>1. CASE call[c].id \in Entries(list) /\ Submit(c, next)
    <3>1. call[c].id \in Ids
      BY <1>2, <2>1 DEF Entries, ToSet
    <3>2. next \in Profiles /\ Usable(next)
      BY <1>2, <3>1, NothingAssumption DEF Profiles, Usable
    <3> HIDE DEF next
    <3> QED BY <1>1, <1>2, <2>1, <3>2, SubmitKeeps
  <2>2. CASE Refuse(c)
    BY <1>1, <2>2, RefuseKeeps
  <2> QED BY <1>4, <2>1, <2>2 DEF activateProfile
<1>5. CASE renameProfile(c)
  <2>1. CASE Submit(c, list)
    <3> HIDE DEF list
    <3> QED BY <1>1, <1>2, <2>1, SubmitKeeps
  <2>2. CASE Refuse(c)
    BY <1>1, <2>2, RefuseKeeps
  <2> QED BY <1>5, <2>1, <2>2 DEF renameProfile
<1>6. CASE deleteProfile(c)
  <2> DEFINE rest == RemoveAt(list.entries, FirstIndex(list.entries, call[c].id))
             next == [active |-> IF list.active \in {None, call[c].id} THEN Head(rest) ELSE list.active,
                      entries |-> rest]
  <2>1. CASE Len(list.entries) > 1 /\ call[c].id \in Entries(list) /\ Submit(c, next)
    <3> DEFINE place == FirstIndex(list.entries, call[c].id)
    <3>1. place \in 1..Len(list.entries)
      <4>1. \E i \in Firsts(list.entries) : list.entries[i] = call[c].id
        BY <1>2, <2>1, FirstPlace DEF Entries
      <4>2. place \in Firsts(list.entries)
        BY <4>1 DEF FirstIndex
      <4> QED BY <1>2, <4>2 DEF Firsts
    <3> HIDE DEF place, list
    <3>2. rest \in Seq(Ids) /\ rest # <<>>
      <4>1. rest \in Seq(Ids) /\ Len(rest) = Len(list.entries) - 1
        BY <1>2, <3>1, RemovedOne DEF place
      <4> HIDE DEF rest
      <4> QED BY <1>2, <2>1, <4>1
    <3> HIDE DEF rest
    <3>3. Head(rest) \in Ids
      BY <3>2
    <3>4. next \in Profiles /\ Usable(next)
      BY <1>2, <3>2, <3>3, NothingAssumption DEF Profiles, Usable
    <3> HIDE DEF next
    <3> QED BY <1>1, <1>2, <2>1, <3>4, SubmitKeeps
  <2>2. CASE Refuse(c)
    BY <1>1, <2>2, RefuseKeeps
  <2> QED BY <1>6, <2>1, <2>2 DEF deleteProfile
<1> QED BY <1>3, <1>4, <1>5, <1>6

\* The place of the active profile is looked up ...
LEMMA SaveReadsKeep == ASSUME IInv, NEW c \in Calls, saveActiveProfile(c) PROVE IInv'
<1> DEFINE list == State(c)
           place == FirstIndex(list.entries, list.active)
           x == [call[c] EXCEPT !.at = "snapshot", !.id = list.active, !.idx = place]
<1>1. call[c].at = "ready" /\ call[c].op = "save"
  BY DEF saveActiveProfile, Ready
<1>2. /\ call[c].owner \in Calls /\ list \in Profiles /\ Usable(list)
      /\ list.entries \in Seq(Ids) /\ list.active \in Ids
  BY <1>1, ListInHand
<1>3. CASE Refuse(c)
  BY <1>1, <1>3, RefuseKeeps
<1>4. CASE /\ list.active \in Entries(list) /\ call' = [call EXCEPT ![c] = x]
           /\ UNCHANGED <<file, queue, writing, ensuring, obj, used>>
  <2>1. place \in 1..Len(list.entries)
    <3>1. \E i \in Firsts(list.entries) : list.entries[i] = list.active
      BY <1>2, <1>4, FirstPlace DEF Entries
    <3>2. place \in Firsts(list.entries)
      BY <3>1 DEF FirstIndex
    <3> QED BY <1>2, <3>2 DEF Firsts
  <2> HIDE DEF list, place
  <2>2. place \in Nat /\ place >= 1
    BY <1>2, <2>1
  <2>3. call[c] \in CallState
    BY DEF IInv, TypeOK
  <2>4. /\ x \in CallState /\ x.at = "snapshot" /\ x.owner = call[c].owner /\ x.op = "save"
        /\ x.id \in Ids /\ x.idx >= 1
    BY <1>1, <1>2, <2>2, <2>3 DEF CallState
  <2> HIDE DEF x
  <2>5. /\ call' \in [Calls -> CallState] /\ call'[c] = x
        /\ \A d \in Calls \ {c} : call'[d] = call[d]
    BY <1>4, <2>4 DEF IInv, TypeOK
  <2>6. queue' \in Seq(Patch) /\ FileOK' /\ QueueOK'
    BY <1>1, <1>4, <2>5, FileUntouched
  <2>7. EnsuringOK'
    <3>1. ensuring # c /\ (ensuring # None => call[c].owner # ensuring)
      BY <1>1, NothingAssumption DEF IInv, EnsuringOK
    <3> QED BY <1>4, <2>4, <2>5, <3>1 DEF IInv, TypeOK, EnsuringOK, Usable
  <2>8. \A d \in Calls : CallOK(d)'
    BY <1>1, <1>4, <2>4, <2>5 DEF IInv, CallOK, Usable
  <2> QED BY <1>4, <2>5, <2>6, <2>7, <2>8 DEF IInv, TypeOK
<1>5. Refuse(c) \/ (/\ list.active \in Entries(list) /\ call' = [call EXCEPT ![c] = x]
                    /\ UNCHANGED <<file, queue, writing, ensuring, obj, used>>)
  BY DEF saveActiveProfile
<1> QED BY <1>3, <1>4, <1>5

\* ... and the profile is put at that place, whatever the list has become.
LEMMA SaveWritesKeep == ASSUME IInv, NEW c \in Calls, saveActiveWrite(c) PROVE IInv'
<1> DEFINE list == State(c)
           put == IF call[c].idx <= Len(list.entries)
                  THEN [list.entries EXCEPT ![call[c].idx] = call[c].id]
                  ELSE Append(list.entries, call[c].id)
           next == [list EXCEPT !.entries = put]
<1>1. call[c].at = "snapshot" /\ call[c].op = "save" /\ Submit(c, next)
  BY DEF saveActiveWrite
<1>2. /\ call[c].owner \in Calls /\ list \in Profiles /\ Usable(list)
      /\ list.entries \in Seq(Ids) /\ list.active \in Ids
  BY <1>1, ListInHand
<1>3. call[c].id \in Ids /\ call[c].idx \in Nat /\ call[c].idx >= 1
  BY <1>1 DEF IInv, TypeOK, CallState, CallOK
<1> HIDE DEF list
<1>4. put \in Seq(Ids) /\ put # <<>>
  BY <1>2, <1>3 DEF Usable
<1> HIDE DEF put
<1>5. next \in Profiles /\ Usable(next)
  BY <1>2, <1>4, NothingAssumption DEF Profiles, Usable
<1> HIDE DEF next
<1> QED BY <1>1, <1>2, <1>5, SubmitKeeps

\* A call that was idle goes on without a list object.
LEMMA LooseCallKeeps ==
    ASSUME IInv, NEW c \in Calls, call[c].at \in {"idle", "snapshot"}, call[c].op # "save",
           NEW x \in CallState, x.owner = None, x.op # "create",
           x.at = "queued" \/ (x.at = "snapshot" /\ x.op = "sync" /\ x.id \in Ids),
           call' = [call EXCEPT ![c] = x], UNCHANGED <<ensuring, obj>>
    PROVE  /\ call' \in [Calls -> CallState] /\ call'[c] = x
           /\ \A d \in Calls \ {c} : call'[d] = call[d]
           /\ EnsuringOK' /\ \A d \in Calls : CallOK(d)'
<1>1. /\ call' \in [Calls -> CallState] /\ call'[c] = x
      /\ \A d \in Calls \ {c} : call'[d] = call[d]
  BY DEF IInv, TypeOK
<1>2. ensuring # c
  BY NothingAssumption DEF IInv, EnsuringOK
<1>3. EnsuringOK'
  BY <1>1, <1>2, NothingAssumption DEF IInv, TypeOK, EnsuringOK, Usable
<1>4. \A d \in Calls : CallOK(d)'
  BY <1>1 DEF IInv, CallOK, Usable
<1> QED BY <1>1, <1>3, <1>4

LEMMA BeginSyncKeeps == ASSUME IInv, NEW c \in Calls, beginSync(c) PROVE IInv'
<1> DEFINE id == readProfilesState.active
           x == [Idle EXCEPT !.op = "sync", !.at = "snapshot", !.id = id]
<1>1. call[c] = Idle /\ UNCHANGED <<file, queue, writing, ensuring, obj, used>>
  BY DEF beginSync
<1>2. CASE UNCHANGED call
  BY <1>1, <1>2 DEF IInv, TypeOK, FileOK, QueueOK, EnsuringOK, CallOK, Kept, WellFormed, Entries, Usable
<1>3. CASE id # None /\ call' = [call EXCEPT ![c] = x]
  <2>1. id \in Ids
    BY <1>3, ReadKept DEF Profiles
  <2> HIDE DEF id
  <2>2. /\ x \in CallState /\ x.owner = None /\ x.op = "sync" /\ x.at = "snapshot" /\ x.id \in Ids
    BY <2>1 DEF Idle, CallState
  <2>3. call[c].at = "idle" /\ call[c].op # "save"
    BY <1>1 DEF Idle
  <2> HIDE DEF x
  <2>4. /\ call' \in [Calls -> CallState] /\ call'[c] = x
        /\ \A d \in Calls \ {c} : call'[d] = call[d]
        /\ EnsuringOK' /\ \A d \in Calls : CallOK(d)'
    BY <1>1, <1>3, <2>2, <2>3, LooseCallKeeps
  <2>5. queue' \in Seq(Patch) /\ FileOK' /\ QueueOK'
    BY <1>1, <2>3, <2>4, FileUntouched
  <2> QED BY <1>1, <2>4, <2>5 DEF IInv, TypeOK
<1> QED BY <1>2, <1>3 DEF beginSync

\* The list is read again, and the profile added to it if it is not there.
LEMMA SyncWriteKeeps == ASSUME IInv, NEW c \in Calls, syncWrite(c) PROVE IInv'
<1> DEFINE latest == readProfilesState
           id == call[c].id
           next == [active  |-> IF latest.active = None THEN id ELSE latest.active,
                    entries |-> IF id \in Entries(latest) THEN latest.entries
                                ELSE Append(latest.entries, id)]
           patch == [kind |-> "profiles", call |-> c, state |-> normalizeProfilesConfig(next)]
           x == [call[c] EXCEPT !.at = "queued"]
<1>1. /\ call[c].at = "snapshot" /\ call[c].op = "sync" /\ queue' = Append(queue, patch)
      /\ call' = [call EXCEPT ![c] = x] /\ UNCHANGED <<file, writing, ensuring, obj, used>>
  BY DEF syncWrite, writeProfilesState
<1>2. id \in Ids
  BY <1>1 DEF IInv, CallOK
<1>3. latest.entries \in Seq(Ids) /\ latest.active \in Ids \cup {None}
  BY ReadKept DEF Profiles
<1>4. /\ x \in CallState /\ x.at = "queued" /\ x.owner = None /\ x.op = "sync"
  <2>1. call[c] \in CallState /\ call[c].owner = None
    BY <1>1 DEF IInv, TypeOK, CallOK
  <2>2. x.op = call[c].op /\ x.owner = call[c].owner /\ x.at = "queued" /\ x \in CallState
    BY <2>1, PointSet
  <2> HIDE DEF x
  <2> QED BY <1>1, <2>1, <2>2
<1> HIDE DEF latest, id, x
<1>5. next.entries \in Seq(Ids) /\ next.entries # <<>>
  <2>1. CASE id \in Entries(latest)
    BY <1>3, <2>1 DEF Entries, ToSet
  <2>2. CASE id \notin Entries(latest)
    BY <1>2, <1>3, <2>2
  <2> QED BY <2>1, <2>2
<1>6. next.active \in Ids
  BY <1>2, <1>3
<1>7. next \in Profiles /\ Usable(next)
  BY <1>5, <1>6, NothingAssumption DEF Profiles, Usable
<1> HIDE DEF next
<1>8. patch \in Patch /\ patch.call = c /\ WellFormed(patch.state)
  BY <1>7, NormalisedWellFormed DEF Patch
<1> HIDE DEF patch
<1>9. /\ call' \in [Calls -> CallState] /\ call'[c] = x
      /\ \A d \in Calls \ {c} : call'[d] = call[d]
      /\ EnsuringOK' /\ \A d \in Calls : CallOK(d)'
  BY <1>1, <1>4, LooseCallKeeps
<1>10. queue' \in Seq(Patch) /\ FileOK' /\ QueueOK'
  BY <1>1, <1>4, <1>8, <1>9, PatchQueued
<1> QED BY <1>1, <1>9, <1>10 DEF IInv, TypeOK

LEMMA WriteOtherKeeps == ASSUME IInv, NEW c \in Calls, writeOther(c) PROVE IInv'
<1> DEFINE x == [Idle EXCEPT !.op = "other", !.at = "queued"]
           patch == [kind |-> "other", call |-> c]
<1>1. /\ call[c] = Idle /\ call' = [call EXCEPT ![c] = x] /\ queue' = Append(queue, patch)
      /\ UNCHANGED <<file, writing, ensuring, obj, used>>
  BY DEF writeOther
<1>2. x \in CallState /\ x.owner = None /\ x.op = "other" /\ x.at = "queued"
  BY DEF Idle, CallState
<1>3. call[c].at = "idle" /\ call[c].op = "idle"
  BY <1>1 DEF Idle
<1>4. patch \in Patch /\ patch.call = c /\ patch.kind # "profiles"
  BY DEF Patch
<1> HIDE DEF x, patch
<1>5. /\ call' \in [Calls -> CallState] /\ call'[c] = x
      /\ \A d \in Calls \ {c} : call'[d] = call[d]
      /\ EnsuringOK' /\ \A d \in Calls : CallOK(d)'
  BY <1>1, <1>2, <1>3, LooseCallKeeps
<1>6. queue' \in Seq(Patch) /\ FileOK' /\ QueueOK'
  BY <1>1, <1>2, <1>3, <1>4, <1>5, PatchQueued
<1> QED BY <1>1, <1>5, <1>6 DEF IInv, TypeOK

\* The first patch begins: the profiles of the file are those of the patch, or the
\* ones that it reads.
LEMMA PatchBeginKeeps == ASSUME IInv, patchBegin PROVE IInv'
<1>1. /\ queue # <<>> /\ writing = None /\ file' = Torn
      /\ UNCHANGED <<queue, ensuring, obj, call, used>>
      /\ writing' = IF Head(queue).kind = "profiles" THEN Head(queue).state ELSE readProfilesState
  BY DEF patchBegin
<1>2. queue \in Seq(Patch)
  BY DEF IInv, TypeOK
<1>3. Head(queue) = queue[1] /\ 1 \in DOMAIN queue /\ Head(queue) \in Patch
  BY <1>1, <1>2
<1>4. Head(queue).kind = "profiles" => WellFormed(Head(queue).state) /\ Head(queue).state \in Profiles
  BY <1>3 DEF IInv, FileOK, Patch
<1>5. writing' \in Profiles /\ Kept(writing')
  BY <1>1, <1>4, ReadKept DEF Kept
<1>6. FileOK'
  BY <1>1, <1>5 DEF IInv, FileOK, Kept, WellFormed, Entries
<1> QED BY <1>1, <1>5, <1>6 DEF IInv, TypeOK, QueueOK, EnsuringOK, CallOK, Usable

\* The call of the first patch.
LEMMA FirstPatch ==
    ASSUME IInv, queue # <<>>
    PROVE  /\ Head(queue).call \in Calls
           /\ call[Head(queue).call].at \in {"queued", "ensureWrite"}
<1>1. queue \in Seq(Patch)
  BY DEF IInv, TypeOK
<1>2. Head(queue) = queue[1] /\ 1 \in DOMAIN queue /\ Head(queue) \in Patch
  BY <1>1
<1> QED BY <1>2 DEF IInv, QueueOK, Patch

\* The write is complete and its caller goes on.
LEMMA PatchEndKeeps == ASSUME IInv, patchEnd PROVE IInv'
<1> DEFINE c == Head(queue).call
<1>1. writing # None /\ file' = writing /\ writing' = None /\ queue' = Tail(queue)
  BY DEF patchEnd
<1>2. queue # <<>> /\ Kept(writing) /\ writing \in Profiles
  BY <1>1 DEF IInv, FileOK, TypeOK
<1>3. c \in Calls /\ call[c].at \in {"queued", "ensureWrite"}
  BY <1>2, FirstPatch
<1>4. Kept(file')
  BY <1>1, <1>2 DEF Kept, WellFormed, Entries
<1>5. CASE call[c].at = "ensureWrite"
  <2>1. ensuring = c /\ obj[c] \in Profiles /\ Usable(obj[c]) /\ ensuring # None
    BY <1>3, <1>5, NothingAssumption DEF IInv, EnsuringOK, TypeOK
  <2>2. Resolve(c, obj[c])
    BY <1>5 DEF patchEnd
  <2> DEFINE list == obj[c]
  <2> HIDE DEF c
  <2>3. list \in Profiles /\ Usable(list) /\ Resolve(ensuring, list)
    BY <2>1, <2>2
  <2> HIDE DEF list
  <2>4. /\ obj' \in [Calls -> Profiles] /\ call' \in [Calls -> CallState]
        /\ EnsuringOK' /\ \A d \in Calls : CallOK(d)'
        /\ \A d \in Calls \ {c} : call[d].at \in {"queued", "ensureWrite"} => call'[d] = call[d]
    BY <2>1, <2>3, ResolveKeeps
  <2>5. queue' \in Seq(Patch) /\ FileOK' /\ QueueOK'
    BY <1>1, <1>2, <1>4, <2>4, PatchTaken DEF c
  <2>6. ensuring' = None
    BY <2>2 DEF Resolve
  <2> QED BY <1>1, <1>2, <2>4, <2>5, <2>6 DEF IInv, TypeOK
<1>6. CASE call[c].at = "queued"
  <2>1. call' = Ended(c) /\ Collect /\ UNCHANGED ensuring
    BY <1>6 DEF patchEnd
  <2>2. /\ obj' \in [Calls -> Profiles] /\ call' \in [Calls -> CallState]
        /\ EnsuringOK' /\ \A d \in Calls : CallOK(d)'
        /\ \A d \in Calls \ {c} : call'[d] = call[d]
    BY <1>3, <1>6, <2>1, EndedKeeps
  <2>3. queue' \in Seq(Patch) /\ FileOK' /\ QueueOK'
    BY <1>1, <1>2, <1>4, <2>2, PatchTaken
  <2> QED BY <1>1, <1>2, <2>1, <2>2, <2>3 DEF IInv, TypeOK
<1> QED BY <1>3, <1>5, <1>6

\* A write fails: its caller ends, and with it those who wait for its list.
LEMMA PatchFailsKeeps == ASSUME IInv, patchFails PROVE IInv'
<1> DEFINE c == Head(queue).call
<1>1. queue # <<>> /\ queue' = Tail(queue) /\ writing' = None /\ Collect /\ UNCHANGED <<file, used>>
  BY DEF patchFails
<1>2. c \in Calls /\ call[c].at \in {"queued", "ensureWrite"}
  BY <1>1, FirstPatch
<1>3. file' = Torn \/ Kept(file')
  BY <1>1 DEF IInv, FileOK, Kept, WellFormed, Entries
<1>4. CASE call[c].at = "queued"
  <2>1. call' = Ended(c) /\ UNCHANGED ensuring
    BY <1>4 DEF patchFails
  <2>2. /\ obj' \in [Calls -> Profiles] /\ call' \in [Calls -> CallState]
        /\ EnsuringOK' /\ \A d \in Calls : CallOK(d)'
        /\ \A d \in Calls \ {c} : call'[d] = call[d]
    BY <1>1, <1>2, <1>4, <2>1, EndedKeeps
  <2>3. queue' \in Seq(Patch) /\ FileOK' /\ QueueOK'
    BY <1>1, <1>3, <2>2, PatchTaken
  <2> QED BY <1>1, <2>1, <2>2, <2>3 DEF IInv, TypeOK
<1>5. CASE call[c].at = "ensureWrite"
  <2> HIDE DEF c
  <2>1. /\ call' = [d \in Calls |-> IF call[d].owner = c THEN Idle ELSE call[d]]
        /\ ensuring' = None
    BY <1>5 DEF patchFails, c
  <2>2. Idle \in CallState /\ Idle.at = "idle" /\ Idle.op = "idle" /\ Idle.owner = None
    BY DEF Idle, CallState
  <2>3. /\ call' \in [Calls -> CallState]
        /\ \A d \in Calls : call'[d] = IF call[d].owner = c THEN Idle ELSE call[d]
    BY <2>1, <2>2 DEF IInv, TypeOK
  <2>4. ensuring = c /\ c # None
    BY <1>2, <1>5, NothingAssumption DEF IInv, EnsuringOK
  <2>5. /\ obj' \in [Calls -> Profiles]
        /\ \A d \in Calls : call'[d].owner \in Calls => obj'[call'[d].owner] = obj[call'[d].owner]
    BY <1>1, <2>3, Collected
  <2>6. \A d \in Calls : call[d].at = "ensureWrite" => call[d].owner = c
    BY <2>4 DEF IInv, EnsuringOK
  <2>7. EnsuringOK'
    BY <2>1, <2>2, <2>3, <2>6 DEF EnsuringOK
  <2>8. \A d \in Calls : CallOK(d)'
    BY <2>2, <2>3, <2>5, NothingAssumption DEF IInv, CallOK, Usable
  <2>9. \A d \in Calls \ {c} : call[d].at \in {"queued", "ensureWrite"} => call[d].owner # c
    BY <2>4 DEF IInv, EnsuringOK
  <2>10. \A d \in Calls \ {c} : call[d].at \in {"queued", "ensureWrite"} => call'[d].at = call[d].at
    BY <2>3, <2>9
  <2>11. queue' \in Seq(Patch) /\ FileOK' /\ QueueOK'
    BY <1>1, <1>3, <2>10, PatchTaken DEF c
  <2> QED BY <1>1, <2>1, <2>3, <2>5, <2>7, <2>8, <2>11 DEF IInv, TypeOK
<1> QED BY <1>2, <1>4, <1>5

\* The application stops and starts again.
LEMMA CrashKeeps == ASSUME IInv, crash PROVE IInv'
<1>1. /\ queue' = <<>> /\ writing' = None /\ ensuring' = None
      /\ obj' = [c \in Calls |-> NoProfiles] /\ call' = [c \in Calls |-> Idle] /\ file' = file
  BY DEF crash
<1>2. NoProfiles \in Profiles
  BY DEF NoProfiles, Profiles
<1>3. Idle \in CallState /\ Idle.at = "idle" /\ Idle.op = "idle"
  BY DEF Idle, CallState
<1>4. obj' \in [Calls -> Profiles] /\ call' \in [Calls -> CallState] /\ \A c \in Calls : call'[c] = Idle
  BY <1>1, <1>2, <1>3
<1>5. queue' \in Seq(Patch) /\ DOMAIN queue' = {}
  BY <1>1
<1>6. TypeOK'
  BY <1>1, <1>4, <1>5 DEF IInv, TypeOK
<1>7. FileOK' /\ QueueOK'
  BY <1>1, <1>5 DEF IInv, FileOK, QueueOK, Kept, WellFormed, Entries
<1>8. EnsuringOK' /\ \A c \in Calls : CallOK(c)'
  BY <1>1, <1>3, <1>4 DEF EnsuringOK, CallOK
<1> QED BY <1>6, <1>7, <1>8 DEF IInv

LEMMA InitInv == Init => IInv
<1> SUFFICES ASSUME Init PROVE IInv
  OBVIOUS
<1>1. /\ queue = <<>> /\ writing = None /\ ensuring = None
      /\ obj = [c \in Calls |-> NoProfiles] /\ call = [c \in Calls |-> Idle]
  BY DEF Init
<1>2. NoProfiles \in Profiles
  BY DEF NoProfiles, Profiles
<1>3. Idle \in CallState /\ Idle.at = "idle" /\ Idle.op = "idle"
  BY DEF Idle, CallState
<1>4. obj \in [Calls -> Profiles] /\ call \in [Calls -> CallState] /\ \A c \in Calls : call[c] = Idle
  BY <1>1, <1>2, <1>3
<1>5. queue \in Seq(Patch) /\ DOMAIN queue = {}
  BY <1>1
<1>6. file \in Profiles /\ WellFormed(file)
  <2>1. PICK n \in 1..2 : \E s \in [1..n -> Ids], a \in Ids :
             file = [active |-> a, entries |-> s] /\ WellFormed(file)
    BY DEF Init
  <2>2. PICK s \in [1..n -> Ids], a \in Ids : file = [active |-> a, entries |-> s] /\ WellFormed(file)
    BY <2>1
  <2>3. s \in Seq(Ids)
    OBVIOUS
  <2> QED BY <2>2, <2>3 DEF Profiles
<1>7. TypeOK
  BY <1>1, <1>4, <1>5, <1>6 DEF TypeOK
<1>8. FileOK /\ QueueOK
  BY <1>1, <1>5, <1>6 DEF FileOK, QueueOK, Kept
<1>9. EnsuringOK /\ \A c \in Calls : CallOK(c)
  BY <1>1, <1>3, <1>4 DEF EnsuringOK, CallOK
<1> QED BY <1>7, <1>8, <1>9 DEF IInv

LEMMA NextInv == IInv /\ [Next]_vars => IInv'
<1> SUFFICES ASSUME IInv, [Next]_vars PROVE IInv'
  OBVIOUS
<1>1. ASSUME NEW c \in Calls, Request(c) PROVE IInv'
  BY <1>1, BeginKeeps, BeginSyncKeeps, WriteOtherKeeps DEF Request
<1>2. ASSUME NEW c \in Calls, Handler(c) PROVE IInv'
  BY <1>2, EnsureReadKeeps, EnsureRereadKeeps, HandlersKeep, SaveReadsKeep, SaveWritesKeep,
     SyncWriteKeeps DEF Handler
<1>3. CASE UNCHANGED vars
  BY <1>3 DEF vars, IInv, TypeOK, FileOK, QueueOK, EnsuringOK, CallOK, Kept, WellFormed, Entries, Usable
<1> QED BY <1>1, <1>2, <1>3, PatchBeginKeeps, PatchEndKeeps, PatchFailsKeeps, CrashKeeps DEF Next

\* Every list of profiles on its way to settings.json has a profile, none twice, and
\* an active one among them, and so has the file unless a fault has emptied it, for
\* any number of settings:* handlers that share a list object, any profiles, and
\* whichever writes of settingsWriteQueue fail or stop half way.
THEOREM ProfilesTheorem == Spec => []ProfilesUsable
<1>1. IInv => ProfilesUsable
  BY DEF IInv, FileOK, Kept, ProfilesUsable
<1> QED BY <1>1, InitInv, NextInv, PTL DEF Spec

=============================================================================
