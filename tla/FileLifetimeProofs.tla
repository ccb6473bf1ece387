------------------------- MODULE FileLifetimeProofs -------------------------
(***************************************************************************)
(* Proofs about FileLifetime: reference counts and the cache's list, for   *)
(* any number of connections and whatever each of them requests.           *)
(***************************************************************************)
EXTENDS FileLifetime, ListLemmas

\* The connections that were not made do nothing and hold nothing.
ServedOnly ==
  \E made \in Served : \A c \in Conns \ made :
    pc[c] = "done" /\ obj[c] = NoObject /\ src[c] = NoFile /\ dst[c] = NoFile

\* The objects that are allocated are those in the list, and that is at most one: every
\* step that takes an object out of the list frees it.
Cached ==
  \/ cache = <<>> /\ live = {}
  \/ \E o \in Objects : cache = <<o>> /\ live = {o}

\* RefcountCovers, for sets of users that are finite.
Counts == \A o \in live : IsFiniteSet(Users(o)) /\ Cardinality(Users(o)) <= refcount[o]

\* The inductive invariant.  It takes Counts to see that no count becomes negative.
LifetimeInv == LifetimeTypeOK /\ ServedOnly /\ Cached /\ Counts

USE FileLifetimeAssumption
    DEF disk, memory, mutexes, streams, threads, lifetimeVars
-----------------------------------------------------------------------------
(***************************************************************************)
(* Memory and disk do not run out.                                         *)
(***************************************************************************)

\* malloc finds an address.
LEMMA ObjectAvailable ==
  ASSUME LifetimeTypeOK, ServedOnly, Cached
  PROVE  NewObject \in Unused
<1>1. PICK made \in Served : \A c \in Conns \ made : obj[c] = NoObject
  BY DEF ServedOnly
<1> DEFINE A == {obj[c] : c \in made}
           B == live \cup A
<1>2. IsFiniteSet(made) /\ Cardinality(made) \in Nat
  BY EnoughAssumption, FS_CardinalityType
<1>3. IsFiniteSet(A) /\ Cardinality(A) <= Cardinality(made) /\ Cardinality(A) \in Nat
  <2>1. IsFiniteSet(A) /\ Cardinality(A) <= Cardinality(made)
    BY <1>2, ImageCardinality
  <2> QED BY <2>1, FS_CardinalityType
<1>4. IsFiniteSet(live) /\ Cardinality(live) <= 1 /\ Cardinality(live) \in Nat
  BY AtMostOne DEF Cached
<1>5. IsFiniteSet(B) /\ Cardinality(B) <= 1 + Cardinality(made)
  <2> HIDE DEF A
  <2>1. IsFiniteSet(B) /\ Cardinality(B) = Cardinality(live) + Cardinality(A)
                                             - Cardinality(live \cap A)
    BY <1>3, <1>4, FS_Union
  <2>2. Cardinality(live \cap A) \in Nat
    BY <1>4, FS_Intersection, FS_CardinalityType
  <2> QED BY <1>2, <1>3, <1>4, <2>1, <2>2
<1>6. Unused # {}
  <2> SUFFICES ASSUME Unused = {} PROVE FALSE
    OBVIOUS
  <2>1. \A o \in Objects : o \in live \/ \E c \in Conns : o = obj[c]
    BY DEF Unused
  <2>2. Objects \in SUBSET B
    BY <1>1, <2>1
  <2> HIDE DEF B
  <2>3. IsFiniteSet(Objects) /\ Cardinality(Objects) <= Cardinality(B)
    BY <1>5, <2>2, FS_Subset
  <2>4. Cardinality(Objects) \in Nat /\ Cardinality(B) \in Nat
    BY <1>5, <2>3, FS_CardinalityType
  <2> QED BY <1>2, <1>5, <2>3, <2>4, EnoughAssumption
<1>7. \E o \in Unused : \A p \in Unused : o <= p
  BY <1>6, LeastExists DEF Unused
<1> QED BY <1>7 DEF NewObject

\* fopen finds an inode for a new file.
LEMMA InodeAvailable ==
  ASSUME LifetimeTypeOK, ServedOnly
  PROVE  NewInode \in Inodes \ InUse
<1>1. PICK made \in Served : \A c \in Conns \ made : src[c] = NoFile /\ dst[c] = NoFile
  BY DEF ServedOnly
<1> DEFINE A == {src[c] : c \in made}
           B == {dst[c] : c \in made}
           N == {file, undo, swap}
           U == (N \cup A) \cup B
<1>2. IsFiniteSet(made) /\ Cardinality(made) \in Nat
  BY EnoughAssumption, FS_CardinalityType
<1>3. IsFiniteSet(A) /\ Cardinality(A) <= Cardinality(made)
  BY <1>2, ImageCardinality
<1>4. IsFiniteSet(B) /\ Cardinality(B) <= Cardinality(made)
  BY <1>2, ImageCardinality
<1>5. IsFiniteSet(N) /\ Cardinality(N) <= 3
  BY AtMostThree
<1> HIDE DEF A, B, N
<1>6. IsFiniteSet(U) /\ Cardinality(U) <= 3 + 2 * Cardinality(made)
  <2>1. IsFiniteSet(N \cup A) /\ Cardinality(N \cup A) = Cardinality(N) + Cardinality(A)
                                                           - Cardinality(N \cap A)
    BY <1>3, <1>5, FS_Union
  <2>2. IsFiniteSet(U) /\ Cardinality(U) = Cardinality(N \cup A) + Cardinality(B)
                                             - Cardinality((N \cup A) \cap B)
    BY <1>4, <2>1, FS_Union
  <2>3. Cardinality(N \cap A) \in Nat /\ Cardinality((N \cup A) \cap B) \in Nat
    BY <1>5, <2>1, FS_Intersection, FS_CardinalityType
  <2>4. Cardinality(N) \in Nat /\ Cardinality(A) \in Nat /\ Cardinality(B) \in Nat
    BY <1>3, <1>4, <1>5, FS_CardinalityType
  <2> QED BY <1>2, <1>3, <1>4, <1>5, <2>1, <2>2, <2>3, <2>4
<1>7. Inodes \ InUse # {}
  <2> SUFFICES ASSUME Inodes \ InUse = {} PROVE FALSE
    OBVIOUS
  <2>1. \A i \in Inodes : \/ i \in {file, undo, swap}
                          \/ \E c \in Conns : i = src[c] \/ i = dst[c]
    BY DEF InUse
  <2>2. Inodes \in SUBSET U
    BY <1>1, <2>1 DEF A, B, N
  <2> HIDE DEF U
  <2>3. IsFiniteSet(Inodes) /\ Cardinality(Inodes) <= Cardinality(U)
    BY <1>6, <2>2, FS_Subset
  <2>4. Cardinality(Inodes) \in Nat /\ Cardinality(U) \in Nat
    BY <1>6, <2>3, FS_CardinalityType
  <2> QED BY <1>2, <1>6, <2>3, <2>4, EnoughAssumption
<1>8. \E i \in Inodes \ InUse : \A j \in Inodes \ InUse : i <= j
  BY <1>7, LeastExists
<1> QED BY <1>8 DEF NewInode

\* fopen(name, "w") gives an inode: the one that has the name, or an unused one.
LEMMA CreatedInode ==
  ASSUME LifetimeTypeOK, ServedOnly, NEW i \in Inodes \cup {NoFile}
  PROVE  /\ Created(i) \in Inodes
         /\ i # NoFile => Created(i) = i
         /\ i = NoFile => Created(i) \notin InUse
BY InodeAvailable DEF Created
-----------------------------------------------------------------------------
(***************************************************************************)
(* What kinds of steps preserve.                                           *)
(***************************************************************************)

LEMMA SiteNames ==
  Sites = {"lock", "count", "abandon", "backup", "unlock", "vanish", "apply", "sync",
           "initial"}
BY DEF Sites, Found

LEMMA SiteExits ==
  ASSUME NEW s \in Sites
  PROVE  Found[s] \in PCs /\ Missing[s] \in PCs /\ s # "done"
BY SiteNames DEF Found, Missing, PCs

\* A step of a thread that is not done is a step of a connection that was made.
LEMMA OthersIdle ==
  ASSUME ServedOnly, NEW c \in Conns, pc[c] # "done",
         \A d \in Conns \ {c} : pc'[d] = pc[d] /\ obj'[d] = obj[d]
                                  /\ src'[d] = src[d] /\ dst'[d] = dst[d]
  PROVE  ServedOnly'
<1>1. PICK made \in Served : \A d \in Conns \ made :
        pc[d] = "done" /\ obj[d] = NoObject /\ src[d] = NoFile /\ dst[d] = NoFile
  BY DEF ServedOnly
<1>2. \A d \in Conns \ made :
        pc'[d] = "done" /\ obj'[d] = NoObject /\ src'[d] = NoFile /\ dst'[d] = NoFile
  BY <1>1
<1> QED BY <1>2 DEF ServedOnly

\* A step that leaves the cache and the pointers alone.
LEMMA MemoryUntouched ==
  ASSUME Cached, Counts, UNCHANGED <<cache, live, refcount, at, obj>>
  PROVE  Cached' /\ Counts'
<1>1. \A o : Users(o)' = Users(o)
  BY DEF Users
<1> QED BY <1>1 DEF Cached, Counts

\* A count that covers a user is not zero.
LEMMA UserCounted ==
  ASSUME LifetimeTypeOK, Counts, NEW c \in Conns, at[c] = "using", obj[c] \in live
  PROVE  refcount[obj[c]] > 0
<1> DEFINE U == Users(obj[c])
<1>1. c \in U
  BY DEF Users
<1>2. IsFiniteSet(U) /\ Cardinality(U) <= refcount[obj[c]]
  BY DEF Counts
<1> HIDE DEF U
<1>3. Cardinality(U) \in Nat /\ Cardinality(U) # 0
  BY <1>1, <1>2, FS_EmptySet, FS_CardinalityType
<1>4. refcount[obj[c]] \in Nat
  BY DEF LifetimeTypeOK
<1> QED BY <1>2, <1>3, <1>4

\* A thread leaves a call site.
LEMMA LeavePreserves ==
  ASSUME LifetimeInv, NEW c \in Conns, Uses(c), Leave(c), UNCHANGED <<cache, live>>
  PROVE  /\ Cached' /\ Counts'
         /\ refcount' \in [Objects -> Nat]
         /\ pc' \in [Conns -> PCs] /\ at' \in [Conns -> {"call", "using", "reap"}]
         /\ obj' \in [Conns -> Objects \cup {NoObject}]
         /\ pc[c] # "done"
         /\ \A d \in Conns \ {c} : pc'[d] = pc[d] /\ obj'[d] = obj[d]
<1> DEFINE o == obj[c]
<1>1. /\ pc[c] \in Sites /\ at[c] = "using" /\ o \in live /\ o \in Objects
      /\ refcount \in [Objects -> Nat] /\ pc \in [Conns -> PCs]
      /\ at \in [Conns -> {"call", "using", "reap"}]
      /\ obj \in [Conns -> Objects \cup {NoObject}]
  BY DEF LifetimeInv, LifetimeTypeOK, Uses
<1>2. refcount[o] \in Nat /\ refcount[o] > 0
  BY <1>1, UserCounted DEF LifetimeInv
<1>3. refcount' \in [Objects -> Nat]
  BY <1>1, <1>2 DEF Leave
<1>4. /\ pc' \in [Conns -> PCs] /\ at' \in [Conns -> {"call", "using", "reap"}]
      /\ obj' \in [Conns -> Objects \cup {NoObject}]
      /\ pc[c] # "done"
      /\ \A d \in Conns \ {c} : pc'[d] = pc[d] /\ obj'[d] = obj[d] /\ at'[d] = at[d]
      /\ at'[c] # "using"
  BY <1>1, SiteExits DEF Leave, Goto
<1>5. Cached'
  BY DEF LifetimeInv, Cached
<1>6. Counts'
  <2> SUFFICES ASSUME NEW p \in live
               PROVE  IsFiniteSet(Users(p)') /\ Cardinality(Users(p)') <= refcount'[p]
    BY DEF Counts
  <2>1. p = o
    BY <1>1 DEF LifetimeInv, Cached
  <2>2. Users(p)' = Users(p) \ {c}
    BY <1>4 DEF Users
  <2>3. c \in Users(p)
    BY <1>1, <2>1 DEF Users
  <2>4. IsFiniteSet(Users(p)) /\ Cardinality(Users(p)) <= refcount[p]
    BY DEF LifetimeInv, Counts
  <2>5. IsFiniteSet(Users(p) \ {c}) /\ Cardinality(Users(p) \ {c}) = Cardinality(Users(p)) - 1
    BY <2>3, <2>4, FS_RemoveElement
  <2>6. Cardinality(Users(p)) \in Nat
    BY <2>4, FS_CardinalityType
  <2>7. refcount'[p] \in Nat /\ refcount'[p] >= refcount[p] - 1
    BY <1>1, <1>2, <2>1 DEF Leave
  <2> HIDE DEF o
  <2> QED BY <1>2, <2>1, <2>2, <2>4, <2>5, <2>6, <2>7
<1> QED BY <1>3, <1>4, <1>5, <1>6

\* The cache is empty now, or has just the object that nobody can have a pointer to.
LEMMA FreshCache ==
  ASSUME NEW o \in Unused, \A c \in Conns : obj'[c] = obj[c],
         \/ cache' = <<o>> /\ live' = {o}
         \/ cache' = <<>> /\ live' = {},
         refcount' \in [Objects -> Nat]
  PROVE  Cached' /\ Counts'
<1>1. Cached'
  BY DEF Cached, Unused
<1>2. \A p \in live' : Users(p)' = {}
  BY DEF Users, Unused
<1>3. \A p \in live' : refcount'[p] >= 0
  BY DEF Unused
<1> QED BY <1>1, <1>2, <1>3, FS_EmptySet DEF Counts
-----------------------------------------------------------------------------
(***************************************************************************)
(* Every step of WRITE, UNDO, DELETE and CREATE preserves the invariant.   *)
(***************************************************************************)

\* Getting an object from the cache.
LEMMA FindCachedPreserves ==
  ASSUME LifetimeInv, NEW c \in Conns, FindCached(c)
  PROVE  LifetimeInv'
<1>1. PICK o \in Objects : cache = <<o>> /\ live = {o}
  BY DEF FindCached, LifetimeInv, Cached
<1>2. LifetimeTypeOK'
  BY <1>1 DEF LifetimeInv, LifetimeTypeOK, FindCached
<1>3. ServedOnly'
  BY OthersIdle, SiteExits DEF FindCached, Calls, LifetimeInv, LifetimeTypeOK
<1>4. Cached'
  BY DEF LifetimeInv, Cached, FindCached
<1>5. Counts'
  <2>1. Users(o)' = Users(o) \cup {c} /\ c \notin Users(o)
    BY <1>1 DEF Users, FindCached, Calls, LifetimeInv, LifetimeTypeOK
  <2>2. IsFiniteSet(Users(o)) /\ Cardinality(Users(o)) <= refcount[o]
    BY <1>1 DEF LifetimeInv, Counts
  <2>3. /\ IsFiniteSet(Users(o) \cup {c})
        /\ Cardinality(Users(o) \cup {c}) = Cardinality(Users(o)) + 1
    BY <2>1, <2>2, FS_AddElement
  <2>4. refcount'[o] = refcount[o] + 1 /\ refcount[o] \in Nat
    BY <1>1 DEF FindCached, LifetimeInv, LifetimeTypeOK
  <2>5. Cardinality(Users(o)) \in Nat
    BY <2>2, FS_CardinalityType
  <2>6. IsFiniteSet(Users(o)') /\ Cardinality(Users(o)') <= refcount'[o]
    BY <2>1, <2>2, <2>3, <2>4, <2>5
  <2> QED BY <1>1, <2>6 DEF Counts, FindCached
<1> QED BY <1>2, <1>3, <1>4, <1>5 DEF LifetimeInv

\* Loading the file.
LEMMA LoadFilePreserves ==
  ASSUME LifetimeInv, NEW c \in Conns, LoadFile(c)
  PROVE  LifetimeInv'
<1>1. PICK o \in Objects : o = NewObject /\ o \in Unused
  BY ObjectAvailable DEF LifetimeInv, Unused
<1>2. /\ cache = <<>> /\ live = {} /\ pc[c] \in Sites
      /\ obj' = [obj EXCEPT ![c] = o] /\ at' = [at EXCEPT ![c] = "using"]
      /\ live' = live \cup {o} /\ cache' = <<o>> \o cache
      /\ words' = [words EXCEPT ![o] = content[file]]
      /\ refcount' = [refcount EXCEPT ![o] = 1]
      /\ UNCHANGED <<disk, marked, mutexes, streams, pc, result>>
  BY <1>1 DEF LoadFile, Loaded, Calls, LifetimeInv, Cached
<1>3. cache' = <<o>> /\ live' = {o}
  BY <1>1, <1>2
<1>4. LifetimeTypeOK'
  BY <1>1, <1>2, <1>3 DEF LifetimeInv, LifetimeTypeOK
<1>5. ServedOnly'
  BY <1>2, OthersIdle, SiteExits DEF LifetimeInv, LifetimeTypeOK
<1>6. Cached'
  BY <1>1, <1>3 DEF Cached
<1>7. Counts'
  <2>1. \A d \in Conns : obj[d] # o
    BY <1>1 DEF Unused
  <2>2. Users(o)' = {c}
    BY <1>2, <2>1 DEF Users, LifetimeInv, LifetimeTypeOK
  <2>3. refcount'[o] = 1
    BY <1>1, <1>2 DEF LifetimeInv, LifetimeTypeOK
  <2>4. IsFiniteSet({c}) /\ Cardinality({c}) = 1
    BY FS_Singleton
  <2>5. IsFiniteSet(Users(o)') /\ Cardinality(Users(o)') <= refcount'[o]
    BY <2>2, <2>3, <2>4
  <2> QED BY <1>3, <2>5 DEF Counts
<1> QED BY <1>4, <1>5, <1>6, <1>7 DEF LifetimeInv

\* The list without the object that is freed is empty.
LEMMA ReapPreserves ==
  ASSUME LifetimeInv, NEW c \in Conns, Reap(c)
  PROVE  LifetimeInv'
<1>1. PICK o \in Objects : cache = <<o>> /\ live = {o} /\ obj[c] = o /\ pc[c] \in Sites
  BY DEF Reap, LifetimeInv, Cached
<1>2. RemoveFirst(cache, o) = <<>>
  <2>1. cache \in Seq(Objects) /\ Len(cache) = 1 /\ cache[1] = o
    BY <1>1
  <2>2. \E i \in 1 .. Len(cache) : cache[i] = o
    BY <2>1
  <2>3. PICK i \in 1 .. Len(cache) : RemoveFirst(cache, o) = RemoveAt(cache, i)
    BY <2>2, <2>1, RemoveFirstProperties
  <2>4. RemoveAt(cache, i) \in Seq(Objects) /\ Len(RemoveAt(cache, i)) = Len(cache) - 1
    BY <2>1, RemoveAtProperties
  <2> QED BY <2>1, <2>3, <2>4, EmptySeq
<1>3. cache' = <<>> /\ live' = {}
  BY <1>1, <1>2 DEF Reap, Freed
<1>4. LifetimeTypeOK'
  BY <1>1, <1>3, SiteExits DEF LifetimeInv, LifetimeTypeOK, Reap, Freed, Goto
<1>5. ServedOnly'
  BY <1>1, OthersIdle, SiteExits DEF LifetimeInv, LifetimeTypeOK, Reap, Goto
<1> QED BY <1>3, <1>4, <1>5 DEF LifetimeInv, Cached, Counts

\* delete_file_ll.
LEMMA MarkDeletedPreserves ==
  ASSUME LifetimeInv, NEW c \in Conns, MarkDeleted(c)
  PROVE  LifetimeInv'
<1>1. pc[c] = "mark" /\ Goto(c, "unlink") /\ UNCHANGED <<disk, mutexes, streams, at, obj, result>>
  BY DEF MarkDeleted
<1>2. ServedOnly'
  BY <1>1, OthersIdle DEF LifetimeInv, LifetimeTypeOK, Goto
<1>3. CASE UNCHANGED <<cache, live, words, refcount>> /\ marked' \in [Objects -> BOOLEAN]
  <2>1. LifetimeTypeOK'
    BY <1>1, <1>3 DEF LifetimeInv, LifetimeTypeOK, Goto, PCs
  <2>2. Cached' /\ Counts'
    BY <1>1, <1>3, MemoryUntouched DEF LifetimeInv
  <2> QED BY <1>2, <2>1, <2>2 DEF LifetimeInv
<1>4. CASE cache # <<>> /\ Freed(Head(cache)) /\ cache' = Tail(cache)
  <2>1. PICK o \in Objects : cache = <<o>> /\ live = {o}
    BY <1>4 DEF LifetimeInv, Cached
  <2>2. cache' = <<>> /\ live' = {}
    BY <1>4, <2>1 DEF Freed
  <2>3. LifetimeTypeOK'
    BY <1>1, <1>4, <2>1, <2>2 DEF LifetimeInv, LifetimeTypeOK, Goto, PCs, Freed
  <2> QED BY <1>2, <2>2, <2>3 DEF LifetimeInv, Cached, Counts
<1>5. cache # <<>> => Head(cache) \in Objects
  BY DEF LifetimeInv, Cached
<1>6. marked \in [Objects -> BOOLEAN]
  BY DEF LifetimeInv, LifetimeTypeOK
<1> QED BY <1>3, <1>4, <1>5, <1>6 DEF MarkDeleted

\* reload_file_from_disk.
LEMMA UndoReloadPreserves ==
  ASSUME LifetimeInv, NEW c \in Conns, UndoReload(c)
  PROVE  LifetimeInv'
<1>1. PICK o \in Objects : o = NewObject /\ o \in Unused
  BY ObjectAvailable DEF LifetimeInv, Unused
<1>2. /\ pc[c] = "undo_reload" /\ Goto(c, "finish") /\ undo_mutex' = Nobody
      /\ UNCHANGED <<disk, commit_mutex, streams, at, obj, result>>
  BY DEF UndoReload
<1>3. \/ cache' = <<o>> /\ live' = {o}
      \/ cache' = <<>> /\ live' = {}
  <2> DEFINE old == IF cache = <<>> THEN {} ELSE {Head(cache)}
             new == IF file = NoFile THEN {} ELSE {o}
  <2>1. /\ live' = (live \ old) \cup new
        /\ cache' = (IF new = {} THEN <<>> ELSE <<o>>)
                    \o (IF old = {} THEN <<>> ELSE Tail(cache))
    BY <1>1 DEF UndoReload
  <2>2. live = old /\ (IF old = {} THEN <<>> ELSE Tail(cache)) = <<>>
    <3>1. CASE cache = <<>> /\ live = {}
      BY <3>1
    <3>2. CASE \E p \in Objects : cache = <<p>> /\ live = {p}
      <4>1. PICK p \in Objects : cache = <<p>> /\ live = {p}
        BY <3>2
      <4>2. cache # <<>> /\ Head(cache) = p /\ Tail(cache) = <<>>
        BY <4>1
      <4> QED BY <4>1, <4>2
    <3> QED BY <3>1, <3>2 DEF LifetimeInv, Cached
  <2> HIDE DEF old
  <2>3. live' = new
    BY <2>1, <2>2
  <2>4. cache' = IF new = {} THEN <<>> ELSE <<o>>
    <3>1. <<>> \o <<>> = <<>> /\ <<o>> \o <<>> = <<o>>
      BY <1>1
    <3> QED BY <2>1, <2>2, <3>1
  <2>5. CASE file = NoFile
    BY <2>3, <2>4, <2>5
  <2>6. CASE file # NoFile
    <3>1. new = {o} /\ new # {}
      BY <2>6
    <3> HIDE DEF new
    <3>2. live' = {o}
      BY <2>3, <3>1
    <3>3. cache' = <<o>>
      BY <2>4, <3>1
    <3> QED BY <3>2, <3>3
  <2> QED BY <2>5, <2>6
<1>4. /\ DOMAIN words' = Objects /\ refcount' \in [Objects -> Nat]
      /\ marked' \in [Objects -> BOOLEAN]
  BY DEF UndoReload, LifetimeInv, LifetimeTypeOK
<1>5. LifetimeTypeOK'
  <2>1. cache' \in Seq(Objects) /\ live' \subseteq Objects
    <3>1. <<o>> \in Seq(Objects) /\ <<>> \in Seq(Objects)
      OBVIOUS
    <3> QED BY <1>3, <3>1
  <2> QED BY <1>2, <1>4, <2>1 DEF LifetimeInv, LifetimeTypeOK, Goto, PCs
<1>6. ServedOnly'
  BY <1>2, OthersIdle DEF LifetimeInv, LifetimeTypeOK, Goto
<1>7. Cached' /\ Counts'
  BY <1>1, <1>2, <1>3, <1>4, FreshCache
<1> QED BY <1>5, <1>6, <1>7 DEF LifetimeInv

\* All of them.
LEMMA UpdatePreserves ==
  ASSUME LifetimeInv, NEW c \in Conns, UpdateStep(c)
  PROVE  LifetimeInv'
<1> USE DEF Goto, Set
<1>1. ASSUME UNCHANGED <<cache, live, refcount, at, obj>>, LifetimeTypeOK', ServedOnly'
      PROVE  LifetimeInv'
  BY <1>1, MemoryUntouched DEF LifetimeInv
<1>2. ASSUME Uses(c), Leave(c), UNCHANGED <<cache, live, src, dst>>
      PROVE  /\ Cached' /\ Counts' /\ ServedOnly'
             /\ refcount' \in [Objects -> Nat]
             /\ pc' \in [Conns -> PCs] /\ at' \in [Conns -> {"call", "using", "reap"}]
             /\ obj' \in [Conns -> Objects \cup {NoObject}]
  <2>1. /\ Cached' /\ Counts' /\ refcount' \in [Objects -> Nat]
        /\ pc' \in [Conns -> PCs] /\ at' \in [Conns -> {"call", "using", "reap"}]
        /\ obj' \in [Conns -> Objects \cup {NoObject}]
        /\ pc[c] # "done"
        /\ \A d \in Conns \ {c} : pc'[d] = pc[d] /\ obj'[d] = obj[d]
    BY <1>2, LeavePreserves
  <2> QED BY <1>2, <2>1, OthersIdle DEF LifetimeInv
<1>3. CASE FindCached(c)
  BY <1>3, FindCachedPreserves
<1>4. CASE LoadFile(c)
  BY <1>4, LoadFilePreserves
<1>5. CASE Reap(c)
  BY <1>5, ReapPreserves
<1>6. CASE MarkDeleted(c)
  BY <1>6, MarkDeletedPreserves
<1>7. CASE UndoReload(c)
  BY <1>7, UndoReloadPreserves
<1>8. CASE Inspect(c)
  BY <1>2, <1>8 DEF Inspect, LifetimeInv, LifetimeTypeOK
<1>9. CASE ApplyEdits(c)
  BY <1>2, <1>9 DEF ApplyEdits, LifetimeInv, LifetimeTypeOK
<1>10. CASE WriteBackup(c)
  <2>1. Created(undo) \in Inodes
    BY CreatedInode DEF LifetimeInv, LifetimeTypeOK
  <2> QED BY <1>2, <1>10, <2>1 DEF WriteBackup, LifetimeInv, LifetimeTypeOK
<1>11. CASE SyncToSwap(c)
  <2>1. Created(swap) \in Inodes
    BY CreatedInode DEF LifetimeInv, LifetimeTypeOK
  <2> QED BY <1>2, <1>11, <2>1 DEF SyncToSwap, LifetimeInv, LifetimeTypeOK
<1>12. CASE FileMissing(c)
  <2>1. LifetimeTypeOK'
    BY <1>12, SiteExits DEF FileMissing, LifetimeInv, LifetimeTypeOK, PCs, Results, Calls
  <2>2. ServedOnly'
    BY <1>12, OthersIdle, SiteExits DEF FileMissing, LifetimeInv, LifetimeTypeOK, Calls
  <2> QED BY <1>1, <1>12, <2>1, <2>2 DEF FileMissing
<1>13. CASE StartWrite(c)
  <2>1. LifetimeTypeOK'
    <3>1. pc' \in [Conns -> PCs] /\ result' \in [Conns -> Results]
      <4>1. "lock" \in PCs /\ "done" \in PCs /\ "NO_ACCESS" \in Results
        BY SiteNames DEF PCs, Results
      <4>2. pc \in [Conns -> PCs] /\ result \in [Conns -> Results]
        BY DEF LifetimeInv, LifetimeTypeOK
      <4>3. CASE known
        BY <1>13, <4>1, <4>2, <4>3 DEF StartWrite
      <4>4. CASE ~known
        BY <1>13, <4>1, <4>2, <4>4 DEF StartWrite
      <4> QED BY <4>3, <4>4
    <3> QED BY <1>13, <3>1 DEF StartWrite, LifetimeInv, LifetimeTypeOK
  <2>2. ServedOnly'
    BY <1>13, OthersIdle DEF StartWrite, LifetimeInv, LifetimeTypeOK
  <2> QED BY <1>1, <1>13, <2>1, <2>2 DEF StartWrite
<1>14. CASE EndWrite(c)
  <2>1. LifetimeTypeOK'
    BY <1>14, SiteNames DEF EndWrite, LifetimeInv, LifetimeTypeOK, PCs, Results
  <2>2. ServedOnly'
    BY <1>14, OthersIdle DEF EndWrite, LifetimeInv, LifetimeTypeOK
  <2> QED BY <1>1, <1>14, <2>1, <2>2 DEF EndWrite
<1>15. CASE Vanish(c)
  <2>1. LifetimeTypeOK'
    BY <1>15, SiteNames DEF Vanish, LifetimeInv, LifetimeTypeOK, PCs, Results
  <2>2. ServedOnly'
    BY <1>15, OthersIdle DEF Vanish, LifetimeInv, LifetimeTypeOK
  <2> QED BY <1>1, <1>15, <2>1, <2>2 DEF Vanish
<1>16. CASE BeginCommit(c)
  <2>1. LifetimeTypeOK'
    BY <1>16, SiteNames DEF BeginCommit, LifetimeInv, LifetimeTypeOK, PCs, Results
  <2>2. ServedOnly'
    BY <1>16, OthersIdle DEF BeginCommit, LifetimeInv, LifetimeTypeOK
  <2> QED BY <1>1, <1>16, <2>1, <2>2 DEF BeginCommit
<1>17. CASE Rename(c)
  <2>1. LifetimeTypeOK'
    BY <1>17 DEF Rename, LifetimeInv, LifetimeTypeOK, PCs, Results
  <2>2. ServedOnly'
    BY <1>17, OthersIdle DEF Rename, LifetimeInv, LifetimeTypeOK
  <2> QED BY <1>1, <1>17, <2>1, <2>2 DEF Rename
<1>18. CASE Finish(c)
  <2>1. LifetimeTypeOK'
    BY <1>18 DEF Finish, LifetimeInv, LifetimeTypeOK, PCs, Results
  <2>2. ServedOnly'
    BY <1>18, OthersIdle DEF Finish, LifetimeInv, LifetimeTypeOK
  <2> QED BY <1>1, <1>18, <2>1, <2>2 DEF Finish
<1>19. CASE StartUndo(c)
  <2>1. LifetimeTypeOK'
    BY <1>19 DEF StartUndo, LifetimeInv, LifetimeTypeOK, PCs, Results
  <2>2. ServedOnly'
    BY <1>19, OthersIdle DEF StartUndo, LifetimeInv, LifetimeTypeOK
  <2> QED BY <1>1, <1>19, <2>1, <2>2 DEF StartUndo
<1>20. CASE UndoNoBackup(c)
  <2>1. LifetimeTypeOK'
    BY SMTT(30), <1>20 DEF UndoNoBackup, LifetimeInv, LifetimeTypeOK, PCs, Results
  <2>2. ServedOnly'
    BY <1>20, OthersIdle DEF UndoNoBackup, LifetimeInv, LifetimeTypeOK
  <2> QED BY <1>1, <1>20, <2>1, <2>2 DEF UndoNoBackup
<1>21. CASE FindEntry(c)
  <2>1. LifetimeTypeOK'
    BY ZenonT(60), <1>21, SiteNames DEF FindEntry, LifetimeInv, LifetimeTypeOK, PCs, Results
  <2>2. ServedOnly'
    BY <1>21, OthersIdle DEF FindEntry, LifetimeInv, LifetimeTypeOK
  <2> QED BY <1>1, <1>21, <2>1, <2>2 DEF FindEntry
<1>22. CASE UnlinkFile(c)
  <2>1. LifetimeTypeOK'
    BY <1>22 DEF UnlinkFile, LifetimeInv, LifetimeTypeOK, PCs, Results
  <2>2. ServedOnly'
    BY <1>22, OthersIdle DEF UnlinkFile, LifetimeInv, LifetimeTypeOK
  <2> QED BY <1>1, <1>22, <2>1, <2>2 DEF UnlinkFile
<1>23. CASE UnlinkUndo(c)
  <2>1. LifetimeTypeOK'
    BY <1>23 DEF UnlinkUndo, LifetimeInv, LifetimeTypeOK, PCs, Results
  <2>2. ServedOnly'
    BY <1>23, OthersIdle DEF UnlinkUndo, LifetimeInv, LifetimeTypeOK
  <2> QED BY <1>1, <1>23, <2>1, <2>2 DEF UnlinkUndo
<1>24. CASE ForgetEntry(c)
  <2>1. LifetimeTypeOK'
    BY <1>24 DEF ForgetEntry, LifetimeInv, LifetimeTypeOK, PCs, Results
  <2>2. ServedOnly'
    BY <1>24, OthersIdle DEF ForgetEntry, LifetimeInv, LifetimeTypeOK
  <2> QED BY <1>1, <1>24, <2>1, <2>2 DEF ForgetEntry
<1>25. CASE UndoOpen(c)
  <2>1. Created(file) \in Inodes
    BY CreatedInode DEF LifetimeInv, LifetimeTypeOK
  <2>2. LifetimeTypeOK'
    BY <1>25, <2>1 DEF UndoOpen, LifetimeInv, LifetimeTypeOK, PCs, Results
  <2>3. ServedOnly'
    BY <1>25, OthersIdle DEF UndoOpen, LifetimeInv, LifetimeTypeOK
  <2> QED BY <1>1, <1>25, <2>2, <2>3 DEF UndoOpen
<1>26. CASE MakeFile(c)
  <2>1. Created(file) \in Inodes
    BY CreatedInode DEF LifetimeInv, LifetimeTypeOK
  <2>2. LifetimeTypeOK'
    BY <1>26, <2>1, SiteNames DEF MakeFile, LifetimeInv, LifetimeTypeOK, PCs, Results
  <2>3. ServedOnly'
    BY <1>26, OthersIdle DEF MakeFile, LifetimeInv, LifetimeTypeOK
  <2> QED BY <1>1, <1>26, <2>2, <2>3 DEF MakeFile
<1>27. CASE UndoCopy(c)
  <2>1. LifetimeTypeOK'
    BY <1>27 DEF UndoCopy, LifetimeInv, LifetimeTypeOK, PCs
  <2>2. ServedOnly'
    BY <1>27, OthersIdle DEF UndoCopy, LifetimeInv, LifetimeTypeOK
  <2> QED BY <1>1, <1>27, <2>1, <2>2 DEF UndoCopy
<1> QED
  BY <1>3, <1>4, <1>5, <1>6, <1>7, <1>8, <1>9, <1>10, <1>11, <1>12, <1>13, <1>14, <1>15,
     <1>16, <1>17, <1>18, <1>19, <1>20, <1>21, <1>22, <1>23, <1>24, <1>25, <1>26, <1>27
     DEF UpdateStep

\* A step of somebody else that leaves memory alone.
LEMMA MemoryQuietInv ==
  ASSUME LifetimeInv, LifetimeTypeOK', ServedOnly', UNCHANGED <<cache, live, refcount, at, obj>>
  PROVE  LifetimeInv'
BY MemoryUntouched DEF LifetimeInv

LEMMA InitLifetimeInv == Init => LifetimeInv
<1> SUFFICES ASSUME Init PROVE LifetimeInv
  OBVIOUS
<1>1. LifetimeTypeOK
  BY DEF Init, LifetimeTypeOK, PCs, Results
<1>2. ServedOnly
  BY DEF Init, ServedOnly
<1>3. Cached
  BY DEF Init, Cached
<1>4. Counts
  <2>1. \A o : Users(o) = {}
    BY DEF Init, Users
  <2>2. \A o \in live : refcount[o] >= 0
    BY <1>1 DEF LifetimeTypeOK
  <2> QED BY <2>1, <2>2, FS_EmptySet DEF Counts
<1> QED BY <1>1, <1>2, <1>3, <1>4 DEF LifetimeInv
-----------------------------------------------------------------------------
(***************************************************************************)
(* What the invariant implies.                                             *)
(***************************************************************************)

LEMMA InvCovers == LifetimeInv => RefcountCovers
BY DEF LifetimeInv, Counts, RefcountCovers

LEMMA InvCachedOnce == LifetimeInv => CachedOnceAndLive
<1> SUFFICES ASSUME LifetimeInv PROVE CachedOnceAndLive
  OBVIOUS
<1>1. CASE cache = <<>>
  BY <1>1 DEF CachedOnceAndLive
<1>2. CASE \E o \in Objects : cache = <<o>> /\ live = {o}
  <2>1. PICK o \in Objects : cache = <<o>> /\ live = {o}
    BY <1>2
  <2>2. Len(cache) = 1 /\ DOMAIN cache = {1} /\ cache[1] = o
    BY <2>1
  <2> QED BY <2>1, <2>2 DEF CachedOnceAndLive
<1> QED BY <1>1, <1>2 DEF LifetimeInv, Cached

\* The step of delete_file_ll: the object it frees has count zero, so no users.
LEMMA MarkFreesUnused ==
  ASSUME LifetimeInv, NEW c \in Conns, MarkDeleted(c), NEW o \in live \ live'
  PROVE  Users(o) = {}
<1>1. o = Head(cache) /\ refcount[o] = 0
  BY DEF MarkDeleted, Freed, LifetimeInv, Cached
<1>2. IsFiniteSet(Users(o)) /\ Cardinality(Users(o)) <= 0
  BY <1>1 DEF LifetimeInv, Counts
<1>3. Cardinality(Users(o)) \in Nat
  BY <1>2, FS_CardinalityType
<1> QED BY <1>2, <1>3, FS_EmptySet
-----------------------------------------------------------------------------
(***************************************************************************)
(* The storage server without readers.                                     *)
(***************************************************************************)

\* The inductive invariant holds throughout.
LEMMA LifetimeInvariant == LifetimeSpec => []LifetimeInv
<1>1. LifetimeInv /\ [LifetimeNext]_lifetimeVars => LifetimeInv'
  <2> SUFFICES ASSUME LifetimeInv, [LifetimeNext]_lifetimeVars PROVE LifetimeInv'
    OBVIOUS
  <2>1. CASE \E c \in Conns : UpdateStep(c)
    BY <2>1, UpdatePreserves
  <2>2. CASE UNCHANGED lifetimeVars
    <3>1. LifetimeTypeOK'
      BY <2>2 DEF LifetimeInv, LifetimeTypeOK
    <3>2. ServedOnly'
      BY <2>2 DEF LifetimeInv, ServedOnly
    <3> QED BY <2>2, <3>1, <3>2, MemoryQuietInv
  <2> QED BY <2>1, <2>2 DEF LifetimeNext, Stop
<1> QED BY <1>1, InitLifetimeInv, PTL DEF LifetimeSpec
=============================================================================
