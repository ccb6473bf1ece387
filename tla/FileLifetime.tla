---------------------------- MODULE FileLifetime ----------------------------
(***************************************************************************)
(* The life of one file on a storage server: its inodes on disk, and the   *)
(* LoadedFile objects that cache it, with their reference counts, deletion *)
(* marks, and the places where they are freed (file_handler_ll.c).         *)
(*                                                                         *)
(* Every connection is a thread with one request: WRITE, UNDO, DELETE or   *)
(* CREATE.  What WRITE does to sentences, locks and word positions is in   *)
(* WriteSession; here a session appends one word, and the subject is which *)
(* object and which inode each of its steps works on.                      *)
(*                                                                         *)
(* A handler reaches the object through get_file_from_cache, at one of the *)
(* call sites named in Sites.  A step that would use a freed object is not *)
(* in the model: what the program does from there on is undefined.         *)
(***************************************************************************)
EXTENDS Integers, Sequences, SequencesExt, FiniteSets

CONSTANTS
  Conns,         \* the connections, one thread each
  Served,        \* which of them are made: a set of sets of connections
  Op,            \* Op[c]: the request
  MayVanish,     \* the writers that may disconnect in write mode
  InitialWords,  \* the words in the file at first
  Objects,       \* addresses of LoadedFile objects
  NoObject,      \* a null pointer
  Inodes,        \* inode numbers
  NoFile,        \* a name that is not in the directory, a file not open
  Nobody         \* the owner of a free mutex

Updates == {"WRITE", "UNDO", "DELETE", "CREATE"}
Reads == {"READ", "STREAM", "EXEC"}

ASSUME FileLifetimeAssumption ==
  /\ Served \subseteq SUBSET Conns
  /\ Op \in [Conns -> Updates \cup Reads]
  /\ MayVanish \subseteq Conns
  /\ Objects \subseteq Nat /\ 1 \in Objects /\ NoObject \notin Objects
  /\ Inodes \subseteq Nat /\ {1, 2} \subseteq Inodes /\ NoFile \notin Inodes
  /\ Nobody \notin Conns
  /\ InitialWords \in Seq(ToSet(InitialWords))

\* Neither memory nor the disk runs out: there are more objects than can be cached and
\* in use, and more inodes than can be linked and open.
ASSUME EnoughAssumption ==
  \A made \in Served :
    /\ IsFiniteSet(made)
    /\ IsFiniteSet(Objects) => Cardinality(Objects) > 1 + Cardinality(made)
    /\ IsFiniteSet(Inodes) => Cardinality(Inodes) > 3 + 2 * Cardinality(made)

VARIABLES
  file, undo, swap,  \* the inodes of the file, its undo backup and its swap file
  content,           \* content[i]: the words in inode i
  known,             \* whether metadata_list has an entry for the file
  cache,             \* the objects for the file in file_cache_head's list
  live,              \* the objects that are allocated
  words,             \* words[o]: the words in o's sentences
  refcount,          \* refcount[o]
  marked,            \* marked_for_deletion[o]
  commit_mutex,      \* its owner
  undo_mutex,        \* its owner
  pc,                \* where the thread of each connection is
  at,                \* before, in or after the use of an object at that place
  obj,               \* the object it has a pointer to
  src, dst,          \* the inodes it has open for reading and for writing
  result             \* what it answers

disk == <<file, undo, swap, content, known>>
memory == <<cache, live, words, refcount, marked>>
mutexes == <<commit_mutex, undo_mutex>>
streams == <<src, dst>>
threads == <<pc, at, obj, result>>
lifetimeVars == <<disk, memory, mutexes, streams, threads>>

\* The calls of get_file_from_cache, and where the thread goes from each of them when
\* it got the object, and when the file was not to be had.  "vanish" is unlock_sentence_ll
\* for a client that is gone, "initial" the backup that CREATE makes.
Found == [lock |-> "count", count |-> "backup", abandon |-> "done", backup |-> "edit",
          unlock |-> "commit", vanish |-> "undo", apply |-> "sync", sync |-> "rename",
          initial |-> "done"]
Missing == [lock |-> "done", count |-> "abandon", abandon |-> "done", backup |-> "edit",
            unlock |-> "commit", vanish |-> "undo", apply |-> "finish", sync |-> "finish",
            initial |-> "done"]
Sites == DOMAIN Found

\* unlock_sentence_ll, save_undo_backup_ll and sync_file_to_disk never call file_release.
Releasing == {"lock", "count", "apply"}

PCs == Sites \cup {"start", "edit", "commit", "rename", "undo", "undo_copy", "undo_reload",
                   "make", "mark", "unlink", "unlink_undo", "forget", "finish", "done"}
           \cup {"open", "first", "chunks"}  \* of the readers in Transfer
Results == {"none", "SUCCESS", "FILE_NOT_FOUND", "NO_ACCESS", "NO_HISTORY", "gone"}

Goto(c, label) == pc' = [pc EXCEPT ![c] = label]
Set(c, code) == result' = [result EXCEPT ![c] = code]

InUse == {file, undo, swap} \cup {src[c] : c \in Conns} \cup {dst[c] : c \in Conns}
NewInode == CHOOSE i \in Inodes \ InUse : \A j \in Inodes \ InUse : i <= j

\* malloc: an address nobody has.
Unused == Objects \ (live \cup {obj[c] : c \in Conns})
NewObject == CHOOSE o \in Unused : \A p \in Unused : o <= p

\* fopen(name, "w") for a name that has inode i: that inode, or a new one.
Created(i) == IF i = NoFile THEN NewInode ELSE i

\* Initially the file has been loaded, by a thread that did not give back its reference,
\* or it has not been since the server started.
Init ==
  /\ file = 1 /\ undo = 2 /\ swap = NoFile
  /\ content = [i \in Inodes |-> IF i = 1 THEN InitialWords ELSE <<>>]
  /\ known = TRUE
  /\ \E loaded \in BOOLEAN :
       /\ cache = IF loaded THEN <<1>> ELSE <<>>
       /\ live = IF loaded THEN {1} ELSE {}
       /\ words = [o \in Objects |-> IF loaded /\ o = 1 THEN InitialWords ELSE <<>>]
       /\ refcount = [o \in Objects |-> IF loaded /\ o = 1 THEN 1 ELSE 0]
  /\ marked = [o \in Objects |-> FALSE]
  /\ commit_mutex = Nobody /\ undo_mutex = Nobody
  /\ \E made \in Served : pc = [c \in Conns |-> IF c \in made THEN "start" ELSE "done"]
  /\ at = [c \in Conns |-> "call"]
  /\ obj = [c \in Conns |-> NoObject]
  /\ src = [c \in Conns |-> NoFile]
  /\ dst = [c \in Conns |-> NoFile]
  /\ result = [c \in Conns |-> "none"]
-----------------------------------------------------------------------------
(***************************************************************************)
(* Getting, releasing and freeing an object.                               *)
(***************************************************************************)

Calls(c) == pc[c] \in Sites /\ at[c] = "call"
Uses(c) == pc[c] \in Sites /\ at[c] = "using" /\ obj[c] \in live

\* free(): the object's fields are gone.
Freed(o) ==
  /\ live' = live \ {o}
  /\ words' = [words EXCEPT ![o] = <<>>]
  /\ refcount' = [refcount EXCEPT ![o] = 0]
  /\ marked' = [marked EXCEPT ![o] = FALSE]

\* Mutant of Loaded: load_file_into_memory's count of zero is left as it is.
LoadedUncounted(o, count) ==
  /\ live' = live \cup {o}
  /\ cache' = <<o>> \o cache
  /\ words' = [words EXCEPT ![o] = content[file]]
  /\ refcount' = [refcount EXCEPT ![o] = 0]

\* load_file_into_memory: a new object at the head of the list.
Loaded(o, count) ==
  /\ live' = live \cup {o}
  /\ cache' = <<o>> \o cache
  /\ words' = [words EXCEPT ![o] = content[file]]
  /\ refcount' = [refcount EXCEPT ![o] = count]

\* Mutant of FindCached: without file_addref.
FindUncounted(c) ==
  /\ Calls(c)
  /\ cache # <<>>
  /\ obj' = [obj EXCEPT ![c] = Head(cache)]
  /\ at' = [at EXCEPT ![c] = "using"]
  /\ UNCHANGED <<disk, memory, mutexes, streams, pc, result>>

\* get_file_from_cache finds the file, marked for deletion or not.
FindCached(c) ==
  /\ Calls(c)
  /\ cache # <<>>
  /\ obj' = [obj EXCEPT ![c] = Head(cache)]
  /\ refcount' = [refcount EXCEPT ![Head(cache)] = @ + 1]
  /\ at' = [at EXCEPT ![c] = "using"]
  /\ UNCHANGED <<disk, cache, live, words, marked, mutexes, streams, pc, result>>

\* get_file_from_cache loads the file, under file_cache_mutex like the search.
LoadFile(c) ==
  /\ Calls(c)
  /\ cache = <<>> /\ file # NoFile
  /\ obj' = [obj EXCEPT ![c] = NewObject]
  /\ Loaded(NewObject, 1)
  /\ at' = [at EXCEPT ![c] = "using"]
  /\ UNCHANGED <<disk, marked, mutexes, streams, pc, result>>

\* get_file_from_cache returns NULL.  Backup, unlock and sync are not checked for it.
FileMissing(c) ==
  /\ Calls(c)
  /\ cache = <<>> /\ file = NoFile
  /\ Goto(c, Missing[pc[c]])
  /\ IF pc[c] \in {"lock", "count", "apply"} THEN Set(c, "FILE_NOT_FOUND")
                                             ELSE UNCHANGED result
  /\ UNCHANGED <<disk, memory, mutexes, streams, at, obj>>

\* The end of a call site: with file_release if it has one.  The last reference to a
\* marked object leaves the thread with the duty to free it.
Leave(c) ==
  LET o == obj[c]
      last == pc[c] \in Releasing /\ refcount[o] = 1 /\ marked[o]
  IN  /\ IF pc[c] \in Releasing THEN refcount' = [refcount EXCEPT ![o] = @ - 1]
                                ELSE UNCHANGED refcount
      /\ IF last THEN /\ at' = [at EXCEPT ![c] = "reap"]
                      /\ UNCHANGED <<pc, obj>>
                 ELSE /\ at' = [at EXCEPT ![c] = "call"]
                      /\ obj' = [obj EXCEPT ![c] = NoObject]
                      /\ Goto(c, Found[pc[c]])

\* Mutant of Reap: the object is freed and not unlinked.
ReapLinked(c) ==
  /\ pc[c] \in Sites /\ at[c] = "reap" /\ obj[c] \in live
  /\ Freed(obj[c])
  /\ at' = [at EXCEPT ![c] = "call"]
  /\ obj' = [obj EXCEPT ![c] = NoObject]
  /\ Goto(c, Found[pc[c]])
  /\ UNCHANGED <<disk, cache, mutexes, streams, result>>

\* The rest of file_release, some time after the count was read: unlink and free.
Reap(c) ==
  /\ pc[c] \in Sites /\ at[c] = "reap" /\ obj[c] \in live
  /\ cache' = RemoveFirst(cache, obj[c])
  /\ Freed(obj[c])
  /\ at' = [at EXCEPT ![c] = "call"]
  /\ obj' = [obj EXCEPT ![c] = NoObject]
  /\ Goto(c, Found[pc[c]])
  /\ UNCHANGED <<disk, mutexes, streams, result>>
-----------------------------------------------------------------------------
(***************************************************************************)
(* WRITE                                                                   *)
(***************************************************************************)

\* The access check at the beginning of handle_write_request.
StartWrite(c) ==
  /\ pc[c] = "start" /\ Op[c] = "WRITE"
  /\ IF known THEN Goto(c, "lock") /\ UNCHANGED result
              ELSE Goto(c, "done") /\ Set(c, "NO_ACCESS")
  /\ UNCHANGED <<disk, memory, mutexes, streams, at, obj>>

\* lock_sentence_ll, the count of words, and unlock_sentence_ll read the sentences.
Inspect(c) ==
  /\ Uses(c) /\ pc[c] \in {"lock", "count", "abandon", "unlock", "vanish"}
  /\ Leave(c)
  /\ UNCHANGED <<disk, cache, live, words, marked, mutexes, streams, result>>

\* save_undo_backup_ll, in WRITE and in CREATE.
WriteBackup(c) ==
  /\ Uses(c) /\ pc[c] \in {"backup", "initial"}
  /\ undo' = Created(undo)
  /\ content' = [content EXCEPT ![Created(undo)] = words[obj[c]]]
  /\ Leave(c)
  /\ UNCHANGED <<file, swap, known, cache, live, words, marked, mutexes, streams, result>>

\* The client sends ETIRW, or its connection breaks.
EndWrite(c) ==
  /\ pc[c] = "edit"
  /\ Goto(c, "unlock")
  /\ UNCHANGED <<disk, memory, mutexes, streams, at, obj, result>>

Vanish(c) ==
  /\ pc[c] = "edit" /\ c \in MayVanish
  /\ Goto(c, "vanish")
  /\ Set(c, "gone")
  /\ UNCHANGED <<disk, memory, mutexes, streams, at, obj>>

BeginCommit(c) ==
  /\ pc[c] = "commit" /\ commit_mutex = Nobody
  /\ commit_mutex' = c
  /\ Goto(c, "apply")
  /\ UNCHANGED <<disk, memory, undo_mutex, streams, at, obj, result>>

\* The edits go into the sentences of the object.
ApplyEdits(c) ==
  /\ Uses(c) /\ pc[c] = "apply"
  /\ words' = [words EXCEPT ![obj[c]] = Append(@, c)]
  /\ Leave(c)
  /\ UNCHANGED <<disk, cache, live, marked, mutexes, streams, result>>

\* sync_file_to_disk, with an object of its own finding.
SyncToSwap(c) ==
  /\ Uses(c) /\ pc[c] = "sync"
  /\ swap' = Created(swap)
  /\ content' = [content EXCEPT ![Created(swap)] = words[obj[c]]]
  /\ Leave(c)
  /\ UNCHANGED <<file, undo, known, cache, live, words, marked, mutexes, streams, result>>

\* Mutant of Rename: the swap file is copied over the file.
CopySwap(c) ==
  /\ pc[c] = "rename"
  /\ file' = Created(file) /\ swap' = NoFile
  /\ content' = [content EXCEPT ![Created(file)] = content[swap]]
  /\ Goto(c, "finish")
  /\ UNCHANGED <<undo, known, memory, mutexes, streams, at, obj, result>>

Rename(c) ==
  /\ pc[c] = "rename"
  /\ file' = swap /\ swap' = NoFile
  /\ Goto(c, "finish")
  /\ UNCHANGED <<undo, content, known, memory, mutexes, streams, at, obj, result>>

\* unlock_commit, if it is held, and the answer.
Finish(c) ==
  /\ pc[c] = "finish"
  /\ commit_mutex' = IF commit_mutex = c THEN Nobody ELSE commit_mutex
  /\ Goto(c, "done")
  /\ IF result[c] = "none" THEN Set(c, "SUCCESS") ELSE UNCHANGED result
  /\ UNCHANGED <<disk, memory, undo_mutex, streams, at, obj>>
-----------------------------------------------------------------------------
(***************************************************************************)
(* UNDO, and the rollback of a client that is gone                         *)
(***************************************************************************)

StartUndo(c) ==
  /\ pc[c] = "start" /\ Op[c] = "UNDO" /\ commit_mutex = Nobody
  /\ commit_mutex' = c
  /\ Goto(c, "undo")
  /\ UNCHANGED <<disk, memory, undo_mutex, streams, at, obj, result>>

UndoNoBackup(c) ==
  /\ pc[c] = "undo" /\ undo_mutex = Nobody /\ undo = NoFile
  /\ Goto(c, "finish")
  /\ IF Op[c] = "UNDO" THEN Set(c, "NO_HISTORY") ELSE UNCHANGED result
  /\ UNCHANGED <<disk, memory, mutexes, streams, at, obj>>

\* The backup is opened, and the file truncated, or created if it is gone.
UndoOpen(c) ==
  /\ pc[c] = "undo" /\ undo_mutex = Nobody /\ undo # NoFile
  /\ undo_mutex' = c
  /\ src' = [src EXCEPT ![c] = undo]
  /\ dst' = [dst EXCEPT ![c] = Created(file)]
  /\ file' = Created(file)
  /\ content' = [content EXCEPT ![Created(file)] = <<>>]
  /\ Goto(c, "undo_copy")
  /\ UNCHANGED <<undo, swap, known, memory, commit_mutex, at, obj, result>>

UndoCopy(c) ==
  /\ pc[c] = "undo_copy"
  /\ content' = [content EXCEPT ![dst[c]] = content[src[c]]]
  /\ src' = [src EXCEPT ![c] = NoFile]
  /\ dst' = [dst EXCEPT ![c] = NoFile]
  /\ Goto(c, "undo_reload")
  /\ UNCHANGED <<file, undo, swap, known, memory, mutexes, at, obj, result>>

\* reload_file_from_disk frees the cached object whatever its reference count, and puts
\* a new one in its place, with no reference, if the file can be opened.
UndoReload(c) ==
  /\ pc[c] = "undo_reload"
  /\ LET old == IF cache = <<>> THEN {} ELSE {Head(cache)}
         new == IF file = NoFile THEN {} ELSE {NewObject}
         gone(f, zero) == [o \in Objects |-> IF o \in old \cup new THEN zero ELSE f[o]]
     IN  /\ live' = (live \ old) \cup new
         /\ cache' = (IF new = {} THEN <<>> ELSE <<NewObject>>)
                     \o (IF old = {} THEN <<>> ELSE Tail(cache))
         /\ words' = [o \in Objects |-> IF o \in new THEN content[file]
                                                    ELSE gone(words, <<>>)[o]]
         /\ refcount' = gone(refcount, 0)
         /\ marked' = gone(marked, FALSE)
  /\ undo_mutex' = Nobody
  /\ Goto(c, "finish")
  /\ UNCHANGED <<disk, commit_mutex, streams, at, obj, result>>
-----------------------------------------------------------------------------
(***************************************************************************)
(* DELETE and CREATE, as the storage server carries them out               *)
(***************************************************************************)

\* find_metadata in delete_file_ll and create_file_ll.  Their error codes are positive,
\* and the caller takes them for success.
FindEntry(c) ==
  /\ pc[c] = "start" /\ Op[c] \in {"DELETE", "CREATE"}
  /\ \/ Op[c] = "DELETE" /\ known /\ Goto(c, "mark") /\ UNCHANGED result
     \/ Op[c] = "DELETE" /\ ~known /\ Goto(c, "done") /\ Set(c, "SUCCESS")
     \/ Op[c] = "CREATE" /\ known /\ Goto(c, "initial") /\ Set(c, "SUCCESS")
     \/ Op[c] = "CREATE" /\ ~known /\ Goto(c, "make") /\ UNCHANGED result
  /\ UNCHANGED <<disk, memory, mutexes, streams, at, obj>>

\* Mutant of MarkDeleted: the reference count is not looked at.
FreeDeleted(c) ==
  /\ pc[c] = "mark"
  /\ \/ /\ cache = <<>>
        /\ UNCHANGED memory
     \/ /\ cache # <<>>
        /\ Freed(Head(cache))
        /\ cache' = Tail(cache)
  /\ Goto(c, "unlink")
  /\ UNCHANGED <<disk, mutexes, streams, at, obj, result>>

\* The object is marked; if nobody has a reference it is unlinked and freed.
MarkDeleted(c) ==
  /\ pc[c] = "mark"
  /\ \/ /\ cache = <<>>
        /\ UNCHANGED memory
     \/ /\ cache # <<>> /\ refcount[Head(cache)] > 0
        /\ marked' = [marked EXCEPT ![Head(cache)] = TRUE]
        /\ UNCHANGED <<cache, live, words, refcount>>
     \/ /\ cache # <<>> /\ refcount[Head(cache)] = 0
        /\ Freed(Head(cache))
        /\ cache' = Tail(cache)
  /\ Goto(c, "unlink")
  /\ UNCHANGED <<disk, mutexes, streams, at, obj, result>>

UnlinkFile(c) ==
  /\ pc[c] = "unlink"
  /\ IF file = NoFile THEN Goto(c, "done") /\ Set(c, "FILE_NOT_FOUND")
                      ELSE Goto(c, "unlink_undo") /\ UNCHANGED result
  /\ file' = NoFile
  /\ UNCHANGED <<undo, swap, content, known, memory, mutexes, streams, at, obj>>

UnlinkUndo(c) ==
  /\ pc[c] = "unlink_undo"
  /\ undo' = NoFile
  /\ Goto(c, "forget")
  /\ UNCHANGED <<file, swap, content, known, memory, mutexes, streams, at, obj, result>>

ForgetEntry(c) ==
  /\ pc[c] = "forget"
  /\ known' = FALSE
  /\ Goto(c, "done")
  /\ Set(c, "SUCCESS")
  /\ UNCHANGED <<file, undo, swap, content, memory, mutexes, streams, at, obj>>

\* The file is made, or emptied if somebody put it there again.
MakeFile(c) ==
  /\ pc[c] = "make"
  /\ file' = Created(file)
  /\ content' = [content EXCEPT ![Created(file)] = <<>>]
  /\ known' = TRUE
  /\ Goto(c, "initial")
  /\ Set(c, "SUCCESS")
  /\ UNCHANGED <<undo, swap, memory, mutexes, streams, at, obj>>
-----------------------------------------------------------------------------
UpdateStep(c) ==
  \/ FindCached(c) \/ LoadFile(c) \/ FileMissing(c) \/ Reap(c)
  \/ StartWrite(c) \/ Inspect(c) \/ WriteBackup(c) \/ EndWrite(c) \/ Vanish(c)
  \/ BeginCommit(c) \/ ApplyEdits(c) \/ SyncToSwap(c) \/ Rename(c) \/ Finish(c)
  \/ StartUndo(c) \/ UndoNoBackup(c) \/ UndoOpen(c) \/ UndoCopy(c) \/ UndoReload(c)
  \/ FindEntry(c) \/ MarkDeleted(c) \/ UnlinkFile(c) \/ UnlinkUndo(c) \/ ForgetEntry(c)
  \/ MakeFile(c)

\* Thread c is about to touch an object that has been freed.
UsesFreed(c) == at[c] # "call" /\ obj[c] \notin live

\* Every thread has answered or has used freed memory, or waits for one that has.
Ended == \/ \A c \in Conns : pc[c] = "done"
         \/ \E c \in Conns : UsesFreed(c)

Stop == Ended /\ UNCHANGED lifetimeVars

LifetimeNext == (\E c \in Conns : UpdateStep(c)) \/ Stop

LifetimeSpec == Init /\ [][LifetimeNext]_lifetimeVars
-----------------------------------------------------------------------------
(***************************************************************************)
(* Properties                                                              *)
(***************************************************************************)
LifetimeTypeOK ==
  /\ {file, undo, swap} \subseteq Inodes \cup {NoFile}
  /\ DOMAIN content = Inodes /\ known \in BOOLEAN
  /\ cache \in Seq(Objects) /\ live \subseteq Objects
  /\ DOMAIN words = Objects
  /\ refcount \in [Objects -> Nat] /\ marked \in [Objects -> BOOLEAN]
  /\ {commit_mutex, undo_mutex} \subseteq Conns \cup {Nobody}
  /\ pc \in [Conns -> PCs] /\ at \in [Conns -> {"call", "using", "reap"}]
  /\ obj \in [Conns -> Objects \cup {NoObject}]
  /\ src \in [Conns -> Inodes \cup {NoFile}] /\ dst \in [Conns -> Inodes \cup {NoFile}]
  /\ result \in [Conns -> Results]

Users(o) == {c \in Conns : at[c] = "using" /\ obj[c] = o}

\* An object's refcount is never below the number of threads between a
\* get_file_from_cache and the end of their use, whatever threads mark, release, reload
\* and free in the meantime.
RefcountCovers == \A o \in live : Cardinality(Users(o)) <= refcount[o]

\* The cache's list has the file at most once (two copies would take the edits and the
\* sentence locks of different sessions) and never leads to a freed object, however loads,
\* file_release, delete_file_ll and reload_file_from_disk interleave.
CachedOnceAndLive ==
  Len(cache) <= 1 /\ \A i \in DOMAIN cache : cache[i] \in live

\* delete_file_ll frees no object that a thread is using.
DeleteFreesUnused ==
  [][\A c \in Conns : pc[c] = "mark" /\ pc'[c] = "unlink" =>
       \A o \in live \ live' : Users(o) = {}]_lifetimeVars

\* "Reference counting prevents use-after-free" (ARCHITECTURE.md): no thread gets to
\* use, release or free an object that is freed.
NoUseAfterFree == \A c \in Conns : ~UsesFreed(c)
=============================================================================
