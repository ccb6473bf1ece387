---------------------------- MODULE WriteSession ----------------------------
(***************************************************************************)
(* Everything a storage server does to the content of ONE file.  Every     *)
(* connection is served by a thread of its own and carries one request:    *)
(* WRITE and UNDO from clients (ss_client_comm.c), CHECKPOINT and REVERT   *)
(* from the name server (ss_nm_comm.c).  The threads share                 *)
(*   - the file, its undo backup and its checkpoint on disk,               *)
(*   - the cached LoadedFile with its sentences and their locks,           *)
(*   - the two global mutexes commit_mutex and undo_mutex.                 *)
(*                                                                         *)
(* An action is a stretch of a thread's code that touches shared state     *)
(* once, so that the actions of the threads interleave as the threads do.  *)
(* The file exists throughout: creation and deletion are not modelled here.*)
(***************************************************************************)
EXTENDS Integers, SentenceText

CONSTANTS
  Conns,         \* the connections, one thread each
  Request,       \* Request[c]: what connection c asks for
  UserOf,        \* UserOf[c]: the user name c sends
  Users,         \* all user names
  NoUser,        \* locked_by of an unlocked sentence
  Authorised,    \* the users has_write_access_ll lets through
  Batches,       \* Batches[c]: the word sequences c may send in one message
  InitialText,   \* the file when the server starts
  InitialUndo,   \* its undo backup then, or NoFile
  NoFile,        \* a backup or a checkpoint that does not exist
  Nobody,        \* the owner of a free mutex
  MaxIndex,      \* bound: the highest sentence index a client asks for
  MaxOps,        \* bound: the words queued in one session
  MaxWordIndex,  \* bound: the highest word index a client asks for
  MaxWriteSize,  \* MAX_WRITE_FILE_SIZE, in tokens
  MayDisconnect, \* the connections whose client may vanish while editing
  DiskFails,     \* the connections whose thread may find fopen or rename failing
  MaxCrashes     \* bound: crashes of the server process

Requests == {"WRITE", "UNDO", "CHECKPOINT", "REVERT"}
Index == 0 .. MaxIndex

ASSUME WriteSessionAssumption ==
  /\ Request \in [Conns -> Requests]
  /\ UserOf \in [Conns -> Users]
  /\ NoUser \notin Users
  /\ Nobody \notin Conns
  /\ MaxIndex \in Nat
  /\ MaxOps \in Nat
  /\ MaxWordIndex \in Nat
  /\ MaxCrashes \in Nat

\* What is on disk at the start and what clients send is text.
ASSUME TextAssumption ==
  /\ InitialText \in Text
  /\ InitialUndo \in Text \cup {NoFile}
  /\ NoFile \notin Text
  /\ \A c \in Conns : Batches[c] \subseteq Seq(Token)

VARIABLES
  disk,          \* the text of the file
  ino,           \* identity of the file at that path: rename() changes it
  swap,          \* the text of the swap file a commit writes, or NoFile
  undo,          \* the text of the undo backup, or NoFile
  ckpt,          \* the text of the checkpoint, or NoFile
  loaded,        \* the file is in the cache list
  mem,           \* the cached sentences (meaningful when loaded)
  gen,           \* which LoadedFile object is cached: a reload replaces it
  locked_by,     \* owner of the lock of the cached sentence at each index
  commit_mutex,  \* owner of the commit mutex
  undo_mutex,    \* owner of the undo mutex
  pc,            \* where the thread of each connection is
  index,         \* sentence_index of each WRITE
  granted,       \* the object in which the WRITE took its sentence lock
  edit,          \* the local variables of handle_write_request
  dst,           \* which file a thread has open for writing, or CHECKPOINT for reading
  displaced,     \* the text of the file a CHECKPOINT has open, once replaced
  reply,         \* what the connection was answered; "closed" if it ended without
                 \* an answer, "lost" if so after sync_file_to_disk had returned
  crashes        \* crashes so far

files == <<disk, ino, swap, undo, ckpt>>
cache == <<loaded, mem, gen, locked_by>>
mutexes == <<commit_mutex, undo_mutex>>
opened == <<dst, displaced>>
vars == <<files, cache, mutexes, pc, index, granted, edit, opened, reply, crashes>>

NoGrant == -1

PCs == {"start", "lock", "count", "open_backup", "write_backup", "edit",
        "commit", "apply", "rename", "answer", "undo", "undo_copy", "undo_reload",
        "ckpt_copy", "revert_copy", "done"}

Replies == {"none", "NO_WRITE_ACCESS", "SENTENCE_OUT_OF_RANGE", "SERVER_ERROR",
            "SENTENCE_LOCKED", "SUCCESS", "INVALID_OPERATION",
            "FILE_NOT_FOUND", "closed", "lost"}

\* word_index and word of an EditOperation.
EditOp == [word_index: Int, word: Token]

\* edit_ops, its first edit_count entries; delimiter_index; how many edits the
\* commit has applied; the offset of its conflict resolution; and the
\* LoadedFile that the commit's doc pointer refers to.
EditLocals == [original_word_count: Nat, ops: Seq(EditOp), delimiter_index: Int,
               applied: Nat, word_offset: Int, doc: Nat]

NoEdits == [original_word_count |-> 0, ops |-> <<>>, delimiter_index |-> -1,
            applied |-> 0, word_offset |-> 0, doc |-> 0]

Writers == {c \in Conns : Request[c] = "WRITE"}

\* The client has been told WRITE_MODE, or is about to be, and the session has
\* not yet run unlock_sentence_ll.
WriteMode(c) == pc[c] \in {"count", "open_backup", "write_backup", "edit"}

\* Between lock_commit and unlock_commit.
InCommit(c) ==
  \/ pc[c] \in {"apply", "rename", "answer"}
  \/ Request[c] = "UNDO" /\ pc[c] \in {"undo", "undo_copy", "undo_reload"}

\* Between locking and unlocking undo_mutex in undo_file_change_ll.
InUndo(c) == pc[c] \in {"undo_copy", "undo_reload"}

\* get_file_from_cache: the cached sentences, loaded first if need be.
get_file_from_cache == IF loaded THEN mem ELSE parse_file_to_linked_list(disk)

\* A lookup leaves the file in the cache.
CacheLoaded == loaded' = TRUE /\ mem' = get_file_from_cache

Finish(c, answer) ==
  /\ pc' = [pc EXCEPT ![c] = "done"]
  /\ reply' = [reply EXCEPT ![c] = answer]

Goto(c, label) ==
  /\ pc' = [pc EXCEPT ![c] = label]
  /\ UNCHANGED reply
-----------------------------------------------------------------------------
Init ==
  /\ disk = InitialText
  /\ ino = 0
  /\ swap = NoFile
  /\ undo = InitialUndo
  /\ ckpt = NoFile
  /\ loaded = FALSE
  /\ mem = <<>>
  /\ gen = 0
  /\ locked_by = [i \in Index |-> NoUser]
  /\ commit_mutex = Nobody
  /\ undo_mutex = Nobody
  /\ pc = [c \in Conns |-> "start"]
  /\ index = [c \in Conns |-> 0]
  /\ granted = [c \in Conns |-> NoGrant]
  /\ edit = [c \in Conns |-> NoEdits]
  /\ dst = [c \in Conns |-> 0]
  /\ displaced = [c \in Conns |-> <<>>]
  /\ reply = [c \in Conns |-> "none"]
  /\ crashes = 0
-----------------------------------------------------------------------------
(***************************************************************************)
(* handle_write_request, up to write mode.                                 *)
(***************************************************************************)

\* The checks made on the file itself, before any lock is taken.
WriteRefusal(c, i) ==
  CASE UserOf[c] \notin Authorised -> "NO_WRITE_ACCESS"
    [] UserOf[c] \in Authorised /\ i >= SentenceSlots(disk) -> "SENTENCE_OUT_OF_RANGE"
    [] UserOf[c] \in Authorised /\ i < SentenceSlots(disk) /\ Len(disk) > MaxWriteSize
         -> "SERVER_ERROR"
    [] OTHER -> "none"

ValidateWrite(c, i) ==
  /\ Request[c] = "WRITE" /\ pc[c] = "start"
  /\ index' = [index EXCEPT ![c] = i]
  /\ LET refusal == WriteRefusal(c, i)
     IN  IF refusal = "none" THEN Goto(c, "lock") ELSE Finish(c, refusal)
  /\ UNCHANGED <<files, cache, mutexes, granted, edit, opened, crashes>>

\* Mutant: lock_sentence_ll without its test of is_locked.
AlwaysFree(i) == TRUE

SentenceFree(i) == locked_by[i] = NoUser

\* lock_sentence_ll.  The index one past the last sentence is granted without
\* locking anything: there is no node to lock yet.
LockRefused(c) ==
  /\ pc[c] = "lock"
  /\ LET count == Len(get_file_from_cache)
     IN  \/ /\ index[c] > count
            /\ Finish(c, "SENTENCE_OUT_OF_RANGE")
         \/ /\ index[c] < count
            /\ ~SentenceFree(index[c])
            /\ Finish(c, "SENTENCE_LOCKED")
  /\ CacheLoaded
  /\ UNCHANGED <<files, gen, locked_by, mutexes, index, granted, edit, opened, crashes>>

\* Mutant: the lock of a sentence that does not exist yet is recorded.
LockMissingSentence(c) ==
  /\ pc[c] = "lock"
  /\ index[c] = Len(get_file_from_cache)
  /\ locked_by' = [locked_by EXCEPT ![index[c]] = UserOf[c]]
  /\ Goto(c, "count")
  /\ CacheLoaded
  /\ UNCHANGED <<files, gen, mutexes, index, granted, edit, opened, crashes>>

LockNewSentence(c) ==
  /\ pc[c] = "lock"
  /\ index[c] = Len(get_file_from_cache)
  /\ Goto(c, "count")
  /\ CacheLoaded
  /\ UNCHANGED <<files, gen, locked_by, mutexes, index, granted, edit, opened, crashes>>

LockSentence(c) ==
  /\ pc[c] = "lock"
  /\ index[c] < Len(get_file_from_cache)
  /\ SentenceFree(index[c])
  /\ locked_by' = [locked_by EXCEPT ![index[c]] = UserOf[c]]
  /\ granted' = [granted EXCEPT ![c] = gen]
  /\ Goto(c, "count")
  /\ CacheLoaded
  /\ UNCHANGED <<files, gen, mutexes, index, edit, opened, crashes>>

\* original_word_count, in a second lookup of the file; then WRITE_MODE is sent.
RecordWordCount(c) ==
  /\ pc[c] = "count"
  /\ edit' = [edit EXCEPT ![c].original_word_count =
                            WordCount(get_file_from_cache, index[c])]
  /\ Goto(c, "open_backup")
  /\ CacheLoaded
  /\ UNCHANGED <<files, gen, locked_by, mutexes, index, granted, opened, crashes>>

\* save_undo_backup_ll: fopen "w" empties the backup, the cached words follow.
\* Neither undo_mutex nor commit_mutex is held.
OpenBackup(c) ==
  /\ pc[c] = "open_backup"
  /\ undo' = <<>>
  /\ Goto(c, "write_backup")
  /\ CacheLoaded
  /\ UNCHANGED <<disk, ino, swap, ckpt, gen, locked_by, mutexes, index, granted, edit,
                 opened, crashes>>

WriteBackup(c) ==
  /\ pc[c] = "write_backup"
  /\ undo' = UndoText(get_file_from_cache)
  /\ Goto(c, "edit")
  /\ CacheLoaded
  /\ UNCHANGED <<disk, ino, swap, ckpt, gen, locked_by, mutexes, index, granted, edit,
                 opened, crashes>>
-----------------------------------------------------------------------------
(***************************************************************************)
(* The edit loop.  A message carries a word index and one or more words;   *)
(* nothing is applied before ETIRW, the words are only checked and queued. *)
(***************************************************************************)

\* The first pass: every word of the batch must lie inside the sentence as it
\* will then be, and not after the sentence's first queued delimiter.
BatchAccepted(e, base, batch) ==
  \A k \in 0 .. Len(batch) - 1 :
    /\ e.delimiter_index >= 0 => base + k <= e.delimiter_index
    /\ base + k >= 0
    /\ base + k <= e.original_word_count + Len(e.ops) + k

\* The second pass.  Every accepted word lies at or before a known delimiter,
\* which each of them pushes one place on.
Queued(e, base, batch) ==
  LET delimited == {k \in 1 .. Len(batch) : EndsSentence(batch[k])}
  IN  [e EXCEPT
        !.ops = @ \o [k \in 1 .. Len(batch) |->
                        [word_index |-> base + k - 1, word |-> batch[k]]],
        !.delimiter_index =
           IF @ >= 0 THEN @ + Len(batch)
           ELSE IF delimited # {} THEN base + Min(delimited) - 1
           ELSE @]

WriteCommand(c, base, batch) ==
  /\ pc[c] = "edit"
  /\ Len(edit[c].ops) + Len(batch) <= MaxOps
  /\ BatchAccepted(edit[c], base, batch)
  /\ edit' = [edit EXCEPT ![c] = Queued(@, base, batch)]
  /\ UNCHANGED <<files, cache, mutexes, pc, index, granted, opened, reply, crashes>>

\* Mutant: handle_write_request without its call of unlock_sentence_ll.
NoUnlock(c) == UNCHANGED locked_by /\ CacheLoaded

\* unlock_sentence_ll: releases the sentence now at that index if its lock
\* carries this user's name; past the end of the list there is none to release.
unlock_sentence_ll(c) ==
  /\ locked_by' = IF locked_by[index[c]] = UserOf[c]
                    THEN [locked_by EXCEPT ![index[c]] = NoUser]
                    ELSE locked_by
  /\ CacheLoaded

\* ETIRW: the sentence is unlocked before the commit lock is taken.
EndWrite(c) ==
  /\ pc[c] = "edit"
  /\ unlock_sentence_ll(c)
  /\ Goto(c, "commit")
  /\ UNCHANGED <<files, gen, mutexes, index, granted, edit, opened, crashes>>

\* The client is gone: unlock, then roll back through the undo backup.
Disconnect(c) ==
  /\ pc[c] = "edit"
  /\ c \in MayDisconnect
  /\ unlock_sentence_ll(c)
  /\ Goto(c, "undo")
  /\ UNCHANGED <<files, gen, mutexes, index, granted, edit, opened, crashes>>
-----------------------------------------------------------------------------
(***************************************************************************)
(* The commit, under commit_mutex.                                         *)
(***************************************************************************)

\* Mutant: a commit that does not wait for commit_mutex.
NoCommitLock == TRUE

\* lock_commit returns once the mutex is free.
CommitFree == commit_mutex = Nobody

\* Mutant: no sentence is created for the index one past the end.
WithoutNewSentence(found, i) == found

\* The index one past the end creates its sentence.
WithTarget(found, i) ==
  IF i = Len(found)
    THEN Append(found, [words |-> <<>>, delimiter |-> NoMark])
    ELSE found

\* lock_commit, then find the sentence again by its index; further past the
\* end than one is an error.
BeginCommit(c) ==
  /\ pc[c] = "commit"
  /\ CommitFree
  /\ LET doc == WithTarget(get_file_from_cache, index[c])
     IN  /\ loaded' = TRUE
         /\ mem' = doc
         /\ \/ /\ index[c] >= Len(doc)
               /\ Finish(c, "SENTENCE_OUT_OF_RANGE")
               /\ UNCHANGED <<commit_mutex, edit>>
            \/ /\ index[c] < Len(doc)
               /\ Goto(c, "apply")
               /\ commit_mutex' = c
               /\ edit' = [edit EXCEPT
                    ![c].doc = gen,
                    ![c].word_offset = WordCount(doc, index[c])
                                         - edit[c].original_word_count]
  /\ UNCHANGED <<files, gen, locked_by, undo_mutex, index, granted, opened, crashes>>

\* Mutant: clamped to the last word instead of past it.
ClampedToLastWord(word_index, word_offset, count) ==
  LET i == word_index + word_offset
  IN  IF i < 0 \/ count = 0 THEN 0 ELSE IF i >= count THEN count - 1 ELSE i

\* Where a queued word goes: its index, moved by as many words as the sentence
\* has gained since the session counted them, and clamped to the sentence.
AdjustedIndex(word_index, word_offset, count) ==
  LET i == word_index + word_offset
  IN  IF i < 0 THEN 0 ELSE IF i > count THEN count ELSE i

WordInserted(doc, i, e) ==
  LET op == e.ops[e.applied + 1]
  IN  [doc EXCEPT ![i + 1].words =
         InsertAt(@, AdjustedIndex(op.word_index, e.word_offset, Len(@)) + 1, op.word)]

\* One queued word is inserted, without file_rwlock.  If the object the commit
\* looked up has been replaced meanwhile, the word goes into freed memory.
ApplyEdit(c) ==
  /\ pc[c] = "apply"
  /\ edit[c].applied < Len(edit[c].ops)
  /\ mem' = IF edit[c].doc = gen THEN WordInserted(mem, index[c], edit[c]) ELSE mem
  /\ edit' = [edit EXCEPT ![c].applied = @ + 1]
  /\ UNCHANGED <<files, loaded, gen, locked_by, mutexes, pc, index, granted, opened,
                 reply, crashes>>

\* sync_file_to_disk: the cached sentences go to a swap file ...
SyncToSwap(c) ==
  /\ pc[c] = "apply"
  /\ edit[c].applied = Len(edit[c].ops)
  /\ swap' = write_linked_list_to_file(get_file_from_cache)
  /\ Goto(c, "rename")
  /\ CacheLoaded
  /\ UNCHANGED <<disk, ino, undo, ckpt, gen, locked_by, mutexes, index, granted, edit,
                 opened, crashes>>

\* What each CHECKPOINT will read when a file it may have open, no longer at the
\* path, holds this text.
Replaced(file, text) ==
  [d \in Conns |-> IF pc[d] = "ckpt_copy" /\ dst[d] = file THEN text ELSE displaced[d]]

\* ... that replaces the file.
Rename(c) ==
  /\ pc[c] = "rename"
  /\ disk' = swap
  /\ displaced' = Replaced(ino, disk)
  /\ swap' = NoFile
  /\ ino' = ino + 1
  /\ Goto(c, "answer")
  /\ UNCHANGED <<undo, ckpt, cache, mutexes, index, granted, edit, dst, crashes>>

\* The swap file cannot be opened, or cannot be renamed and is removed.  The
\* caller does not look at the result of sync_file_to_disk.
OpenSwapFails(c) ==
  /\ pc[c] = "apply"
  /\ edit[c].applied = Len(edit[c].ops)
  /\ c \in DiskFails
  /\ Goto(c, "answer")
  /\ CacheLoaded
  /\ UNCHANGED <<files, gen, locked_by, mutexes, index, granted, edit, opened, crashes>>

RenameFails(c) ==
  /\ pc[c] = "rename"
  /\ c \in DiskFails
  /\ swap' = NoFile
  /\ Goto(c, "answer")
  /\ UNCHANGED <<disk, ino, undo, ckpt, cache, mutexes, index, granted, edit, opened,
                 crashes>>

\* unlock_commit and the answer, a success whatever sync_file_to_disk returned.
\* The metadata statistics also updated here are not part of this module.
AnswerWrite(c) ==
  /\ pc[c] = "answer"
  /\ commit_mutex' = Nobody
  /\ Finish(c, "SUCCESS")
  /\ UNCHANGED <<files, cache, undo_mutex, index, granted, edit, opened, crashes>>
-----------------------------------------------------------------------------
(***************************************************************************)
(* undo_file_change_ll, run by an UNDO request with commit_mutex held, and *)
(* by the rollback of a disconnected session without it.                   *)
(***************************************************************************)
UndoRequest(c) ==
  /\ Request[c] = "UNDO" /\ pc[c] = "start"
  /\ CommitFree
  /\ commit_mutex' = c
  /\ Goto(c, "undo")
  /\ UNCHANGED <<files, cache, undo_mutex, index, granted, edit, opened, crashes>>

\* Mutant: UNDO returns without unlock_commit.
ReturnLocked(c, answer) ==
  UNCHANGED commit_mutex /\ Finish(c, IF Request[c] = "UNDO" THEN answer ELSE "closed")

\* unlock_commit and the answer of an UNDO; the end of a rolled back WRITE.
ReturnFromUndo(c, answer) ==
  IF Request[c] = "UNDO"
    THEN commit_mutex' = Nobody /\ Finish(c, answer)
    ELSE UNCHANGED commit_mutex /\ Finish(c, "closed")

UndoNoBackup(c) ==
  /\ pc[c] = "undo"
  /\ undo_mutex = Nobody
  /\ undo = NoFile
  /\ ReturnFromUndo(c, "INVALID_OPERATION")
  /\ UNCHANGED <<files, cache, undo_mutex, index, granted, edit, opened, crashes>>

\* fopen "w" of the file itself: it is empty until the copy is written.
UndoOpen(c) ==
  /\ pc[c] = "undo"
  /\ undo_mutex = Nobody
  /\ undo # NoFile
  /\ undo_mutex' = c
  /\ disk' = <<>>
  /\ dst' = [dst EXCEPT ![c] = ino]
  /\ Goto(c, "undo_copy")
  /\ UNCHANGED <<displaced, ino, swap, undo, ckpt, cache, commit_mutex, index,
                 granted, edit, crashes>>

\* One of the two fopen calls fails: the file stays as it is, or was emptied by
\* the other call.
UndoOpenFails(c) ==
  /\ pc[c] = "undo"
  /\ undo_mutex = Nobody
  /\ undo # NoFile
  /\ c \in DiskFails
  /\ disk' \in {disk, <<>>}
  /\ ReturnFromUndo(c, "INVALID_OPERATION")
  /\ UNCHANGED <<ino, swap, undo, ckpt, cache, undo_mutex, index, granted, edit, opened,
                 crashes>>

\* The copy reaches the open file, which a rename may have displaced; then only
\* a CHECKPOINT that has the same file open can see it.
Overwrite(c, text) ==
  IF dst[c] = ino
    THEN disk' = text /\ UNCHANGED displaced
    ELSE UNCHANGED disk /\ displaced' = Replaced(dst[c], text)

UndoCopy(c) ==
  /\ pc[c] = "undo_copy"
  /\ Overwrite(c, undo)
  /\ Goto(c, "undo_reload")
  /\ UNCHANGED <<ino, swap, undo, ckpt, cache, mutexes, index, granted, edit, dst, crashes>>

\* Mutant: the cached sentences stay as they are.
KeepCached == mem

\* reload_file_from_disk: the cached object is freed, with its locks, whoever
\* still uses it, and a new one is made from the file.
reload_file_from_disk == parse_file_to_linked_list(disk)

UndoReload(c) ==
  /\ pc[c] = "undo_reload"
  /\ loaded' = TRUE
  /\ mem' = reload_file_from_disk
  /\ gen' = gen + 1
  /\ locked_by' = [i \in Index |-> NoUser]
  /\ undo_mutex' = Nobody
  /\ ReturnFromUndo(c, "SUCCESS")
  /\ UNCHANGED <<files, index, granted, edit, opened, crashes>>
-----------------------------------------------------------------------------
(***************************************************************************)
(* CHECKPOINT and REVERT, from the name server: plain copies of the file   *)
(* that take no lock and do not touch the cache.                           *)
(***************************************************************************)
CheckpointOpen(c) ==
  /\ Request[c] = "CHECKPOINT" /\ pc[c] = "start"
  /\ ckpt' = <<>>
  /\ dst' = [dst EXCEPT ![c] = ino]
  /\ Goto(c, "ckpt_copy")
  /\ UNCHANGED <<disk, ino, swap, undo, cache, mutexes, index, granted, edit,
                 displaced, crashes>>

CheckpointCopy(c) ==
  /\ pc[c] = "ckpt_copy"
  /\ ckpt' = IF dst[c] = ino THEN disk ELSE displaced[c]
  /\ Finish(c, "SUCCESS")
  /\ UNCHANGED <<disk, ino, swap, undo, cache, mutexes, index, granted, edit, opened,
                 crashes>>

RevertNoCheckpoint(c) ==
  /\ Request[c] = "REVERT" /\ pc[c] = "start"
  /\ ckpt = NoFile
  /\ Finish(c, "FILE_NOT_FOUND")
  /\ UNCHANGED <<files, cache, mutexes, index, granted, edit, opened, crashes>>

RevertOpen(c) ==
  /\ Request[c] = "REVERT" /\ pc[c] = "start"
  /\ ckpt # NoFile
  /\ disk' = <<>>
  /\ dst' = [dst EXCEPT ![c] = ino]
  /\ Goto(c, "revert_copy")
  /\ UNCHANGED <<displaced, ino, swap, undo, ckpt, cache, mutexes, index, granted,
                 edit, crashes>>

RevertCopy(c) ==
  /\ pc[c] = "revert_copy"
  /\ Overwrite(c, ckpt)
  /\ Finish(c, "SUCCESS")
  /\ UNCHANGED <<ino, swap, undo, ckpt, cache, mutexes, index, granted, edit, dst, crashes>>
-----------------------------------------------------------------------------
\* The server process dies and is started again: the files stay, the cache,
\* the locks and the connections being served are gone.
Crash ==
  /\ crashes < MaxCrashes
  /\ crashes' = crashes + 1
  /\ loaded' = FALSE
  /\ mem' = <<>>
  /\ gen' = gen + 1
  /\ locked_by' = [i \in Index |-> NoUser]
  /\ commit_mutex' = Nobody
  /\ undo_mutex' = Nobody
  /\ pc' = [c \in Conns |-> IF pc[c] = "start" THEN "start" ELSE "done"]
  /\ reply' = [c \in Conns |-> CASE pc[c] \in {"start", "done"} -> reply[c]
                                 [] pc[c] = "answer" -> "lost"
                                 [] OTHER -> "closed"]
  /\ UNCHANGED <<files, index, granted, edit, opened>>

\* What the server does by itself for connection c.
ServerStep(c) ==
  \/ LockRefused(c) \/ LockNewSentence(c) \/ LockSentence(c)
  \/ RecordWordCount(c) \/ OpenBackup(c) \/ WriteBackup(c)
  \/ BeginCommit(c) \/ ApplyEdit(c)
  \/ SyncToSwap(c) \/ OpenSwapFails(c) \/ Rename(c) \/ RenameFails(c) \/ AnswerWrite(c)
  \/ UndoNoBackup(c) \/ UndoOpen(c) \/ UndoOpenFails(c) \/ UndoCopy(c) \/ UndoReload(c)
  \/ CheckpointCopy(c) \/ RevertCopy(c)

\* What happens when a client, or the name server, sends something.
ClientStep(c) ==
  \/ \E i \in Index : ValidateWrite(c, i)
  \/ \E batch \in Batches[c] : \E base \in 0 .. MaxWordIndex :
        WriteCommand(c, base, batch)
  \/ EndWrite(c) \/ Disconnect(c)
  \/ UndoRequest(c)
  \/ CheckpointOpen(c) \/ RevertNoCheckpoint(c) \/ RevertOpen(c)

Done == (\A c \in Conns : pc[c] = "done") /\ UNCHANGED vars

Next ==
  \/ \E c \in Conns : ServerStep(c) \/ ClientStep(c)
  \/ Crash
  \/ Done

Spec == Init /\ [][Next]_vars

\* The scheduler runs every thread that can run.  Clients owe nothing.
FairSpec == Spec /\ \A c \in Conns : WF_vars(ServerStep(c))
-----------------------------------------------------------------------------
(***************************************************************************)
(* Properties.                                                             *)
(***************************************************************************)

\* Control state: who is where, who holds what.
ControlTypeOK ==
  /\ gen \in Nat
  /\ locked_by \in [Index -> Users \cup {NoUser}]
  /\ commit_mutex \in Conns \cup {Nobody}
  /\ undo_mutex \in Conns \cup {Nobody}
  /\ pc \in [Conns -> PCs]
  /\ index \in [Conns -> Index]
  /\ granted \in [Conns -> Nat \cup {NoGrant}]
  /\ reply \in [Conns -> Replies]

\* Documents, files and the edits of the sessions.
DataTypeOK ==
  /\ disk \in Text
  /\ ino \in Nat
  /\ swap \in Text \cup {NoFile}
  /\ undo \in Text \cup {NoFile}
  /\ ckpt \in Text \cup {NoFile}
  /\ loaded \in BOOLEAN
  /\ mem \in Document
  /\ \A i \in Index : locked_by[i] # NoUser => loaded /\ i < Len(mem)
  /\ edit \in [Conns -> EditLocals]
  /\ dst \in [Conns -> Nat]
  /\ displaced \in [Conns -> Text]
  /\ crashes \in 0 .. MaxCrashes

\* Every variable holds a value its C counterpart can hold.
TypeOK == ControlTypeOK /\ DataTypeOK

\* A mutex is held exactly by the thread that is between its lock and unlock
\* calls: commits exclude each other and UNDO, file copies of undo exclude each
\* other, and no early return or error path leaves a mutex locked behind it.
\* The owner of undo_mutex waits for no other mutex, so no cycle can form.
MutexesMatch ==
  \A c \in Conns :
    /\ InCommit(c) <=> commit_mutex = c
    /\ InUndo(c) <=> undo_mutex = c

\* Two sessions that were both granted the lock of the same sentence of the
\* same cached document are never in write mode together: lock_sentence_ll
\* and unlock_sentence_ll make a sentence lock exclusive.
LockExclusion ==
  \A c, d \in Conns :
    c # d /\ WriteMode(c) /\ WriteMode(d) /\ index[c] = index[d]
          /\ granted[c] # NoGrant
      => granted[c] # granted[d]

\* A session that was granted the lock of a sentence of the cached document
\* keeps it until it releases it itself.
LockKept ==
  \A c \in Conns :
    WriteMode(c) /\ granted[c] = gen => locked_by[index[c]] = UserOf[c]

\* The states of handle_write_request before unlock_sentence_ll belong to WRITE.
RequestFits ==
  \A c \in Conns : pc[c] = "lock" \/ WriteMode(c) => Request[c] = "WRITE"

\* Locks are granted once per session, and in no document newer than the cached
\* one.
GrantsFit ==
  \A c \in Conns :
    /\ granted[c] <= gen
    /\ pc[c] \in {"start", "lock"} => granted[c] = NoGrant

\* The inductive invariant behind LockExclusion.
LockInv ==
  ControlTypeOK /\ RequestFits /\ GrantsFit /\ LockKept /\ LockExclusion

\* Each WRITE comes from a user of its own.
OneSessionPerUser ==
  \A c, d \in Conns :
    Request[c] = "WRITE" /\ Request[d] = "WRITE" /\ UserOf[c] = UserOf[d] => c = d

\* A locked sentence always has a session that took this very lock, is still
\* in write mode and will therefore release it: no error path of
\* handle_write_request leaves a sentence locked for ever.
NoOrphanLock ==
  \A i \in Index :
    locked_by[i] # NoUser =>
      \E c \in Conns : /\ WriteMode(c)
                       /\ index[c] = i
                       /\ granted[c] = gen
                       /\ UserOf[c] = locked_by[i]

\* The words a connection may send, and where they occur in a text.
OwnBodies(c) == UNION {{batch[k].body : k \in DOMAIN batch} : batch \in Batches[c]}
OwnWords(text, c) == WordsIn(text, OwnBodies(c))

\* A sentence of count words, after a session that alone edits it inserted its
\* queued words one by one.  The words it found there are blanks.
PutWord(words, op) == InsertAt(words, op.word_index + 1, op.word)
EditedAlone(count, ops) ==
  LET edited[k \in 0 .. Len(ops)] ==
        IF k = 0 THEN [i \in 1 .. count |-> [body |-> NoBody, marks |-> <<>>]]
        ELSE PutWord(edited[k - 1], ops[k])
  IN  edited[Len(ops)]

\* The words a session queued, in the order they then have.
QueuedWords(c) ==
  WordsIn(EditedAlone(edit[c].original_word_count, edit[c].ops), Bodies)

\* The sync of the session is over: its client has been told so, is about to be,
\* or was not because the server died in between.
Committed(c) ==
  \/ pc[c] = "answer"
  \/ pc[c] = "done" /\ reply[c] \in {"SUCCESS", "lost"}

\* A WRITE whose commit is over, answered or not, is in the file, whatever other
\* sessions and crashes did since: each of its words exactly once, and its
\* words in the order its client built them up in.
CommittedAsQueued ==
  \A c \in Writers : Committed(c) => OwnWords(disk, c) = QueuedWords(c)

HoldsWholeSessions(text) ==
  \A c \in Writers : Len(OwnWords(text, c)) \in {0, Len(edit[c].ops)}

\* READ returns the file as it is on disk.  The file is always there, and what it shows
\* of any session is either nothing or the whole of its edits: never part of a commit.
\* The same holds of a checkpoint, although CHECKPOINT reads the file without a lock.
AllOrNothing ==
  /\ disk # NoFile /\ HoldsWholeSessions(disk)
  /\ ckpt # NoFile => HoldsWholeSessions(ckpt)

\* No thread is between opening the file or starting to change the cached
\* sentences and the end of that change.
Quiescent ==
  \A c \in Conns : pc[c] \notin {"apply", "rename", "undo_copy", "undo_reload", "revert_copy"}

\* The cached sentences and the file never drift apart: whenever no thread is
\* in the middle of a change, either the cache is what loading the file gives
\* or the file is what saving the cache gives.
CacheAgreesWithDisk ==
  loaded /\ Quiescent =>
    \/ mem = parse_file_to_linked_list(disk)
    \/ disk = write_linked_list_to_file(mem)

\* Words of a finished write that UNDO or REVERT removed from the file stay
\* away when another session replaces the file: the commit does not bring them
\* back from a stale cached document.
RemovedStaysRemoved ==
  [][\A c, d \in Writers :
       /\ Committed(c) /\ OwnWords(disk, c) = <<>> /\ Len(edit[c].ops) > 0
       /\ \A r \in Conns : pc[r] \notin {"undo_copy", "revert_copy"}
       /\ pc[d] = "rename" /\ pc'[d] = "answer"
       => OwnWords(disk', c) = <<>>]_vars

\* No two clients are in write mode on the same sentence index.
WriteModeExclusive ==
  \A c, d \in Conns :
    c # d /\ WriteMode(c) /\ WriteMode(d) => index[c] # index[d]

\* A client that has sent ETIRW gets its write committed.
CommitSucceeds ==
  \A c \in Writers : pc[c] = "commit" ~> reply[c] = "SUCCESS"

\* Every request that needs nothing more from its client is answered, or its
\* rollback ends: the two mutexes never block each other for good.
ServerFinishes ==
  \A c \in Conns : pc[c] \in {"commit", "undo"} ~> pc[c] = "done"
=============================================================================
