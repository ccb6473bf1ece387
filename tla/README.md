# TLA+ models of the distributed document store

The repository is a small network file system: a **name server** knows which file
is on which **storage server**, and **clients** ask it for a location and then
read and write the file, sentence by sentence and word by word, at the storage
server itself. Each server runs one thread per connection. The interesting
behaviour is in what those threads share, and these modules model that.

## 1. Inventory

| Part | State | Operations | Talks to |
|---|---|---|---|
| Write sessions (`ss_client_comm.c`, `file_handler_ll.c`) | the file, its swap file, the cached `LoadedFile` with sentence locks, `commit_mutex`, the session's `edit_ops` | WRITE, word batches, ETIRW, disconnect | client over one TCP connection |
| UNDO (`file_write_ll.c`) | the undo backup, `undo_mutex` | backup at session start, UNDO, rollback of vanished clients | shares file and cache with write sessions |
| Checkpoints (`ss_nm_comm.c`) | one file per tag | CHECKPOINT, REVERT, VIEWCHECKPOINT, LISTCHECKPOINTS | the name server's connection; shares the file |
| Name server tables (`ss_manager.c`) | `storage_servers[]` with `files[]`, hash table of pointers into them, round-robin position | registration, assignment, add, remove | all handlers |
| Location cache (`ss_manager.c`) | 100 hashed entries with a time to live | lookup, insert, invalidate, clear | GET_SS_INFO, DELETE, MOVE |
| File requests (`client_handler.c`) | locals of the handler | CREATE, CREATEFOLDER, DELETE, MOVE, GET_SS_INFO | table, cache, and a call to the storage server |
| Storage server commands (`ss_nm_comm.c`, `file_handler_ll.c`) | metadata list, directory tree | create, delete, mkdir, move | called by the name server |
| Metadata and statistics (`file_handler_ll.c`) | `metadata_list[]`, metadata file | load, save, update, delete | everything on the storage server |
| Cached file lifetime (`file_handler_ll.c`) | reference count, deletion mark | acquire, release, mark, free, reload | all users of `LoadedFile *` |
| Access control (`file_handler_ll.c`, `client_handler.c`) | access lists, access cache | ADDACCESS, REMACCESS, checks | metadata |
| Access requests (`client_handler.c`) | `access_requests[]` | request, view, approve, reject | ADDACCESS |
| READ, STREAM, EXEC (`ss_client_comm.c`, `ss_nm_comm.c`, `client_ss_comm.c`, `client_handler.c`) | an open file, a buffer, what has been received; a temporary script | transfer in chunks; EXEC runs what it received | the file as writers leave it |
| VIEW, INFO, VIEWFOLDER, the checkpoint queries (`client_handler.c`) | loop variables, the answer so far | questions to storage servers, VIEW with two mutexes held | tables of the name server, storage servers |
| Client sessions (`client_handler.c`, `name_server.c`) | `clients[]` | registration, LIST | |
| Client, message transport, logging | sockets | parsing, display, framing | |

What is hard here, and hard to test:

* commits of several sessions rewrite one list of sentences word by word, and the
  sentence lock is released *before* the commit takes `commit_mutex`;
* word indices are taken relative to a word count that is stale by the time the
  commit uses it;
* UNDO, REVERT and the rollback of a client that vanished replace the file, and
  some of them the cache, under sessions that are in write mode;
* CHECKPOINT and REVERT copy the file with no lock at all;
* a process may die between swap file, rename and answer;
* the name server checks and records a name in separate critical sections, and
  calls a storage server in between; that call can fail before or after its effect;
* hash nodes point into arrays whose elements move;
* the location cache is filled after the lookup it caches, so a location can be put there
  when its file has just been deleted;
* access checks copy a list and fill a cache without the lock that changes of the list
  hold, and the metadata file is rewritten in place by several threads;
* a cached file is shared by pointer, its reference count and its place in the list
  are protected by different mutexes, and UNDO replaces it whatever the count says;
* files travel in chunks over connections that break or fall silent, while the file is
  rewritten, renamed, deleted and created again; a send to a client that is gone ends
  the storage server;
* the name server holds mutexes while it waits for a storage server, which may
  be waiting for the name server.

`PROJECT.json` lists these as hazards, each at its line.

## 2. Modules

| Module | Contents |
|---|---|
| `SentenceText` | how a text becomes sentences (`parse_file_to_linked_list`), how sentences become a text again (`write_linked_list_to_file`, and the different format of the undo backup), how many sentence slots a text has |
| `WriteSession` | everything that happens to the content of one file: WRITE, UNDO, CHECKPOINT, REVERT, crash |
| `AtomicDocument` | the promise to writers: whole sessions, nothing lost, nothing invented |
| `WriteRefinement` | the mapping by which `WriteSession` implements `AtomicDocument` |
| `MCWriteSession` | instances for TLC: connections, users, words |
| `WriteSessionProofs` | theorems about mutexes, sentence locks, and the cached sentences against the file |
| `NameServer` | the namespace: registration, CREATE, CREATEFOLDER, DELETE, MOVE, GET_SS_INFO, the location cache, and the storage servers as those requests see them |
| `MCNameServer` | instances for TLC: servers, requests, initial files |
| `NameServerProofs` | theorems about the file lists |
| `NamespaceProofs` | theorems about types, round-robin, hash nodes, stored files, owners and registration |
| `AccessControl` | access lists, the access cache, the metadata list and its file on a storage server, and the access requests of the name server |
| `MCAccessControl` | instances for TLC: requests, users, a small cache with colliding keys |
| `AccessControlProofs` | theorems about the metadata list, its file, access requests, access lists and their cache |
| `FileLifetime` | the cached `LoadedFile` objects of one file, their reference counts and deletion marks, and its inodes, under WRITE, UNDO, DELETE and CREATE |
| `MCFileLifetime` | the smallest instance in which a deleted object is shared |
| `FileLifetimeProofs` | the inductive invariant of the cached objects and their reference counts |
| `Transfer` | READ, STREAM and EXEC, composed with `FileLifetime` (it EXTENDS it) |
| `MCTransfer` | groups of requests on one file, with and without readers |
| `TransferProofs` | theorems about reference counts, and about what a transfer delivers |
| `Queries` | the name server's questions to storage servers and the mutexes held meanwhile: VIEW, INFO, folder and checkpoint queries, CREATE, registrations, LIST; storage servers that crash and return |
| `MCQueries` | groups of requests, crashing and new servers |
| `QueriesProofs` | theorems about VIEW and CREATE |
| `ListLemmas` | lemmas about sequences, finite sets and counting that the proofs share |

### How `WriteSession` corresponds to the code

A connection is a thread and carries one request, as in the code. An action is the
stretch of a thread's code up to its next access to shared state:

* `ValidateWrite` (access, index against the file's full stops, size limit),
  `LockRefused`/`LockNewSentence`/`LockSentence` (`lock_sentence_ll`),
  `RecordWordCount`, `OpenBackup`, `WriteBackup` (`save_undo_backup_ll`) bring a
  session into write mode;
* `WriteCommand` queues the words of one message; `EndWrite` (ETIRW) and
  `Disconnect` both run `unlock_sentence_ll` and part ways then;
* `BeginCommit` takes `commit_mutex` and appends a sentence if need be,
  `ApplyEdit` inserts one word with the code's conflict resolution (offset, clamp),
  `SyncToSwap` writes the swap file, `Rename` renames it, and `AnswerWrite` unlocks
  and answers. `OpenSwapFails` and `RenameFails` are the error returns of
  `sync_file_to_disk`, which the handler ignores: it answers success all the same.
  `DiskFails` names the connections that may meet them, and `UndoOpenFails`;
* `UndoRequest`, `UndoNoBackup`, `UndoOpen` (truncates the file), `UndoCopy`,
  `UndoReload` are `undo_file_change_ll`; the rollback of a vanished client enters
  the same steps *without* `commit_mutex`, as the code does;
* `CheckpointOpen`/`CheckpointCopy` and `RevertOpen`/`RevertCopy` are file copies.
  `rename` gives the path a new file (`ino`), so a thread that has the old one open
  reads or writes that: `dst` and `displaced` record this.
* `Crash` loses the cache, the locks and the connections and keeps the files. It may come
  between the rename and the answer, and stands for a death by SIGPIPE too.

`gen` names the cached `LoadedFile` object. `reload_file_from_disk` replaces it and
forgets the locks; `granted` remembers in which object a session got its lock.

Data are abstracted to words as tokens (a body and a list of delimiters). Commit
statistics, access times and log lines are left out. One file is modelled because
sessions on different files share nothing but the two mutexes. Functions nobody calls (`write_to_file_ll`,
`read_file_ll`, `file_has_locked_sentences`, `force_unlock_all_sentences_ll`,
`ensure_sentence_delimiter_ll`, `unload_file_from_memory`) are not modelled.

### How `NameServer` corresponds to the code

`slots[s]` and `file_count[s]` are the `files` array and count of a server, `nodes`
the hash nodes in the order a bucket's chain has them, `entries` the cache. Pointers
are records of a server and a slot; `Deref` reads whatever is in that slot *now*,
which after a removal may be another file's entry. Registration
(`RegisterServer`, `ListFile`, `CountFile`, `EndRegistration`) fills a list slot by
slot. A CREATE is `CheckNew`, then `AssignServer` and `AdvanceIndex` (the server at the
round-robin position is read, and the position moved on, while the thread has
`assignment_mutex`), `RecordFile`, the remote step, and `FinishCreate`, which takes the
record back on failure. DELETE and MOVE are
`FindTarget`, `CheckOwner`, the remote step, then `FinishDelete`/`ForgetLocation` or
`FinishMove`/`RenameFile`/`InsertMoved`/`ForgetAll`. GET_SS_INFO is `LookupCache`,
`FindFile`, `CacheLocation`, `AnswerLocation`. `Expire` is the passage of
`CACHE_TTL` seconds. `MaxActive` bounds how many requests are served at a time, and
`Early` names the connections that may ask before all servers are registered.

What a storage server does for one command is one step, with the return codes of the
code: an `ERR_...` constant is positive, so tests of the form `result < 0` take it
for success. `CallFails` is a call that fails before the storage server acts; the
same action after the remote step is a lost reply. Every failure to reach a storage
server is the answer `CONNECTION_FAILED`. No code ever marks a storage server
offline, so the model has no such status.

### How `AccessControl` corresponds to the code

`list`, `count` and the metadata file (`mfile`, `mlen`) are `metadata_list`,
`metadata_count` and `metadata.txt`; `cache` is `access_cache` and `requests` the name
server's `access_requests`. `ptr[c]` is the `FileMetadata *` that `find_metadata`
returned after unlocking, so what it points to may be another file's entry by the time
it is used. `Forward`, `RequestAccess`, `Approve`, `Reject` and `RefuseDecision` are the
handlers of `client_handler.c`; their critical sections under `request_mutex` are one
step. `FindMetadata` starts every operation of the storage server; then

* CREATE: `CreateEntry`; DELETE: `Unlink`, `RemoveEntry` (entries move up);
* ADDACCESS, REMACCESS and APPROVE: `DropAccess` (takes `metadata_mutex`),
  `AppendAccess`, `Invalidate` (releases it);
* all of these then save: `SaveOpen` truncates without a lock, `SaveWrite` writes the
  list under `metadata_mutex`, `SaveClose` flushes the last bytes without it. An entry has
  4624 bytes, so a stream keeps the end of the last entry in its buffer until then;
  `mlen` counts the entries that `fread` would return. Access lists are taken to be
  short enough for those last bytes to be zeros;
* READ and WRITE: `CheckOwner`, `Lookup`, `Rebuild`, `Relookup`.

`Probe` is the hash table's search: a key's own slot is only ever used if it is already
there, and the following slots are tried up to the first free one. The check copies
an access list without `metadata_mutex`; if it is being rewritten then, the copy may
miss one entry (`Readings`). A copy is not torn inside a name, and a whole
`FileMetadata` is moved in one step. Names are sequences of parts, because `strstr` finds a user
name at the end of a longer one: `Dropped` does what the code does then. The lengths
of lists and of names are not bounded. `Crash` restarts the storage server from what is left
of the metadata file; the name server takes the missing answer for success
(`client_handler.c:560`). `Served` lists which groups of connections are made; a
run covers every group.

### How `FileLifetime` corresponds to the code

`cache` is the part of `file_cache_head`'s list that has this file's name; `live`,
`words`, `refcount` and `marked` are the allocated objects and their fields. Freed
addresses are reused. A handler calls `get_file_from_cache` at several places (`Sites`);
each is `FindCached`, `LoadFile` or `FileMissing`, then the use of the object
(`Inspect`, `WriteBackup`, `ApplyEdits`, `SyncToSwap`), which ends with `file_release`
at the sites in `Releasing` and without it at the others. `file_release` is two steps,
because it unlocks `refcount_lock` before it takes `file_cache_mutex`: the decision
(`Leave`) and `Reap`. `MarkDeleted`, `UnlinkFile`, `UnlinkUndo`, `ForgetEntry` are
`delete_file_ll`, `MakeFile` is `create_file_ll`, `UndoReload` is
`reload_file_from_disk`, which frees the cached object whatever its count. Names lead to
inodes, and inodes to contents: `rename` and `unlink` change names, `fopen(..., "w")`
truncates an inode, and whoever has an inode open keeps it. A session appends one
word: `WriteSession` has the rest of what WRITE does. After a use of a freed object the
program's behaviour is undefined, and the model stops that thread.

### How `Transfer` corresponds to the code

The sender is the storage server's thread: `StartRead` (access), `OpenFile`
(`fopen`, `ftell`), `SendFirst` (the size; a small READ goes with it), `ReadBlock`
(`fread` into a buffer), `SendChunk`, `SendStop`. The receiver is the client, or for
EXEC the name server, which leaves its loop as soon as it has as much as was announced,
and then is in `WriteScript`, `RunScript`, `UnlinkScript`; `ScriptFails` and `RunFails`
are a temporary file that cannot be opened and a shell that cannot be started. A word
stands for a word of STREAM and for a byte of READ and EXEC; `SmallFile` and `ChunkSize`
are the code's limits, scaled down. (STREAM cuts words off after 4095 bytes; the words of
the model fit.)

A connection (`link`) is up, broken or silent. `Break` loses it, with the tail of the
messages on their way.

* Broken: the receiver is told once it has taken what did arrive (`ConnectionLost`).
  `Closed` also covers the `close_socket` with which the sender's thread ends.
* Silent: the other machine or the network is gone. `receive_message` calls `recv` again
  after every timeout, so the receiver has no step (`WaitsInVain`).
* A send on either is lost, and the thread goes on or returns (`Send`). On a broken
  connection it may also be the end of the process: SIGPIPE is not ignored. `Killed` ends
  every thread that has begun, forgets the cached objects and the mutexes, closes the
  other connections, and keeps the files; the server is started again and serves the
  requests that have not begun. What a death does to a metadata file that is being
  written is in `AccessControl`.

### How `Queries` corresponds to the code

One action is a critical section, or the part of one before or after a question to a
storage server: `ViewLock`, `ViewEnter`, `ViewAskAccess`, `ViewAccess`,
`ViewAskDetails`, `ViewDetails`, `ViewLeave`, `ViewEnd` are the two nested loops of
`handle_view_files`. `Ask` is connect and send, `Serve` what the storage
server does with the question, `Outcomes` the codes it can answer. A server that
crashes may have carried out a CREATE it has not answered (`Unanswered`). A storage
server is `up`, `down`, or `booting`: listening, but without the threads that answer
until its registration is acknowledged (`RegisterLock`, `Reconnect` or `RegisterNew`,
`PrintStatus`, `Acknowledge`). The timeout of `receive_message` is retried without end,
so it is no step. `call = "unset"` is an INFO about a file without metadata: the
storage server answers success with a structure nobody filled in, and
`user_has_access` may find any name there.

The hash table is taken for the lists (its pointers are the subject of `NameServer`),
and the registration of a server for one step (likewise). The answers of storage servers have type
`MSG_ACK`, errors too; only INFO's success is a `MSG_RESPONSE`. The name server passes the type on. `ToldSuccess` is the client's test:
some of its functions look at `error_code`, some at `msg_type` only.

## 3. Runs

All runs finish within about a minute on two workers. Deadlock is checked in each of them
except `QU_reconnect`, whose deadlock is what it shows, and `QU_queries`, where it happens
too and `OnlyStartsBlock` says that it is the only one. Elsewhere the stuttering step
(`Done`, `Stop`, `Quiet`) needs every request to be answered, or in `Transfer` to wait on
a silent connection.

| Run | Instance | Shows |
|---|---|---|
| `WS_commit` | 2 writers, 2 words each, word index 0..3, sentence 0..1, 1 crash | `TypeOK`; `CommittedAsQueued`: a successful write is in the file, in its client's order; `AtomicDocumentSpec`: the refinement |
| `WS_undo` | 2 writers, 2 UNDOs, 1 crash | `CacheAgreesWithDisk`; `RemovedStaysRemoved`: undone words do not come back |
| `WS_locks` | 2 writers that may vanish, an UNDO, no backup at first, failing `fopen` and `rename`, 1 crash | `LockExclusion`, `NoOrphanLock`, `MutexesMatch` and `ServerFinishes` |
| `WS_checkpoint` | 2 writers of whole sentences, 1 without access, CHECKPOINT, REVERT, size limit 1 | `AllOrNothing` (of the file and of the checkpoint), `CommitSucceeds` |
| `NS_create` | 4 CREATEs and a CREATEFOLDER, 2 users, 2 servers with room for 2 files and 1 metadata entry | `TypeOK`, `Balanced`, `CreatorOwns` |
| `NS_churn` | 3 CREATEs, a DELETE and 2 lookups of 2 names with one cache slot, 3 at a time, 1 failing call | `NodesMatchLists`, `NoGhostFile`, `OneEntryPerServer`, `ListedIsStored`; `StaleMeansRemoved`: a wrong location was right before the file was removed |
| `NS_serial` | 2 servers register (3 files, room for 2) during lookups; then 8 requests by 2 users, most about one file, one at a time in any order | `CacheTruthful`, `LocationTrue`, `RegisteredFilesListed` |
| `AC_access` | 15 requests in 6 groups of 4 or 5, all at once within a group: checks against ADDACCESS, REMACCESS, APPROVE; CREATE against DELETE with a full list; requests and decisions made twice. 3 cache slots, 1 failing call, 1 crash | `TypeOK`, `CacheSound`, `GrantedIsListed`, `OthersKeepAccess`, `MetadataSaved`, `RequestsConsistent`, `ApprovedIsGranted` |
| `TR_files` | 11 connections in 12 groups of 2 or 3: WRITEs (one vanishes), UNDO, DELETEs, CREATE, READ, STREAM, EXECs; a file of 3 words, buffers of 2; cached or not at first; 1 connection that is lost, noticed or not, and the server killed by it | `TypeOK`, `RefcountCovers`, `CachedOnceAndLive`, `DeleteFreesUnused`; `CompleteIsWhole`, `ExecBufferHolds`, `TransferEnds` |
| `QU_queries` | 20 connections in 12 groups of 3 to 5, 2 registered and 2 new servers (room for 1) that bring a file, lists and answers that fill up, crashes, a restart | `TypeOK`, `ViewConsistent`, `SuccessIsReal`; `OnlyStartsBlock`: clients and storage servers that register are served, or a VIEW waits for a server that is starting |
| `FL_use_after_free` | 2 WRITEs and a DELETE | **violated**: `NoUseAfterFree` |
| `QU_reconnect` | a VIEW -l and a storage server that crashes and restarts | **violated**: `RequestsAnswered` |

**Bounds.** Two sessions suffice for every pairwise property (locks, order of words,
atomicity), and a third connection supplies the interference (UNDO, CHECKPOINT,
REVERT). Two words per session is the least for which "half a write" and "their
order" mean something. Sentence indices reach one past the last sentence, the case
that is treated specially. `MaxCrashes = 1` puts the crash at every point of every
behaviour; nothing survives a crash that a second one could meet differently. Two
storage servers are the least for round-robin; lists are small enough to fill
up; one failing call is placed before or after each remote effect. Three threads
suffice for an object that one thread uses, another releases and the third marks or
replaces. Five addresses and ten inodes are what `EnoughAssumption` asks for with three
threads, so that neither memory nor the disk ever runs out. Three words and
buffers of two make a READ of two chunks and a STREAM with words left in the buffer.
One connection that is lost meets every state of a transfer. The groups of `QU_queries`
put every two kinds of request together that share a mutex or a list, with a crash of
the server they ask; VIEWs meet `s2`, which restarts, and `s3`, which is new and brings a
file, between the start of their registration and its end. `DiskFails` is
`{w1, u1}` in `WS_locks` and empty in the runs about the content of the file, which a
failing sync contradicts (section 4).

**Fairness.** `FairSpec` assumes weak fairness of `ServerStep(c)` only: the operating
system runs a thread that can run, and a blocked `pthread_mutex_lock` succeeds at
some time once the mutex stays free. Steps that need a message from a client have no
fairness: a client may stay silent for ever. `ServerFinishes` and `CommitSucceeds`
speak of requests that need nothing more from a client. Each connection carries a
finite number of steps, so weak fairness is not defeated by endless contention.
`Transfer` and `Queries` need less: weak fairness of the disjunction of all steps
of transfers, or of the name server's threads and storage servers that are up; as long
as anything can go on, something does. Neither a break, a crash nor a restart is
ever assumed to happen. Nothing is assumed of a timeout, as the code does nothing about
one; the counterexample of `QU_reconnect` ends in a state from which no server step leads
on.

**Mutants.** For each property of a passing run `PROJECT.json` names a small change
of the modelled code (a dropped check, a forgotten unlock, an off-by-one); the
mutated bodies are the definitions marked `Mutant` in the modules. Each is caught.

## 4. What the code does that its documents do not say

Runs with the expectation "violation" (see `findings` for the quoted lines):

1. **A cached file is used after it was freed.** `file_release` decides to free an
   object under `refcount_lock` and does so later under `file_cache_mutex`; in between a
   lookup can hand the object out again.
2. **VIEW and a storage server that starts wait for each other.** VIEW keeps
   `ss_list_mutex` and an `ss_mutex` while it waits for an answer; the storage server
   answers after its registration, which needs `ss_list_mutex` if the server was
   registered before, and, if it is new and brings a file, its `ss_mutex`
   (`print_server_status`, before the acknowledgement). No timeout ends this.
   `QU_reconnect` shows the first case; with `Served = {{2, s3}}` it shows the second.

The models show more of them; each can be reproduced with a change of a
configuration, and they limit what the passing runs claim:

| Change | Fails | Why |
|---|---|---|
| `WS_locks` with `InitialText <- EmptyText`, `INVARIANT WriteModeExclusive` | `WriteModeExclusive` | `lock_sentence_ll` grants the index one past the last sentence without locking anything (`file_handler_ll.c:1013`); two clients share it, though README.md:315 and ARCHITECTURE.md:1418 of the repository say the second is refused |
| `WS_commit` with `MayDisconnect = {w1}` | `CommittedAsQueued`, `AtomicDocumentSpec` | nothing of an incomplete session was applied, but its rollback restores the backup made when it began, without what others have committed since (`ss_client_comm.c:512`) |
| `NS_create` with `INVARIANT UniqueNames` | `UniqueNames` | check and record are separate, and the record looks at one server only (`client_handler.c:180`; ARCHITECTURE.md:1441 says "No race conditions in file operations") |
| `NS_serial` with `PROPERTY OnlyOwnerDeletes`, `Conns = {1, 2}`, `Op <- Deletes`, `NameOf <- DeleteNames`, `UserOf <- OneUser`, `FileList <- ThreeOnS1`, `InitialServers <- BothServers`, `MaxFiles = 3`, `Early = {1}` | `OnlyOwnerDeletes` | after a removal, hash nodes point to neighbours, and the owner that is compared is another file's (`client_handler.c:301`) |
| `TR_files` with `{u1, r1}` or `{u1, s1}` in `Served` | `CompleteIsWhole` | UNDO truncates and rewrites the file in place, under a reader (`file_write_ll.c:475`) |
| `TR_files` with `{u1, e1}` in `Served` | `CompleteIsWhole` | the same; if the file grows under EXEC's sender, chunks also exceed the buffer of announced size |
| `TR_files` with `ScriptOf <- SameScript` and `{e1, e2, w1}` in `Served` | `CompleteIsWhole` | two EXECs of one user in one second share their temporary file (`client_handler.c:1062`) |
| `TR_files` with `Served = {{w1, d1, k1, r1}}`, 6 `Objects` and 13 `Inodes` | `CompleteIsWhole` | a commit after a DELETE puts the file back, a reader opens it, and CREATE truncates it (`file_handler_ll.c:662`) |
| `QU_queries` with `Resembles <- BobResembles` | `ViewConsistent` | `user_has_access` searches the answer's text for the user name and finds it in another one (`client_handler.c:601`) |
| `QU_queries` without the `guessed` clause of `ViewConsistent` | `ViewConsistent` | a file that is recorded and not yet stored is looked up in uninitialised metadata (`ss_nm_comm.c:129`) |
| `WS_undo` with `Conns = {w1, w2, k1, r1}` and `InitialText <- EmptyText` | `CacheAgreesWithDisk`, `RemovedStaysRemoved` | REVERT overwrites the file and not the cached sentences, so the next WRITE brings the reverted words back (`ss_nm_comm.c:459`) |
| `WS_undo` with `MayDisconnect = {w1}` | `CacheAgreesWithDisk` | the rollback reloads the cache without `commit_mutex`, between another commit's swap file and its rename (`ss_client_comm.c:515`) |
| `WS_commit` or `WS_undo` with `DiskFails = {w1}` | `CommittedAsQueued`, `AtomicDocumentSpec`; `CacheAgreesWithDisk` | a WRITE whose swap file could not be opened or renamed is answered with success (`ss_client_comm.c:618`) and stays in the cache, from where the next commit saves it |
| `WS_checkpoint` with `u1` added to `Conns` | `AllOrNothing` | the undo backup may be made in the middle of a commit (`file_write_ll.c:542`) |
| `WS_locks` with a `UserOf` that gives all sessions one user and `INVARIANT LockInv` | `LockInv` | `unlock_sentence_ll` compares user names only, so a session that took no lock releases its sibling's (`file_handler_ll.c:1084`) |
| `NS_create` with `MaxFailures = 1` | `CreatorOwns` | after a lost reply the file stays, and the next CREATE is told it succeeded (`ss_nm_comm.c:105`) |
| `NS_churn` with `INVARIANT CacheTruthful` | `CacheTruthful` | a lookup finds the file, a DELETE removes it and invalidates the entry, and then the lookup inserts the location, although `client_handler.c:363` says "Invalidate cache entry for deleted file". By `StaleMeansRemoved` nothing worse happens: a location is never that of a server that has not had the file |
| `TR_files` with `PROPERTY TimeoutsEnd` | `TimeoutsEnd` | a receiver on a silent connection waits for ever (`network_utils.c:210`, where the comment is "Retry once more"; ARCHITECTURE.md:1408 lists "Connection timeout (60 seconds)") |
| `NS_serial` with `Early = Conns` and `MaxFiles = 5` | `RegisteredFilesListed` | a CREATE during a registration writes to the slot the registration is filling (`ss_manager.c:285`) |
| `NS_serial` with `Early = Conns` and `INVARIANT TypeOK` | `TypeOK` | the same race lets `file_count` pass `MAX_FILES_PER_SERVER`, as the test and the increment of a registration hold no lock (`ss_manager.c:274`) |
| `AC_access` with `alice == <<al, bo>>` in `MCAccessControl`, so that one name ends with another | `OthersKeepAccess` | `strstr` finds "bob:RW" in "jbob:RW", and REMACCESS for one user takes the other's entry (`file_handler_ll.c:1405`) |
| `AC_access` with request 7 a DELETE of `f` by alice, `Served = {{1, 7}}` | `GrantedIsListed` | the check reads the owner of the entry that moved up (`file_handler_ll.c:1198`) |
| the same with request 8 a CREATE of `f`, `Served = {{1, 7, 8}}` | `CacheSound` | DELETE does not invalidate the access cache, so users of the old file can read the new one (`file_handler_ll.c:771`) |
| `AC_access` without `failures = 0` in `ApprovedIsGranted` | `ApprovedIsGranted` | the request is marked approved before the storage server is asked, and its answer is not looked at (`client_handler.c:1953`) |

About cached files and queries: backup, unlock and sync take a reference and never give it
back (`Releasing` in `FileLifetime`), so once a file has been written or created its object
is never freed but by UNDO, and after DELETE and CREATE of the name the next WRITE
works on the deleted file's sentences; a commit after DELETE leaves a file without
metadata; UNDO frees the object under sessions that use it; CHECKPOINT and REVERT report
success when the storage server failed, as its failures come as `MSG_ACK`
(`client_handler.c:1497`), and the client's VIEWFOLDER and VIEWCHECKPOINT
look at the message type only; a VIEW whose answer is full ends without a
sign of it.

Also: a crash of the storage server between `fopen(..., "w")` and the writes of
`save_metadata_ll` loses the metadata of every file, though the files are still there
(`Leavings` in `AccessControl`); a listed user can be refused while an ADDACCESS for the
file is under way, because it empties the cache between the check's rebuild and its
second lookup (`file_handler_ll.c:1210`); a user's second request for a file within
one second has the id of the first and cannot be decided once that one is; saving a loaded document doubles its delimiters (`file_handler_ll.c:925`; compare
`parse_file_to_linked_list` and `write_linked_list_to_file` in `SentenceText`), which
is why the refinement speaks of words; a backup is made when a session begins, so one
UNDO can take back two writes; a DELETE of a moved file or of a folder is answered with
success and deletes nothing, as there is no metadata under that name and the positive error
code counts as success (`ss_nm_comm.c:119`); errors of `fprintf` and `fclose` are not looked at,
so a full disk cuts a file short; UNDO drops the locks of sessions in write mode; a
MOVE into a folder on another storage server reports success (`client_handler.c:1308`); and a
silent client keeps its sentence locked for ever, since a receive timeout is retried
without end (`network_utils.c:210`).

## 5. Proofs

`tlapm` checks every theorem and lemma of the eight proof modules, to the last leaf. The
theorems hold for any number of connections, users, servers, names, files and words, and
for any bounds. Each inductive invariant named below was also checked by TLC on
the instance of the run that checks the property, or on a variant of it that meets the
theorem's assumptions (but for `CommitInv`, which quantifies over all words; the run checks
the refinement it serves).

| Theorem | Assumes of the constants | Says |
|---|---|---|
| `WriteSessionProofs` | `WriteSessionAssumption`, `TextAssumption` | |
| `ControlTypes` | | the control state keeps its type |
| `MutexDiscipline` | | `MutexesMatch`: a mutex is held exactly by the thread between its lock and unlock calls |
| `SentenceLocksExclude` | `OneSessionPerUser` | `LockExclusion` |
| `LocksAreOwned` | | `NoOrphanLock` |
| `CacheMatchesFile` | `OnlyUndone` | `CacheAgreesWithDisk` |
| `AllTypes` | | `TypeOK`, the texts and cached sentences included |
| `UndoneStaysUndone` | `OnlyUndone`, `Traceable` | `RemovedStaysRemoved` |
| `SessionsAllOrNothing` | `NothingUndone`, `Traceable`, `Fresh` | `AllOrNothing` |
| `CommitsLast` | `NothingTakenBack`, `Traceable`, `Fresh` | `CommittedAsQueued` |
| `SessionsAreAtomic` | `NothingTakenBack`, `BodiesSent` | `AtomicDocumentSpec`: the refinement |
| `NameServerProofs`, `NamespaceProofs` | `NameServerAssumption` | |
| `NoGhosts` | `AllRegisteredNoMove` | `NoGhostFile`: every listed file was registered, or created by a request that succeeded or is still under way |
| `NamesListedOnce` | `AllRegisteredNoMove` | `OneEntryPerServer` |
| `NodesMatch` | `AllRegisteredNoMove` | `NodesMatchLists` |
| `NamespaceTypeCorrect` | `NoCreateMeanwhile` | `TypeOK`, with the bound of every list |
| `AssignmentsBalanced` | `AllRegistered` | `Balanced` |
| `ListedFilesStored` | `AllRegisteredNoMove`, `FoldersApart` | `ListedIsStored` |
| `CreatorsOwn` | `AllRegisteredNoMove`, `CreatesUndisturbed` | `CreatorOwns` |
| `RegistrationComplete` | `EarlyOnlyAsk` | `RegisteredFilesListed` |
| `StaleLocationsExplained` | `AllRegisteredNoMove` | `StaleMeansRemoved`, for requests that overlap in any way |
| `AccessControlProofs` | `AccessControlAssumption`, `MetadataAssumption` | |
| `ListStaysBounded` | | `metadata_list` and its file never pass their limit |
| `MetadataStaysSaved`, `RequestsStayConsistent` | | `MetadataSaved`, `RequestsConsistent` |
| `AccessTypeCorrect`, `OthersKeepTheirAccess` | `NamesApart`, `NoDeletes` | `TypeOK`, `OthersKeepAccess` |
| `CacheStaysSound`, `GrantedOnlyListed` | `NamesApart`, `NoDeletes`, `OneCreate` | `CacheSound`, `GrantedIsListed` |
| `ApprovedStaysGranted` | `NamesApart`, `NoDeletes`, `AskedOnce`, `ListedAreStored` | `ApprovedIsGranted` |
| `TransferProofs` | `FileLifetimeAssumption`, `EnoughAssumption`, `TransferAssumption` | |
| `TransferTypeCorrect` | | `TypeOK` |
| `RefcountsCoverUsers`, `CacheListSound`, `DeletesOnlyUnused` | | `RefcountCovers`, `CachedOnceAndLive`, `DeleteFreesUnused` |
| `TransfersWhole`, `ExecBufferSafe` | `ReadersApart`, `ScriptsApart` | `CompleteIsWhole`, `ExecBufferHolds` |
| `QueriesProofs` | `QueriesAssumption` | |
| `QueriesTypeCorrect`, `CreateSuccessReal` | | `TypeOK`, `SuccessIsReal` |
| `ViewListsRight` | `Resembles = {}` | `ViewConsistent` |

The assumptions in the head rows type the constants. `EnoughAssumption` says that there are
more objects and inodes than threads can hold, as the model gives an allocation no way to
fail. The others set aside what section 4 shows the code to get wrong, and the runs meet
the same conditions (but for `AC_access`, which has DELETEs, two CREATEs of one file and two
requests of one user for a file, in orders that do no harm):

* `OneSessionPerUser`: `unlock_sentence_ll` identifies the holder by user name;
* `OnlyUndone`: no REVERT, which leaves the cache alone, no vanishing client, whose
  rollback reloads the cache without `commit_mutex`, and no failing disk, after which the
  cache is ahead of the file (`DiskFails = {}`);
* `NothingUndone`: no UNDO, no vanishing client and no failing disk. The first two restore the undo backup, which is
  written without `commit_mutex` and may hold half of a commit. `NothingTakenBack`: no REVERT
  either, since what is claimed is that nothing answered with success is lost;
* `Traceable`, `Fresh` and `BodiesSent` say nothing about the code: connections send words
  of their own, none of which is in the file at first, so that a word in the file can be traced
  to its connection. `BodiesSent` is the part of it that the refinement needs, that what
  is sent is a word;
* `AllRegistered`, and `AllRegisteredNoMove`: the servers are registered before the first
  request, and nobody renames through a pointer that may have become another file's;
* `NoCreateMeanwhile` and `EarlyOnlyAsk` are what is left of `AllRegistered` where
  registrations are part of the claim: a CREATE meanwhile lets `file_count` pass its limit
  and loses files;
* `FoldersApart`: no DELETE names a folder. A folder has no metadata, `delete_file_ll`
  answers a positive code that counts as success, and the folder stays;
* `CreatesUndisturbed`: no lost reply, and nothing but CREATEs and lookups of the name.
  A storage server keeps the metadata of a CREATE that was rolled back since its reply
  was lost, and the next CREATE of the name succeeds without owning the file;
* `NamesApart`: no user's name ends with another's. `NoDeletes`: a DELETE moves entries away
  from under the pointers of other threads and leaves the cache as it is. `OneCreate`: a file
  is created by one request, as the name server lists a name before it asks the storage
  server for the file and refuses another CREATE meanwhile. `AskedOnce`: no user asks twice
  for a file, as two approvals may be carried out in either order, and the last one decides.
  `ListedAreStored`: the storage server has metadata of the files that the name server lists;
* `ReadersApart`: nobody writes the file in place under a reader (UNDO, the rollback of a
  vanished client, a CREATE that meets a file a commit put back);
* `ScriptsApart`: no two EXECs share a temporary file;
* `Resembles = {}`: no user's name occurs in another one's entry.

*Sentence locks.* `LockExclusion` is not inductive: nothing in it says that a
session that got a lock still has it. `LockInv` adds `LockKept` (a session granted a
lock in the present object is recorded as its holder), `GrantsFit` (no grant is from
the future, none before it is asked for) and `RequestFits`. A new grant requires a
free sentence, and by `LockKept` no other session of this object can be in write
mode on it; a release by user name can only free one's own lock if users have one
session each; a reload or a crash makes a new object, in which nobody has a grant.

*Cache and file.* `AgreeInv` adds what holds in the middle of a commit: the sentences are in
the cache from the first edit to the rename, and the swap file is what saving them gives.
With `MutexesMatch`, nobody else changes either. What saving and parsing compute plays
no part, so the theorem needs no induction over texts.

*Words.* The theorems about words need of parsing, saving and editing which words they keep and
in which order. Parsing a text and saving the sentences changes delimiters only:
`WordsIn(text, S)`, the words of `text` that belong to `S`, is the same before and after, for
every text and every `S`. An edit puts a word at its place and moves the others. From this:

* `CarriedInv`: while a session commits, the cached sentences, and then the swap file, hold
  the same words of every other session as the file does. So a commit neither brings back
  what an UNDO took nor loses what others wrote, which is `RemovedStaysRemoved`;
* `Counted`: a session computes how far its words have moved from the number of words its
  sentence had when it began and has now. Without UNDO a sentence never gets shorter, so this
  difference is not negative and no place that a client asked for is out of range;
* `AppliedTo` describes a commit in progress: outside its sentence the session has no word, and
  inside it the sentence is `Aligned` with the one its client would have built alone, with
  `word_offset` tokens of others in front and others' words where it has gaps. At the end this
  gives all of the client's words, in its order. `WholeInv` adds that the file, the
  checkpoint, the cache and the swap file hold nothing or all of every other session, and
  `Kept` that a session that was answered with success keeps its words there.

*The refinement.* `WriteRefinement` maps the file to the words of the abstract document. The
collecting steps map to `Collect` and the rename to `Commit`; every other step, a crash
too, leaves the abstract document alone and at most gives up sessions (`Abort`, possibly of
none). That the rename is a `Commit` is `CommitInv`: the cached document is the file with the
words applied so far put in, and the swap file is the file with all of them put in. It does not
matter where they were put, so `Fresh` and `Traceable` are not needed.

*Lists.* `NoGhostFile` needs that no name is listed twice (or
removing one entry would leave another behind a rollback) and that
threads are where their request takes them. `GhostInv` conjoins these. The lemmas `SlotFound`,
`RemoveShrinks` and `AddGrows` say what the list operations do; `QuietStep`,
`ListingStep` and `UnlistingStep` sort the actions into those that leave the lists
alone, add to one and remove from one. On top of them,

* `NodeInv` counts: a name has as many hash nodes as there are servers that list it, which
  is the number of its entries as no list has it twice. Adding and removing change both
  by one, although a node is found by its name and not by its entry;
* `BalanceInv` says that one thread at a time selects (`OneSelects`), that it has the server at
  the position (`Selected`), and that the servers before the position, as it will be
  when that thread unlocks (`Turn`), have had one request more than the others (`Spread`);
* `StoredInv` says which request excuses a file that is listed and not on the disk, that
  what has an owner is on the disk, and that what a DELETE may name has an owner if it is;
* `CreatorInv` follows a CREATE from the entry it makes to its answer: no other CREATE has
  the entry of the same name and server, and the metadata has this user once it succeeded
  and nobody before;
* `ListingInv` says which part of a registration is done: the first `file_count` files are
  in their slots and `to_list` has the others.

*Locations.* After a removal a hash node's pointer leads to a slot that has another file's
entry, or none; the pointers that threads got from `find_file` do so too, and the cache is
filled from them. What saves the locations is that a slot always belongs to the same server
(`SlotsKnowServer`), and that the server a pointer leads into lists the name or has had it
removed. `StaleInv` follows this along the way of a location: from the nodes
(`NodesLead`) to the pointers of threads (`PointersLead`), from both to the cache, where a
name's slot may have another name's entry (`EntriesLead`), and to the answer
(`AnswersLead`). Removals are the only steps that can break it, and each leaves its trace in the
DELETE or the failed CREATE that did it; `Answered` says that such a thread knows its reply.
MOVE stays outside: it renames whatever its pointer has come to point to.

*Metadata.* `EntryLeft` counts the DELETEs that have unlinked a file and not yet removed an
entry, together with the files that still can be deleted: these are never more than
there are entries. Without it `metadata_count` could become negative, as the removal
checks nothing. `Saved` is `MetadataSaved` with the case that the end of the last entry is
still in the buffer of a thread that is about to close the file.

*Access lists.* `ListInv` says that a thread's pointer leads to the entry of the file it works
on, and that exactly the thread between the first and the last step of a change has
`metadata_mutex`. `ListMoves` sums up what a step can do to the list: nothing, an entry more,
or a new access list of one entry, in which `DroppedIs` and `WithAccessIs` show that only
one user's entries are gone. For the cache, `UniqueInv` adds that a file has one entry, through
deaths too, since the file has an entry only where the list has one of that name;
without it a check would cache from one entry and be judged by another. `CachedExists` says
that cached files have entries: otherwise a CREATE would find the cache filled. `RebuiltIs`
says what the fold of `build_access_cache_for_file` may put where, for any hash function;
`Readings` that miss an entry only put less.

*Approvals.* `OnTheWay` follows an approved request: another change was asked for, or an APPROVE
that has this request as its job has not appended the access yet, or the access is in the
list. What takes it out again is a change for the same user and file; by `Jobs` that is an
ADDACCESS or REMACCESS for this user, or an APPROVE, which by `AskedApart` is about this very
request and puts the access back. `StillStored` says that `find_metadata` finds the file.

*Cached objects.* `Cached` is stronger than `CachedOnceAndLive` (the list has all objects
that are allocated), `Counts` adds finiteness to `RefcountCovers`. Only together are they
inductive: a count that covers its users is what keeps a release from making it negative,
and a single object is what keeps two threads from reaping one twice.

*Transfers.* `DiskInv` says that an open file keeps the text it was opened with, because names
lead to different inodes and a rename or unlink does not touch an inode that is open.
`Flow` is the heart of `WholeInv`: what has been received, then the messages on their way,
then the sender's buffer, make up the text up to where the sender has read, as long as the
connection is up; once it is lost, what is there is a part from the front, and no STOP can
be added. It is stated
with a function that gives each message its place in the text, so that no
concatenation of a variable number of messages is needed. A death of the server
(`KilledThreads`) leaves every transfer that has begun without a sender, and its
connection lost.

*Queries.* `ViewInv` ties the loop variables of a VIEW to the mutex it holds: the server's list
does not change while it is inside, and the lines it has are about servers it has come
to (`Visited`). `ClaimInv` says that a CREATE between its entry and its answer is the only one
with that name on that server, so that no other one's rollback removes its entry.

*Data.* The library's induction theorems take an operator as a parameter, which the installed
provers cannot instantiate. `ListLemmas` does without: `LeastExists` gives the least
counterexample of a claim about natural numbers, and `FlattenRecursion` obtains from
it the recursion equations of a recursive function. `FoldExists` and `FoldInduction` do so
for `FoldLeft`, whose step is given as a function, so that they serve every fold of the project.

`SelectSeq` is closed to the provers, since its definition is a local recursive function; what
the models select from texts is therefore a recursive function of their own (`WordsIn`,
`EditedAlone`).

*Only model-checked.* `ServerFinishes`, `CommitSucceeds`, `TransferEnds`, `OnlyStartsBlock`:
liveness and `ENABLED` are outside the prover. `CacheTruthful` and `LocationTrue`, of
`NS_serial`: they hold of requests that are served one after the other, which nothing in the
code enforces, and what holds of requests that overlap is `StaleLocationsExplained`. Every
other property of a passing run is the subject of a theorem, under the assumptions of the table; where those are narrower than
the run (the DELETEs of `AC_access`), the rest of the run is model-checked only.

RECURSIVE operators would disable the prover's SMT backend, so the modules use folds and
recursive functions only.

## 6. Not modelled, and the plan

Modelled first, because most of the program's promises rest on them: write sessions
with UNDO and checkpoints, then the namespace, then access control; then cached
files with the transfers that run beside them, and the questions of the name server
with the locks it holds. The proofs followed in the same order, those about the text of a file
last. What is left would be to do with fewer assumptions:

1. `AccessControl` with DELETEs, for the theorems that assume `NoDeletes`: they hold
   while no thread has a pointer behind the entry that goes.
2. The sessions of `WriteSession` with UNDO: `AllOrNothing` when no backup is made during
   a commit.

Left out: parsing and display of the command line client (it is the environment of the
models; what it makes of answers is in `Transfer` and `Queries`), byte order
and framing of messages (a handler sees a message, a broken connection, or
nothing), statistics and access times, logging, signal handling and shutdown. The users
who may write are a constant of `WriteSession`, and the lists are the subject
of `AccessControl`: a WRITE looks at its access once, before it takes its first lock, so a
revocation is ordered before or after the whole session.
