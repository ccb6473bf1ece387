----------------------------- MODULE NameServer -----------------------------
(***************************************************************************)
(* The name server's namespace: which file is on which storage server.     *)
(* Every client connection is served by a thread of its own and carries    *)
(* one request: CREATE, CREATEFOLDER, DELETE, MOVE or GET_SS_INFO          *)
(* (client_handler.c).  Storage servers register in threads of their own   *)
(* (ss_manager.c).  The threads share                                      *)
(*   - the table of storage servers, each with an array of FileInfos,      *)
(*   - the hash table, whose nodes point into those arrays,                *)
(*   - the cache of recent locations, and the round-robin position.        *)
(* A request that changes files calls the storage server over TCP; what    *)
(* the storage server does for it (ss_nm_comm.c, file_handler_ll.c) is one *)
(* step, and the call can fail before or after that step.                  *)
(*                                                                         *)
(* An action is a stretch of code within one critical section, or between  *)
(* two; FileInfos are read through pointers without any lock, as the code  *)
(* does.  No code ever sets a server's status to OFFLINE, so status is not *)
(* a variable, and a server that registers again only updates addresses.   *)
(***************************************************************************)
EXTENDS Naturals, Sequences, SequencesExt, FiniteSets

CONSTANTS
  Conns,          \* the client connections, one thread each
  Op,             \* Op[c]: the request
  NameOf,         \* NameOf[c]: its filename
  TargetOf,       \* TargetOf[c]: the folder of a MOVE
  UserOf,         \* UserOf[c]: its user
  Users,          \* all users
  NoUser,         \* no metadata, hence no owner
  Servers,        \* the storage servers
  NoServer,       \* the server of a null pointer
  InitialServers, \* those already registered, in the order they did
  FileList,       \* FileList[s]: the files s has at first, with their owners
  FolderList,     \* FolderList[s]: which of them are folders
  Names,          \* names without a folder in front
  NoName,         \* the filename of a FileInfo never used
  MaxFiles,       \* MAX_FILES_PER_SERVER
  MaxMetadata,    \* MAX_FILES, the metadata limit of a storage server
  CacheSlots,     \* the entries of the location cache
  CacheSlot,      \* CacheSlot[n]: cache_hash
  MaxFailures,    \* bound: calls to storage servers that fail
  MaxActive,      \* bound: requests served at the same time
  Early           \* the connections that may ask before all servers are registered

Ops == {"CREATE", "CREATEFOLDER", "DELETE", "MOVE", "GET_SS_INFO"}

\* A moved file is known as "folder/file".
Paths == Names \cup (Names \X Names)

FileInfo == [filename: Paths, owner: Users, ss_id: Servers]
Listing == [filename: Paths, owner: Users]

ASSUME NameServerAssumption ==
  /\ Op \in [Conns -> Ops]
  /\ NameOf \in [Conns -> Paths]
  /\ TargetOf \in [Conns -> Names]
  /\ UserOf \in [Conns -> Users]
  /\ \A c \in Conns : Op[c] # "DELETE" /\ Op[c] # "GET_SS_INFO" => NameOf[c] \in Names
  /\ NoUser \notin Users
  /\ NoName \notin Paths
  /\ NoServer \notin Servers
  /\ MaxFiles \in Nat
  /\ MaxFailures \in Nat
  /\ MaxActive \in Nat
  /\ Early \subseteq Conns
  /\ IsFiniteSet(Conns)
  /\ InitialServers \in Seq(Servers) /\ IsInjective(InitialServers)
  /\ CacheSlot \in [Paths -> CacheSlots]
  /\ FileList \in [Servers -> Seq(Listing)]
  /\ \A s \in ToSet(InitialServers) : Len(FileList[s]) <= MaxFiles
  /\ \A s \in Servers : \A i, j \in DOMAIN FileList[s] :
       FileList[s][i].filename = FileList[s][j].filename => i = j

VARIABLES
  ss_list,        \* storage_servers[0 .. ss_count-1]
  slots,          \* slots[s]: the files array of s, used or not
  file_count,     \* file_count[s]: how many of them are in use
  nodes,          \* the hash nodes, newest first, as a bucket's chain has them
  entries,        \* entries[k]: the location cache
  next_ss_index,  \* round-robin position
  registering,    \* {s} while s registers: it holds ss_list_mutex
  to_list,        \* the files of s that its registration has yet to list
  written,        \* the slot at file_count is written but not counted yet
  meta,           \* meta[s][n]: the owner in the metadata of s, or NoUser
  path,           \* path[s][n]: "none", "file" or "dir" in the files of s
  pc,             \* where the thread of each connection is
  ptr,            \* the FileInfo pointer find_file gave it
  ss_id,          \* the storage server it works with
  ss_reply,       \* what the storage server answered
  reply,          \* what the client was answered
  failures        \* failed calls so far

table == <<ss_list, slots, file_count, nodes, next_ss_index>>
registration == <<registering, to_list, written>>
storage == <<meta, path>>
locals == <<ptr, ss_id, ss_reply>>
vars == <<table, entries, registration, storage, pc, locals, reply, failures>>

NoPtr == [ss |-> NoServer, slot |-> 0]
Unused == [filename |-> NoName]
NoEntry == [filename |-> NoName]

PCs == {"start", "assign", "select", "add", "owner", "remote", "answer", "invalidate",
        "rename", "insert", "clear", "find", "cache", "locate", "done"}

Replies == {"none", "SUCCESS", "FILE_EXISTS", "FILE_NOT_FOUND", "SERVER_ERROR",
            "NOT_OWNER", "CONNECTION_FAILED"}

Finish(c, answer) ==
  /\ pc' = [pc EXCEPT ![c] = "done"]
  /\ reply' = [reply EXCEPT ![c] = answer]

Goto(c, label) ==
  /\ pc' = [pc EXCEPT ![c] = label]
  /\ UNCHANGED reply

\* The request of c has not been made yet, or has been answered.
Idle(c) == pc[c] \in {"start", "done"}

\* When a client makes its request: with MaxActive = 1, one after the other.
Starts(c) ==
  /\ pc[c] = "start"
  /\ Cardinality({d \in Conns : ~Idle(d)}) < MaxActive
  /\ c \in Early \/ (registering = {} /\ ToSet(ss_list) = Servers)
-----------------------------------------------------------------------------
(***************************************************************************)
(* The hash table and the arrays its nodes point into.                     *)
(***************************************************************************)
Deref(p) == slots[p.ss][p.slot]

\* hash_find_file: the newest node of that name.
find_file(n) ==
  LET i == SelectInSeq(nodes, LAMBDA node : node.filename = n)
  IN  IF i = 0 THEN NoPtr ELSE nodes[i].file_ptr

\* hash_insert_file reads the name through the pointer.
Inserted(n, p) == <<[filename |-> n, file_ptr |-> p]>> \o nodes

\* hash_remove_file: the first node of that name goes.
hash_remove_file(n) == RemoveFirstMatch(nodes, LAMBDA node : node.filename = n)

\* The index of a name in the used part of the array of s, or 0.
SlotOf(s, n) ==
  IF \E i \in 1 .. file_count[s] : slots[s][i].filename = n
    THEN CHOOSE i \in 1 .. file_count[s] :
           /\ slots[s][i].filename = n
           /\ \A j \in 1 .. i - 1 : slots[s][j].filename # n
    ELSE 0

\* The array after the files behind slot i have moved up by one.  The slot at
\* the end keeps its content and the nodes keep their pointers.
Shifted(array, i, count) ==
  [j \in 1 .. MaxFiles |-> IF i <= j /\ j < count THEN array[j + 1] ELSE array[j]]

\* Mutant: the hash node stays.
RemoveSlotOnly(s, n) ==
  IF SlotOf(s, n) = 0
    THEN UNCHANGED <<slots, file_count, nodes>>
    ELSE /\ slots' = [slots EXCEPT ![s] = Shifted(@, SlotOf(s, n), file_count[s])]
         /\ file_count' = [file_count EXCEPT ![s] = @ - 1]
         /\ UNCHANGED nodes

remove_file_from_server(s, n) ==
  IF SlotOf(s, n) = 0
    THEN UNCHANGED <<slots, file_count, nodes>>
    ELSE /\ slots' = [slots EXCEPT ![s] = Shifted(@, SlotOf(s, n), file_count[s])]
         /\ file_count' = [file_count EXCEPT ![s] = @ - 1]
         /\ nodes' = hash_remove_file(n)

\* Mutant: add_file_to_server without its search for the name.
NoDuplicateCheck(s, n) == IF file_count[s] >= MaxFiles THEN "SERVER_ERROR" ELSE "SUCCESS"

\* Mutant: add_file_to_server without its bound.
NoBoundCheck(s, n) == IF SlotOf(s, n) # 0 THEN "FILE_EXISTS" ELSE "SUCCESS"

\* The answer of add_file_to_server: it looks for the name on s only.
AddResult(s, n) ==
  IF file_count[s] >= MaxFiles THEN "SERVER_ERROR"
  ELSE IF SlotOf(s, n) # 0 THEN "FILE_EXISTS"
  ELSE "SUCCESS"

\* add_file_to_server: a new slot at the end and a node that points to it.
add_file_to_server(s, n, u) ==
  IF AddResult(s, n) = "SUCCESS"
    THEN LET i == file_count[s] + 1
         IN  /\ slots' = [slots EXCEPT ![s][i] = [filename |-> n, owner |-> u, ss_id |-> s]]
             /\ file_count' = [file_count EXCEPT ![s] = i]
             /\ nodes' = Inserted(n, [ss |-> s, slot |-> i])
    ELSE UNCHANGED <<slots, file_count, nodes>>
-----------------------------------------------------------------------------
\* The array of a registered server that holds exactly its own list.
ListedSlots(s) ==
  [i \in 1 .. MaxFiles |->
     IF s \in ToSet(InitialServers) /\ i <= Len(FileList[s])
       THEN [filename |-> FileList[s][i].filename,
             owner    |-> FileList[s][i].owner, ss_id |-> s]
       ELSE Unused]

ListedNodes(s) ==
  [i \in DOMAIN FileList[s] |-> [filename |-> FileList[s][i].filename,
                                 file_ptr |-> [ss |-> s, slot |-> i]]]

OwnerAtFirst(s, n) ==
  IF \E i \in DOMAIN FileList[s] : FileList[s][i].filename = n
    THEN (CHOOSE l \in ToSet(FileList[s]) : l.filename = n).owner
    ELSE NoUser

Init ==
  /\ ss_list = InitialServers
  /\ slots = [s \in Servers |-> ListedSlots(s)]
  /\ file_count = [s \in Servers |->
                     IF s \in ToSet(InitialServers) THEN Len(FileList[s]) ELSE 0]
  /\ nodes = Reverse(FlattenSeq([k \in DOMAIN InitialServers |->
                                   ListedNodes(InitialServers[k])]))
  /\ entries = [k \in CacheSlots |-> NoEntry]
  /\ next_ss_index = 0
  /\ registering = {}
  /\ to_list = <<>>
  /\ written = FALSE
  /\ meta = [s \in Servers |-> [n \in Paths |-> OwnerAtFirst(s, n)]]
  /\ path = [s \in Servers |-> [n \in Paths |->
               CASE n \in FolderList[s] -> "dir"
                 [] n \notin FolderList[s] /\ OwnerAtFirst(s, n) # NoUser -> "file"
                 [] OTHER -> "none"]]
  /\ pc = [c \in Conns |-> "start"]
  /\ ptr = [c \in Conns |-> NoPtr]
  /\ ss_id = [c \in Conns |-> NoServer]
  /\ ss_reply = [c \in Conns |-> "none"]
  /\ reply = [c \in Conns |-> "none"]
  /\ failures = 0
-----------------------------------------------------------------------------
(***************************************************************************)
(* register_storage_server of a new server.  The server is in the table,   *)
(* and eligible for new files, before its own files are listed; the lists  *)
(* are written without ss_mutex.                                           *)
(***************************************************************************)
RegisterServer(s) ==
  /\ registering = {}
  /\ s \notin ToSet(ss_list)
  /\ registering' = {s}
  /\ to_list' = FileList[s]
  /\ ss_list' = Append(ss_list, s)
  /\ file_count' = [file_count EXCEPT ![s] = 0]
  /\ UNCHANGED <<slots, nodes, next_ss_index, entries, written, storage, pc, locals,
                 reply, failures>>

RoomFor(s) == file_count[s] < MaxFiles

ListFile(s) ==
  /\ registering = {s}
  /\ ~written
  /\ to_list # <<>>
  /\ RoomFor(s)
  /\ LET i == file_count[s] + 1
         l == Head(to_list)
     IN  /\ slots' = [slots EXCEPT ![s][i] =
                        [filename |-> l.filename, owner |-> l.owner, ss_id |-> s]]
         /\ nodes' = Inserted(l.filename, [ss |-> s, slot |-> i])
  /\ written' = TRUE
  /\ UNCHANGED <<ss_list, file_count, next_ss_index, entries, registering, to_list,
                 storage, pc, locals, reply, failures>>

CountFile(s) ==
  /\ registering = {s}
  /\ written
  /\ file_count' = [file_count EXCEPT ![s] = @ + 1]
  /\ to_list' = Tail(to_list)
  /\ written' = FALSE
  /\ UNCHANGED <<ss_list, slots, nodes, next_ss_index, entries, registering,
                 storage, pc, locals, reply, failures>>

\* Mutant: the last name of the list is not reached.
LastNameLeft(s) == Len(to_list) <= 1

AllListed(s) == to_list = <<>>

EndRegistration(s) ==
  /\ registering = {s}
  /\ ~written
  /\ AllListed(s) \/ ~RoomFor(s)
  /\ registering' = {}
  /\ UNCHANGED <<table, entries, to_list, written, storage, pc, locals, reply, failures>>
-----------------------------------------------------------------------------
(***************************************************************************)
(* The handlers up to the call of the storage server.                      *)
(***************************************************************************)

\* The first search of CREATE and CREATEFOLDER.
CheckNew(c) ==
  /\ Op[c] \in {"CREATE", "CREATEFOLDER"} /\ Starts(c)
  /\ IF find_file(NameOf[c]) # NoPtr
       THEN Finish(c, "FILE_EXISTS")
       ELSE Goto(c, "assign")
  /\ UNCHANGED <<table, entries, registration, storage, locals, failures>>

\* Mutant: assignment_mutex is not taken.
NoAssignmentMutex == TRUE

\* assignment_mutex is held from the reading of next_ss_index to its writing.
AssignmentMutexFree == \A c \in Conns : pc[c] # "select"

\* get_available_storage_server: the server at the position is the one, ...
AssignServer(c) ==
  /\ pc[c] = "assign"
  /\ AssignmentMutexFree
  /\ IF ss_list = <<>>
       THEN Finish(c, "SERVER_ERROR") /\ UNCHANGED ss_id
       ELSE /\ ss_id' = [ss_id EXCEPT ![c] = ss_list[(next_ss_index % Len(ss_list)) + 1]]
            /\ Goto(c, "select")
  /\ UNCHANGED <<table, entries, registration, storage, ptr, ss_reply, failures>>

\* ... and the position moves behind the place of that server in the table.
AdvanceIndex(c) ==
  /\ pc[c] = "select"
  /\ \E i \in DOMAIN ss_list :
       ss_list[i] = ss_id[c] /\ next_ss_index' = i % Len(ss_list)
  /\ Goto(c, IF Op[c] = "CREATE" THEN "add" ELSE "remote")
  /\ UNCHANGED <<ss_list, slots, file_count, nodes, entries, registration, storage,
                 locals, failures>>

\* CREATE records the file before it calls the storage server.
RecordFile(c) ==
  /\ pc[c] = "add"
  /\ add_file_to_server(ss_id[c], NameOf[c], UserOf[c])
  /\ LET result == AddResult(ss_id[c], NameOf[c])
     IN  IF result = "SUCCESS" THEN Goto(c, "remote") ELSE Finish(c, result)
  /\ UNCHANGED <<ss_list, next_ss_index, entries, registration, storage, locals, failures>>

\* The first search of DELETE and MOVE.
FindTarget(c) ==
  /\ Op[c] \in {"DELETE", "MOVE"} /\ Starts(c)
  /\ LET p == find_file(NameOf[c])
     IN  IF p = NoPtr
           THEN Finish(c, "FILE_NOT_FOUND") /\ UNCHANGED ptr
           ELSE Goto(c, "owner") /\ ptr' = [ptr EXCEPT ![c] = p]
  /\ UNCHANGED <<table, entries, registration, storage, ss_id, ss_reply, failures>>

OwnerMatches(c) == Deref(ptr[c]).owner = UserOf[c]

\* The owner and the storage server are read through the pointer.
CheckOwner(c) ==
  /\ pc[c] = "owner"
  /\ IF OwnerMatches(c)
       THEN /\ ss_id' = [ss_id EXCEPT ![c] = Deref(ptr[c]).ss_id]
            /\ Goto(c, "remote")
       ELSE Finish(c, "NOT_OWNER") /\ UNCHANGED ss_id
  /\ UNCHANGED <<table, entries, registration, storage, ptr, ss_reply, failures>>
-----------------------------------------------------------------------------
(***************************************************************************)
(* The call.  A storage server answers calls once it is registered.        *)
(***************************************************************************)
Answer(c, code) ==
  /\ ss_id[c] \notin registering
  /\ ss_reply' = [ss_reply EXCEPT ![c] = code]
  /\ Goto(c, "answer")
  /\ UNCHANGED <<table, entries, registration, ptr, ss_id, failures>>

MetadataFull(s) == Cardinality({n \in Paths : meta[s][n] # NoUser}) >= MaxMetadata

\* create_file_ll.  A file that exists is reported with a positive code, which
\* the test "result < 0" takes for success.
RemoteCreate(c) ==
  LET s == ss_id[c]
      n == NameOf[c]
  IN  /\ Op[c] = "CREATE" /\ pc[c] = "remote"
      /\ \/ /\ meta[s][n] # NoUser
            /\ Answer(c, "SUCCESS")
            /\ UNCHANGED storage
         \/ /\ meta[s][n] = NoUser
            /\ MetadataFull(s) \/ path[s][n] = "dir"
            /\ Answer(c, "SERVER_ERROR")
            /\ UNCHANGED storage
         \/ /\ meta[s][n] = NoUser
            /\ ~MetadataFull(s) /\ path[s][n] # "dir"
            /\ Answer(c, "SUCCESS")
            /\ meta' = [meta EXCEPT ![s][n] = UserOf[c]]
            /\ path' = [path EXCEPT ![s][n] = "file"]

\* mkdir; a failure is an error code in an MSG_ACK.  Then add_metadata_ll, whose
\* result is ignored.
RemoteCreateFolder(c) ==
  LET s == ss_id[c]
      n == NameOf[c]
  IN  /\ Op[c] = "CREATEFOLDER" /\ pc[c] = "remote"
      /\ IF path[s][n] = "none"
           THEN /\ Answer(c, "SUCCESS")
                /\ meta' = IF meta[s][n] = NoUser /\ ~MetadataFull(s)
                             THEN [meta EXCEPT ![s][n] = UserOf[c]]
                             ELSE meta
                /\ path' = [path EXCEPT ![s][n] = "dir"]
           ELSE Answer(c, "FILE_EXISTS") /\ UNCHANGED storage

\* delete_file_ll.  A file without metadata is again a positive code.
RemoteDelete(c) ==
  LET s == ss_id[c]
      n == NameOf[c]
  IN  /\ Op[c] = "DELETE" /\ pc[c] = "remote"
      /\ \/ /\ meta[s][n] = NoUser
            /\ Answer(c, "SUCCESS")
            /\ UNCHANGED storage
         \/ /\ meta[s][n] # NoUser /\ path[s][n] # "file"
            /\ Answer(c, "FILE_NOT_FOUND")
            /\ UNCHANGED storage
         \/ /\ meta[s][n] # NoUser /\ path[s][n] = "file"
            /\ Answer(c, "SUCCESS")
            /\ path' = [path EXCEPT ![s][n] = "none"]
            /\ meta' = [meta EXCEPT ![s][n] = NoUser]

\* rename() into the folder, if both exist on this server.  The metadata keeps
\* the old name; a failure is an error code in an MSG_ACK.
RemoteMove(c) ==
  LET s == ss_id[c]
      n == NameOf[c]
      new == <<TargetOf[c], n>>
  IN  /\ Op[c] = "MOVE" /\ pc[c] = "remote"
      /\ IF path[s][n] # "none" /\ path[s][TargetOf[c]] = "dir"
           THEN /\ Answer(c, "SUCCESS")
                /\ path' = [path EXCEPT ![s][new] = path[s][n], ![s][n] = "none"]
                /\ UNCHANGED meta
           ELSE Answer(c, "FILE_NOT_FOUND") /\ UNCHANGED storage

\* The connection cannot be made or breaks, before the storage server has done
\* anything or after it has done everything.
CallFails(c) ==
  /\ pc[c] = "remote" \/ (pc[c] = "answer" /\ ss_reply[c] # "CONNECTION_FAILED")
  /\ failures < MaxFailures
  /\ failures' = failures + 1
  /\ ss_reply' = [ss_reply EXCEPT ![c] = "CONNECTION_FAILED"]
  /\ Goto(c, "answer")
  /\ UNCHANGED <<table, entries, registration, storage, ptr, ss_id>>
-----------------------------------------------------------------------------
(***************************************************************************)
(* The rest of each handler.                                               *)
(***************************************************************************)

\* Mutant: the record stays when the call failed.
KeepRecord(s, n) == UNCHANGED <<slots, file_count, nodes>>

\* The record made for a file that could not be created is taken back.
RollBack(s, n) == remove_file_from_server(s, n)

FinishCreate(c) ==
  /\ Op[c] = "CREATE" /\ pc[c] = "answer"
  /\ IF ss_reply[c] = "SUCCESS"
       THEN UNCHANGED <<slots, file_count, nodes>>
       ELSE RollBack(ss_id[c], NameOf[c])
  /\ Finish(c, ss_reply[c])
  /\ UNCHANGED <<ss_list, next_ss_index, entries, registration, storage, locals, failures>>

\* Any answer counts as success, and so does a full or occupied file list.
FinishCreateFolder(c) ==
  /\ Op[c] = "CREATEFOLDER" /\ pc[c] = "answer"
  /\ IF ss_reply[c] = "CONNECTION_FAILED"
       THEN Finish(c, "CONNECTION_FAILED") /\ UNCHANGED <<slots, file_count, nodes>>
       ELSE Finish(c, "SUCCESS") /\ add_file_to_server(ss_id[c], NameOf[c], UserOf[c])
  /\ UNCHANGED <<ss_list, next_ss_index, entries, registration, storage, locals, failures>>

FinishDelete(c) ==
  /\ Op[c] = "DELETE" /\ pc[c] = "answer"
  /\ IF ss_reply[c] = "SUCCESS"
       THEN remove_file_from_server(ss_id[c], NameOf[c]) /\ Goto(c, "invalidate")
       ELSE Finish(c, ss_reply[c]) /\ UNCHANGED <<slots, file_count, nodes>>
  /\ UNCHANGED <<ss_list, next_ss_index, entries, registration, storage, locals, failures>>

\* Mutant: the cache is left alone.
KeepEntry(n) == entries

cache_invalidate(n) ==
  IF entries[CacheSlot[n]].filename = n
    THEN [entries EXCEPT ![CacheSlot[n]] = NoEntry]
    ELSE entries

ForgetLocation(c) ==
  /\ pc[c] = "invalidate"
  /\ entries' = cache_invalidate(NameOf[c])
  /\ Finish(c, "SUCCESS")
  /\ UNCHANGED <<table, registration, storage, locals, failures>>

\* MOVE in four steps: any answer counts as success; the node of the old name
\* goes, ...
FinishMove(c) ==
  /\ Op[c] = "MOVE" /\ pc[c] = "answer"
  /\ IF ss_reply[c] = "CONNECTION_FAILED"
       THEN Finish(c, "CONNECTION_FAILED") /\ UNCHANGED nodes
       ELSE Goto(c, "rename") /\ nodes' = hash_remove_file(NameOf[c])
  /\ UNCHANGED <<ss_list, slots, file_count, next_ss_index, entries, registration,
                 storage, locals, failures>>

\* ... the FileInfo gets the new name, ...
RenameFile(c) ==
  /\ pc[c] = "rename"
  /\ slots' = [slots EXCEPT ![ptr[c].ss][ptr[c].slot].filename =
                              <<TargetOf[c], NameOf[c]>>]
  /\ Goto(c, "insert")
  /\ UNCHANGED <<ss_list, file_count, nodes, next_ss_index, entries, registration,
                 storage, locals, failures>>

\* ... a node for the name it now has is made, ...
InsertMoved(c) ==
  /\ pc[c] = "insert"
  /\ nodes' = Inserted(Deref(ptr[c]).filename, ptr[c])
  /\ Goto(c, "clear")
  /\ UNCHANGED <<ss_list, slots, file_count, next_ss_index, entries, registration,
                 storage, locals, failures>>

\* Mutant: the cache is not cleared.
UnclearedCache == entries

cache_clear == [k \in CacheSlots |-> NoEntry]

\* ... and the cache is cleared.
ForgetAll(c) ==
  /\ pc[c] = "clear"
  /\ entries' = cache_clear
  /\ Finish(c, "SUCCESS")
  /\ UNCHANGED <<table, registration, storage, locals, failures>>
-----------------------------------------------------------------------------
(***************************************************************************)
(* handle_get_ss_info.  The answer's server is left in ss_id.              *)
(***************************************************************************)
cache_insert(n, s) ==
  [entries EXCEPT ![CacheSlot[n]] = [filename |-> n, ss_id |-> s, expired |-> FALSE]]

\* Mutant: the entry may be of another name with the same hash.
AnyEntry(n) == entries[CacheSlot[n]] # NoEntry

EntryMatches(n) == entries[CacheSlot[n]].filename = n

\* cache_lookup: an expired entry is dropped.
LookupCache(c) ==
  /\ Op[c] = "GET_SS_INFO" /\ Starts(c)
  /\ LET entry == entries[CacheSlot[NameOf[c]]]
     IN  \/ /\ EntryMatches(NameOf[c])
            /\ ~entry.expired
            /\ ss_id' = [ss_id EXCEPT ![c] = entry.ss_id]
            /\ Finish(c, "SUCCESS")
            /\ UNCHANGED entries
         \/ /\ EntryMatches(NameOf[c])
            /\ entry.expired
            /\ entries' = cache_invalidate(NameOf[c])
            /\ Goto(c, "find")
            /\ UNCHANGED ss_id
         \/ /\ ~EntryMatches(NameOf[c])
            /\ Goto(c, "find")
            /\ UNCHANGED <<ss_id, entries>>
  /\ UNCHANGED <<table, registration, storage, ptr, ss_reply, failures>>

FindFile(c) ==
  /\ pc[c] = "find"
  /\ LET p == find_file(NameOf[c])
     IN  IF p = NoPtr
           THEN Finish(c, "FILE_NOT_FOUND") /\ UNCHANGED ptr
           ELSE Goto(c, "cache") /\ ptr' = [ptr EXCEPT ![c] = p]
  /\ UNCHANGED <<table, entries, registration, storage, ss_id, ss_reply, failures>>

CacheLocation(c) ==
  /\ pc[c] = "cache"
  /\ entries' = cache_insert(NameOf[c], Deref(ptr[c]).ss_id)
  /\ Goto(c, "locate")
  /\ UNCHANGED <<table, registration, storage, locals, failures>>

AnswerLocation(c) ==
  /\ pc[c] = "locate"
  /\ ss_id' = [ss_id EXCEPT ![c] = Deref(ptr[c]).ss_id]
  /\ Finish(c, "SUCCESS")
  /\ UNCHANGED <<table, entries, registration, storage, ptr, ss_reply, failures>>

\* CACHE_TTL seconds have passed since an entry was made.
Expire(k) ==
  /\ entries[k] # NoEntry
  /\ ~entries[k].expired
  /\ entries' = [entries EXCEPT ![k].expired = TRUE]
  /\ UNCHANGED <<table, registration, storage, pc, locals, reply, failures>>
-----------------------------------------------------------------------------
Register(s) ==
  RegisterServer(s) \/ ListFile(s) \/ CountFile(s) \/ EndRegistration(s)

Serve(c) ==
  \/ CheckNew(c) \/ AssignServer(c) \/ AdvanceIndex(c) \/ RecordFile(c)
  \/ FindTarget(c) \/ CheckOwner(c)
  \/ RemoteCreate(c) \/ RemoteCreateFolder(c) \/ RemoteDelete(c) \/ RemoteMove(c)
  \/ CallFails(c)
  \/ FinishCreate(c) \/ FinishCreateFolder(c)
  \/ FinishDelete(c) \/ ForgetLocation(c)
  \/ FinishMove(c) \/ RenameFile(c) \/ InsertMoved(c) \/ ForgetAll(c)
  \/ LookupCache(c) \/ FindFile(c) \/ CacheLocation(c) \/ AnswerLocation(c)

Done ==
  /\ \A c \in Conns : pc[c] = "done"
  /\ registering = {} /\ ToSet(ss_list) = Servers
  /\ UNCHANGED vars

Next ==
  \/ \E s \in Servers : Register(s)
  \/ \E c \in Conns : Serve(c)
  \/ \E k \in CacheSlots : Expire(k)
  \/ Done

Spec == Init /\ [][Next]_vars
-----------------------------------------------------------------------------
(***************************************************************************)
(* Properties.                                                             *)
(***************************************************************************)
Pointer == [ss: Servers, slot: 1 .. MaxFiles]

\* Every variable holds a value its C counterpart can hold; in particular no
\* pointer and no count leaves the files array.
TypeOK ==
  /\ ss_list \in Seq(Servers)
  /\ slots \in [Servers -> [1 .. MaxFiles -> FileInfo \cup {Unused}]]
  /\ file_count \in [Servers -> 0 .. MaxFiles]
  /\ nodes \in Seq([filename: Paths, file_ptr: Pointer])
  /\ entries \in [CacheSlots -> [filename: Paths, ss_id: Servers, expired: BOOLEAN]
                                  \cup {NoEntry}]
  /\ next_ss_index \in Nat
  /\ registering \in SUBSET Servers
  /\ to_list \in Seq(Listing)
  /\ written \in BOOLEAN
  /\ meta \in [Servers -> [Paths -> Users \cup {NoUser}]]
  /\ path \in [Servers -> [Paths -> {"none", "file", "dir"}]]
  /\ pc \in [Conns -> PCs]
  /\ ptr \in [Conns -> Pointer \cup {NoPtr}]
  /\ ss_id \in [Conns -> Servers \cup {NoServer}]
  /\ ss_reply \in [Conns -> Replies]
  /\ reply \in [Conns -> Replies]
  /\ failures \in 0 .. MaxFailures

Listed(s) == {slots[s][i].filename : i \in 1 .. file_count[s]}

\* No request about this name is being served.
Settled(n) == \A c \in Conns : NameOf[c] = n => Idle(c)

\* For every name the hash table has as many nodes as the servers' lists have
\* entries: a listed file can be found, and a removed one cannot.
NodesMatchLists ==
  registering = {} =>
    \A n \in Paths :
      Cardinality({i \in DOMAIN nodes : nodes[i].filename = n}) =
      Cardinality({p \in Pointer : /\ p.slot <= file_count[p.ss]
                                   /\ Deref(p).filename = n})

\* This file of s was on the list s registered with, or comes from a CREATE or
\* CREATEFOLDER that succeeded, or from a CREATE that waits for s.
Accounted(s, n) ==
  \/ \E i \in DOMAIN FileList[s] : FileList[s][i].filename = n
  \/ \E c \in Conns :
       /\ NameOf[c] = n /\ ss_id[c] = s
       /\ \/ Op[c] = "CREATE" /\ pc[c] \in {"remote", "answer"}
          \/ Op[c] \in {"CREATE", "CREATEFOLDER"} /\ reply[c] = "SUCCESS"

\* Every listed file is accounted for: a CREATE that fails at any point, on
\* either side of the call, leaves nothing behind in the name server.
NoGhostFile ==
  \A s \in Servers : \A i \in 1 .. file_count[s] : Accounted(s, slots[s][i].filename)

\* A server's list has each name once: add_file_to_server searches it before it
\* adds, in one critical section.
OneEntryPerServer ==
  \A s \in Servers : \A i, j \in 1 .. file_count[s] :
    slots[s][i].filename = slots[s][j].filename => i = j

\* The steps of a handler are reached only by its requests, and a request that
\* is being served has not been answered.
StepsFit ==
  \A c \in Conns :
    /\ pc[c] \in {"assign", "select"} => Op[c] \in {"CREATE", "CREATEFOLDER"}
    /\ pc[c] = "add" => Op[c] = "CREATE"
    /\ pc[c] \in {"owner", "invalidate"} => Op[c] \in {"DELETE", "MOVE"}
    /\ pc[c] \in {"rename", "insert", "clear"} => Op[c] = "MOVE"
    /\ pc[c] \in {"find", "cache", "locate"} => Op[c] = "GET_SS_INFO"
    /\ pc[c] # "done" => reply[c] = "none"
    /\ pc[c] \in {"select", "add", "remote", "answer"} /\ Op[c] \in {"CREATE", "CREATEFOLDER"}
         => ss_id[c] \in Servers

\* All servers are registered, and the control state fits the requests.
ControlFits ==
  /\ registering = {} /\ ss_list = InitialServers
  /\ next_ss_index \in Nat
  /\ pc \in [Conns -> PCs]
  /\ ss_id = [c \in Conns |-> ss_id[c]]
  /\ reply = [c \in Conns |-> reply[c]]
  /\ StepsFit

\* The file lists stay within their arrays.
ListType ==
  /\ slots \in [Servers -> [1 .. MaxFiles -> FileInfo \cup {Unused}]]
  /\ file_count \in [Servers -> 0 .. MaxFiles]

\* The inductive invariant behind NoGhostFile, once all servers have registered.
GhostInv == ControlFits /\ ListType /\ OneEntryPerServer /\ NoGhostFile

\* A file the name server lists is on that storage server, unless a call of
\* DELETE for it failed half way: lists and disks do not drift apart.
ListedIsStored ==
  \A s \in Servers : \A n \in Listed(s) :
    /\ Settled(n)
    /\ \A c \in Conns : Op[c] = "DELETE" /\ NameOf[c] = n => reply[c] # "CONNECTION_FAILED"
    => path[s][n] # "none"

\* Assignments are spread evenly: no server gets two more than another, however
\* the threads that ask for a server interleave.
Assigned(s) ==
  Cardinality({c \in Conns : Op[c] \in {"CREATE", "CREATEFOLDER"} /\ ss_id[c] = s})
Balanced == \A s, t \in Servers : Assigned(s) <= Assigned(t) + 1

\* Whoever is told that CREATE succeeded is the owner of that file, for the
\* storage server too.
CreatorOwns ==
  \A c \in Conns :
    Op[c] = "CREATE" /\ reply[c] = "SUCCESS" => meta[ss_id[c]][NameOf[c]] = UserOf[c]

\* A name is listed once in the whole system, through deletion, creation on another
\* server and moves.  It holds as long as no two requests overlap (README, section 4).
UniqueNames ==
  \A s, t \in Servers :
    \A i \in 1 .. file_count[s], j \in 1 .. file_count[t] :
      slots[s][i].filename = slots[t][j].filename => s = t /\ i = j

\* A fresh cache entry names a server that lists the file, or is just listing it.
CacheTruthful ==
  \A k \in CacheSlots :
    entries[k] # NoEntry /\ Settled(entries[k].filename) =>
      \/ entries[k].expired \/ entries[k].ss_id \in registering
      \/ entries[k].filename \in Listed(entries[k].ss_id)

\* The name server has taken this file off the list of s: a DELETE went through, or the
\* record of a CREATE that failed was taken back.
Removed(s, n) ==
  \E c \in Conns :
    /\ NameOf[c] = n /\ ss_id[c] = s
    /\ \/ Op[c] = "DELETE" /\ (pc[c] = "invalidate" \/ reply[c] = "SUCCESS")
       \/ Op[c] = "CREATE" /\ pc[c] = "done" /\ ss_reply[c] # "none" /\ reply[c] # "SUCCESS"

Leads(s, n) == n \in Listed(s) \/ Removed(s, n)

\* Whatever a GET_SS_INFO can come by leads to a server that lists the file, or has had
\* it removed: the nodes, whose pointers stay when the array they point into shifts; the
\* pointers that threads hold meanwhile; the cache, where names share entries; and the
\* locations already given to clients.  So a wrong location is always one that was right
\* before a DELETE or a failed CREATE, however the requests overlap.
StaleMeansRemoved ==
  /\ \A i \in DOMAIN nodes : Leads(Deref(nodes[i].file_ptr).ss_id, nodes[i].filename)
  /\ \A c \in Conns : pc[c] \in {"owner", "cache", "locate"} => Leads(Deref(ptr[c]).ss_id, NameOf[c])
  /\ \A k \in CacheSlots : entries[k] # NoEntry => Leads(entries[k].ss_id, entries[k].filename)
  /\ \A c \in Conns : Op[c] = "GET_SS_INFO" /\ reply[c] = "SUCCESS" => Leads(ss_id[c], NameOf[c])

\* A location given to a client is a server that has the file then.
LocationTrue ==
  [][\A c \in Conns :
       Op[c] = "GET_SS_INFO" /\ reply[c] = "none" /\ reply'[c] = "SUCCESS" =>
         path[ss_id'[c]][NameOf[c]] # "none"]_vars

\* A file disappears from a storage server only when its owner deletes it, although
\* DELETE checks the owner in the name server's copy, through a pointer.  It holds as long
\* as no removal moves entries of other owners up (README, section 4).
OnlyOwnerDeletes ==
  [][\A c \in Conns : \A s \in Servers : \A n \in Paths :
       /\ Op[c] = "DELETE" /\ pc[c] = "remote" /\ pc'[c] = "answer"
       /\ meta[s][n] # NoUser /\ meta'[s][n] = NoUser
       => meta[s][n] = UserOf[c]]_vars

\* When the registration of a server ends all its files are listed, or its list
\* is full: no file that register_storage_server was given is dropped.
RegisteredFilesListed ==
  [][\A s \in registering :
       s \notin registering' =>
         \/ file_count'[s] = MaxFiles
         \/ \A i \in DOMAIN FileList[s] : FileList[s][i].filename \in Listed(s)']_vars
=============================================================================
