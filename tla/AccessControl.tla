--------------------------- MODULE AccessControl ---------------------------
(***************************************************************************)
(* Who may read and write: the access lists in a storage server's metadata,*)
(* the hash table that caches them, the metadata file, and the requests    *)
(* for access that the name server keeps.                                  *)
(*                                                                         *)
(* Every connection is a thread with one request.  ADDACCESS, REMACCESS,   *)
(* REQUESTACCESS, APPROVE and REJECT start in the name server              *)
(* (client_handler.c), which calls the storage server for the first two    *)
(* and for APPROVE; CREATE and DELETE are the storage server's part of     *)
(* those requests, and READ and WRITE the access check at their beginning  *)
(* (ss_client_comm.c).  All of them use FileMetadata through pointers that *)
(* find_metadata returns after it has unlocked metadata_mutex.             *)
(*                                                                         *)
(* User names are sequences of parts, so that a name can end with another. *)
(***************************************************************************)
EXTENDS Integers, Sequences, SequencesExt, FiniteSets, FiniteSetsExt, TLC

CONSTANTS
  Conns,        \* the connections, one thread each
  Served,       \* which of them are made: a set of sets of connections
  Op,           \* Op[c]: the request
  FileOf,       \* FileOf[c]: the file it is about
  UserOf,       \* UserOf[c]: who makes it
  TargetOf,     \* TargetOf[c]: who gains or loses access by it
  AccessOf,     \* AccessOf[c]: the access granted or asked for
  Files,        \* all file names
  OwnerOf,      \* OwnerOf[f]: the owner of f, for the files the name server lists
  Users,        \* all user names, sequences of parts
  InitialList,  \* the metadata the storage server starts with
  NoFile,       \* the file name of an entry never written
  NoConn,       \* the owner of a free mutex
  MaxEntries,   \* MAX_FILES
  CacheSize,    \* ACCESS_CACHE_SIZE
  Hash,         \* Hash[<<f, u>>]: hash_access_key
  MaxRequests,  \* MAX_ACCESS_REQUESTS
  MaxTime,      \* bound: the seconds at which requests are made
  MaxFailures,  \* bound: calls to the storage server that fail
  MaxCrashes    \* bound: deaths of the storage server

Ops == {"CREATE", "DELETE", "ADDACCESS", "REMACCESS", "READ", "WRITE",
        "REQUESTACCESS", "APPROVE", "REJECT"}
Access == {"R", "RW"}

ASSUME AccessControlAssumption ==
  /\ IsFiniteSet(Conns) /\ Served \subseteq SUBSET Conns
  /\ Op \in [Conns -> Ops]
  /\ FileOf \in [Conns -> Files]
  /\ UserOf \in [Conns -> Users]
  /\ TargetOf \in [Conns -> Users]
  /\ AccessOf \in [Conns -> Access]
  /\ DOMAIN OwnerOf \subseteq Files /\ \A f \in DOMAIN OwnerOf : OwnerOf[f] \in Users
  /\ NoConn \notin Conns /\ NoFile \notin Files
  /\ InitialList \in Seq(Range(InitialList))
  /\ MaxEntries \in Nat /\ Len(InitialList) <= MaxEntries
  /\ CacheSize \in Nat \ {0}
  /\ Hash \in [Files \X Users -> 0 .. CacheSize - 1]
  /\ MaxRequests \in Nat /\ MaxTime \in Nat /\ MaxFailures \in Nat
  /\ MaxCrashes \in Nat

\* Names are sequences, and the storage server starts with one entry for each of its files.
ASSUME MetadataAssumption ==
  /\ \A u \in Users : u \in Seq(Range(u))
  /\ \A i \in DOMAIN InitialList :
       InitialList[i] \in [filename : Files, owner : Users,
                          acl : Seq([name : Users, type : Access \cup {"none"}])]
  /\ \A i, j \in DOMAIN InitialList : InitialList[i].filename = InitialList[j].filename => i = j

VARIABLES
  list,            \* metadata_list, in use or not
  count,           \* metadata_count
  mfile,           \* the entries in the metadata file
  mlen,            \* how many of them are there to their last byte
  stored,          \* the files on disk
  cache,           \* access_cache
  metadata_mutex,  \* its owner, where it is held over several steps
  requests,        \* access_requests[0 .. request_count-1]
  pc,              \* where the thread of each connection is
  job,             \* the file, user and access it works on
  ptr,             \* the FileMetadata pointer it has: a place in list
  written,         \* how many entries it wrote to the metadata file
  reply,           \* what it was answered
  failures,        \* failed calls so far
  crashes          \* deaths of the storage server so far

disk == <<mfile, mlen, stored>>
metadata == <<list, count, disk>>
locals == <<job, ptr, written>>
bounds == <<failures, crashes>>
vars == <<metadata, cache, metadata_mutex, requests, pc, locals, reply, bounds>>

PCs == {"start", "find", "create", "unlink", "remove", "change", "append",
        "invalidate", "save_open", "save_write", "save_close",
        "owner", "lookup", "rebuild", "relookup", "done"}
Replies == {"none", "SUCCESS", "FILE_NOT_FOUND", "SERVER_ERROR", "NOT_OWNER",
            "INVALID_OPERATION", "CONNECTION_FAILED", "granted", "refused", "lost"}

\* A FileMetadata of zeros.
Blank == [filename |-> NoFile, owner |-> <<>>, acl |-> <<>>]
NoEntry == [key |-> <<>>]
NoPtr == 0

Changes(c) == Op[c] \in {"ADDACCESS", "REMACCESS", "APPROVE"}
Checks(c) == Op[c] \in {"READ", "WRITE"}

Finish(c, answer) ==
  /\ pc' = [pc EXCEPT ![c] = "done"]
  /\ reply' = [reply EXCEPT ![c] = answer]

Goto(c, label) ==
  /\ pc' = [pc EXCEPT ![c] = label]
  /\ UNCHANGED reply

Free == metadata_mutex = NoConn

\* Where a request begins: in the name server, or with its storage server part.
FirstStep(c) == IF Op[c] \in {"CREATE", "DELETE", "READ", "WRITE"} THEN "find" ELSE "start"

Active == {c \in Conns : pc[c] \notin {FirstStep(c), "done"}}

Init ==
  /\ list = [i \in 1 .. MaxEntries |->
               IF i <= Len(InitialList) THEN InitialList[i] ELSE Blank]
  /\ count = Len(InitialList)
  /\ mfile = InitialList
  /\ mlen = Len(InitialList)
  /\ stored = {InitialList[i].filename : i \in DOMAIN InitialList}
  /\ cache = [k \in 0 .. CacheSize - 1 |-> NoEntry]
  /\ metadata_mutex = NoConn
  /\ requests = <<>>
  /\ \E made \in Served :
       pc = [c \in Conns |-> IF c \in made THEN FirstStep(c) ELSE "done"]
  /\ job = [c \in Conns |-> [file |-> FileOf[c], user |-> TargetOf[c],
                             access |-> AccessOf[c]]]
  /\ ptr = [c \in Conns |-> NoPtr]
  /\ written = [c \in Conns |-> 0]
  /\ reply = [c \in Conns |-> "none"]
  /\ failures = 0
  /\ crashes = 0
-----------------------------------------------------------------------------
(***************************************************************************)
(* The name server: owners only, and the table of access requests.         *)
(***************************************************************************)

Listed(c) == FileOf[c] \in DOMAIN OwnerOf
Owns(c) == OwnerOf[FileOf[c]] = UserOf[c]

\* handle_addaccess and handle_remaccess, up to the call.
Forward(c) ==
  /\ Op[c] \in {"ADDACCESS", "REMACCESS"} /\ pc[c] = "start"
  /\ \/ ~Listed(c) /\ Finish(c, "FILE_NOT_FOUND")
     \/ Listed(c) /\ ~Owns(c) /\ Finish(c, "NOT_OWNER")
     \/ Listed(c) /\ Owns(c) /\ Goto(c, "find")
  /\ UNCHANGED <<metadata, cache, metadata_mutex, requests, locals, bounds>>

\* Mutant: the table is not searched for a pending request.
NeverPending(f, u) == FALSE

AlreadyPending(f, u) ==
  \E i \in DOMAIN requests : /\ requests[i].filename = f /\ requests[i].requester = u
                             /\ requests[i].status = "pending"

\* What handle_requestaccess answers.
RequestAnswer(c) ==
  CASE ~Listed(c) -> "FILE_NOT_FOUND"
    [] Listed(c) /\ Owns(c) -> "INVALID_OPERATION"
    [] Listed(c) /\ ~Owns(c) /\ Len(requests) >= MaxRequests -> "SERVER_ERROR"
    [] Listed(c) /\ ~Owns(c) /\ Len(requests) < MaxRequests
         /\ AlreadyPending(FileOf[c], UserOf[c]) -> "INVALID_OPERATION"
    [] OTHER -> "SUCCESS"

\* handle_requestaccess at time t; the id is made from the file, the user and the second.
RequestAccess(c, t) ==
  /\ Op[c] = "REQUESTACCESS" /\ pc[c] = "start"
  /\ \A i \in DOMAIN requests : requests[i].request_time <= t
  /\ requests' =
       IF RequestAnswer(c) = "SUCCESS"
         THEN Append(requests, [request_id |-> <<FileOf[c], UserOf[c], t>>,
                                filename |-> FileOf[c], requester |-> UserOf[c],
                                owner |-> OwnerOf[FileOf[c]], access_type |-> AccessOf[c],
                                request_time |-> t,
                                status |-> "pending"])
         ELSE requests
  /\ Finish(c, RequestAnswer(c))
  /\ UNCHANGED <<metadata, cache, metadata_mutex, locals, bounds>>

\* The first request with this id, or 0.
FoundRequest(id) ==
  LET found == {i \in DOMAIN requests : requests[i].request_id = id}
  IN  IF found = {} THEN 0 ELSE Min(found)

\* What handle_approverequest and handle_rejectrequest answer.
DecisionAnswer(c, i) ==
  CASE i = 0 -> "FILE_NOT_FOUND"
    [] i # 0 /\ requests[i].owner # UserOf[c] -> "NOT_OWNER"
    [] i # 0 /\ requests[i].owner = UserOf[c] /\ requests[i].status # "pending"
         -> "INVALID_OPERATION"
    [] OTHER -> "SUCCESS"

RefuseDecision(c, id) ==
  /\ Op[c] \in {"APPROVE", "REJECT"} /\ pc[c] = "start"
  /\ DecisionAnswer(c, FoundRequest(id)) # "SUCCESS"
  /\ Finish(c, DecisionAnswer(c, FoundRequest(id)))
  /\ UNCHANGED <<metadata, cache, metadata_mutex, requests, locals, bounds>>

\* The request is marked approved before the storage server is asked.
Approve(c, id) ==
  /\ Op[c] = "APPROVE" /\ pc[c] = "start"
  /\ LET i == FoundRequest(id)
     IN  /\ DecisionAnswer(c, i) = "SUCCESS"
         /\ requests' = [requests EXCEPT ![i].status = "approved"]
         /\ job' = [job EXCEPT ![c] = [file |-> requests[i].filename,
                                       user |-> requests[i].requester,
                                       access |-> requests[i].access_type]]
  /\ Goto(c, "find")
  /\ UNCHANGED <<metadata, cache, metadata_mutex, ptr, written, bounds>>

Reject(c, id) ==
  /\ Op[c] = "REJECT" /\ pc[c] = "start"
  /\ LET i == FoundRequest(id)
     IN  /\ DecisionAnswer(c, i) = "SUCCESS"
         /\ requests' = [requests EXCEPT ![i].status = "rejected"]
  /\ Finish(c, "SUCCESS")
  /\ UNCHANGED <<metadata, cache, metadata_mutex, locals, bounds>>

\* No connection to the storage server; handle_approverequest does not mind.
CallFails(c) ==
  /\ Changes(c) /\ pc[c] = "find"
  /\ failures < MaxFailures
  /\ failures' = failures + 1
  /\ Finish(c, IF Op[c] = "APPROVE" THEN "SUCCESS" ELSE "CONNECTION_FAILED")
  /\ UNCHANGED <<metadata, cache, metadata_mutex, requests, locals, crashes>>

\* The connection breaks before the storage server reads the request.  Nobody looks
\* at what receive_message returns, and the zeroed answer reads ERR_SUCCESS.
CallLost(c) ==
  /\ Changes(c) /\ pc[c] = "find"
  /\ failures < MaxFailures
  /\ failures' = failures + 1
  /\ Finish(c, "SUCCESS")
  /\ UNCHANGED <<metadata, cache, metadata_mutex, requests, locals, crashes>>
-----------------------------------------------------------------------------
(***************************************************************************)
(* The storage server: metadata_list and the metadata file.  A critical    *)
(* section that holds metadata_mutex over one step only waits for it.      *)
(***************************************************************************)

\* find_metadata, and what its callers do with the answer.  ERR_FILE_EXISTS and
\* ERR_FILE_NOT_FOUND are positive, and handle_nm_connection reports "result < 0".
FindMetadata(c) ==
  /\ pc[c] = "find" /\ Free
  /\ LET found == {i \in 1 .. count : list[i].filename = job[c].file}
     IN  /\ ptr' = [ptr EXCEPT ![c] = IF found = {} THEN NoPtr ELSE Min(found)]
         /\ \/ Op[c] = "CREATE" /\ found = {} /\ Goto(c, "create")
            \/ Op[c] = "CREATE" /\ found # {} /\ Finish(c, "SUCCESS")
            \/ Op[c] = "DELETE" /\ found # {} /\ Goto(c, "unlink")
            \/ Op[c] = "DELETE" /\ found = {} /\ Finish(c, "SUCCESS")
            \/ Changes(c) /\ found # {} /\ Goto(c, "change")
            \/ Changes(c) /\ found = {} /\ Finish(c, "SUCCESS")
            \/ Checks(c) /\ found # {} /\ Goto(c, "owner")
            \/ Checks(c) /\ found = {} /\ Finish(c, "refused")
  /\ UNCHANGED <<metadata, cache, metadata_mutex, requests, job, written, bounds>>

\* Mutant: the test of the limit is off by one.
FullTooLate == count > MaxEntries

Full == count >= MaxEntries

\* create_file_ll after its check, up to save_metadata_ll.
CreateEntry(c) ==
  /\ pc[c] = "create" /\ Free
  /\ \/ /\ Full
        /\ Finish(c, "SERVER_ERROR")
        /\ UNCHANGED metadata
     \/ /\ ~Full
        /\ LET entry == [filename |-> job[c].file, owner |-> UserOf[c],
                         acl |-> <<[name |-> UserOf[c], type |-> "RW"]>>]
           IN  list' = [i \in DOMAIN list \cup {count + 1} |->
                          IF i = count + 1 THEN entry ELSE list[i]]
        /\ count' = count + 1
        /\ stored' = stored \cup {job[c].file}
        /\ Goto(c, "save_open")
        /\ UNCHANGED <<mfile, mlen>>
  /\ UNCHANGED <<cache, metadata_mutex, requests, locals, bounds>>

\* delete_file_ll: the file goes first.
Unlink(c) ==
  /\ pc[c] = "unlink"
  /\ IF job[c].file \in stored THEN Goto(c, "remove") ELSE Finish(c, "FILE_NOT_FOUND")
  /\ stored' = stored \ {job[c].file}
  /\ UNCHANGED <<list, count, mfile, mlen, cache, metadata_mutex, requests, locals, bounds>>

\* delete_file_ll: the entry at the pointer found before goes, the later ones move up.
RemoveEntry(c) ==
  /\ pc[c] = "remove" /\ Free
  /\ list' = [i \in DOMAIN list |->
                IF ptr[c] <= i /\ i < count THEN list[i + 1] ELSE list[i]]
  /\ count' = count - 1
  /\ Goto(c, "save_open")
  /\ UNCHANGED <<disk, cache, metadata_mutex, requests, locals, bounds>>

\* Mutant: the last entry is not saved.
AllButLast == SubSeq(list, 1, count - 1)

InUse == SubSeq(list, 1, count)

\* save_metadata_ll: fopen truncates the file and takes no lock.
SaveOpen(c) ==
  /\ pc[c] = "save_open"
  /\ mfile' = <<>> /\ mlen' = 0
  /\ Goto(c, "save_write")
  /\ UNCHANGED <<list, count, stored, cache, metadata_mutex, requests, locals, bounds>>

\* The entries are written from the beginning of the file, whoever has it open; the end
\* of the last one, which no access list reaches, stays in the stream's buffer.
SaveWrite(c) ==
  /\ pc[c] = "save_write" /\ Free
  /\ mfile' = InUse \o SubSeq(mfile, Len(InUse) + 1, Len(mfile))
  /\ mlen' = Max({mlen, Len(InUse) - 1})
  /\ written' = [written EXCEPT ![c] = Len(InUse)]
  /\ Goto(c, "save_close")
  /\ UNCHANGED <<list, count, stored, cache, metadata_mutex, requests, job, ptr, bounds>>

\* fclose writes the rest, after a hole of zeros if the file was truncated since.
SaveClose(c) ==
  /\ pc[c] = "save_close"
  /\ mlen' = Max({mlen, written[c]})
  /\ mfile' = [i \in 1 .. Max({Len(mfile), written[c]}) |->
                 IF i <= Len(mfile) THEN mfile[i] ELSE Blank]
  /\ Finish(c, "SUCCESS")
  /\ UNCHANGED <<list, count, stored, cache, metadata_mutex, requests, locals, bounds>>

\* What of the metadata file a death can leave: the whole entries, or in the middle of
\* SaveWrite some of the new ones before the old ones.
Leavings ==
  {SubSeq(mfile, 1, mlen)} \cup
  IF Free /\ \E c \in Conns : pc[c] = "save_write"
    THEN {SubSeq(InUse, 1, n) \o SubSeq(mfile, n + 1, mlen) : n \in 0 .. count - 1}
    ELSE {}

\* The storage server dies and comes back: load_metadata_ll, and an empty cache.  The
\* name server takes the answer it does not get for ERR_SUCCESS, as in CallLost.
Crash ==
  /\ crashes < MaxCrashes
  /\ crashes' = crashes + 1
  /\ \E left \in Leavings :
       /\ mfile' = left /\ mlen' = Len(left) /\ count' = Len(left)
       /\ list' = [i \in 1 .. MaxEntries |-> IF i <= Len(left) THEN left[i] ELSE Blank]
  /\ cache' = [k \in DOMAIN cache |-> NoEntry]
  /\ metadata_mutex' = NoConn
  /\ LET hit == {c \in Conns : pc[c] \notin {"start", "find", "done"}}
     IN  /\ pc' = [c \in Conns |-> IF c \in hit THEN "done" ELSE pc[c]]
         /\ reply' = [c \in Conns |-> CASE c \notin hit -> reply[c]
                                         [] c \in hit /\ Changes(c) -> "SUCCESS"
                                         [] c \in hit /\ ~Changes(c) -> "lost"]
  /\ UNCHANGED <<stored, requests, locals, failures>>
-----------------------------------------------------------------------------
(***************************************************************************)
(* Changes of an access list, under metadata_mutex.                        *)
(***************************************************************************)

\* strstr finds "u:RW", or else "u:R", at the end of the first name that ends with u.
Position(acl, u) ==
  LET At(type) == {i \in DOMAIN acl : acl[i].type = type /\ IsSuffix(u, acl[i].name)}
  IN  Min(IF At("RW") # {} THEN At("RW") ELSE At("R") \cup {Len(acl) + 1})

\* Mutant: what follows the entry is not moved down.
CutOff(acl, u) == SubSeq(acl, 1, Position(acl, u) - 1)

\* The access list without u.  Of a longer name the beginning is left, and it runs
\* into the entry that follows.
Dropped(acl, u) ==
  LET p == Position(acl, u)
      rest == SubSeq(acl[p].name, 1, Len(acl[p].name) - Len(u))
  IN  CASE p > Len(acl) -> acl
        [] p <= Len(acl) /\ rest = <<>> -> RemoveAt(acl, p)
        [] p < Len(acl) /\ rest # <<>> ->
             RemoveAt([acl EXCEPT ![p + 1].name = rest \o @], p)
        [] p = Len(acl) /\ rest # <<>> -> [acl EXCEPT ![p] = [name |-> rest, type |-> "none"]]

\* add_user_access_ll and remove_user_access_ll: lock, and take the old access away.
DropAccess(c) ==
  /\ pc[c] = "change" /\ Free
  /\ metadata_mutex' = c
  /\ list' = [list EXCEPT ![ptr[c]].acl = Dropped(@, job[c].user)]
  /\ Goto(c, IF Op[c] = "REMACCESS" THEN "invalidate" ELSE "append")
  /\ UNCHANGED <<count, disk, cache, requests, locals, bounds>>

\* Mutant: everybody is given read access.
ReadOnly(acl, u, access) == Append(acl, [name |-> u, type |-> "R"])

WithAccess(acl, u, access) == Append(acl, [name |-> u, type |-> access])

AppendAccess(c) ==
  /\ pc[c] = "append"
  /\ list' = [list EXCEPT ![ptr[c]].acl = WithAccess(@, job[c].user, job[c].access)]
  /\ Goto(c, "invalidate")
  /\ UNCHANGED <<count, disk, cache, metadata_mutex, requests, locals, bounds>>

\* Mutant: the cache is not told of the change.
StillCached(f) == cache

\* invalidate_access_cache_for_file
Invalidated(f) ==
  [k \in DOMAIN cache |->
     IF cache[k] # NoEntry /\ cache[k].key[1] = f THEN NoEntry ELSE cache[k]]

Invalidate(c) ==
  /\ pc[c] = "invalidate"
  /\ cache' = Invalidated(job[c].file)
  /\ metadata_mutex' = NoConn
  /\ Goto(c, "save_open")
  /\ UNCHANGED <<metadata, requests, locals, bounds>>
-----------------------------------------------------------------------------
(***************************************************************************)
(* The access check of READ and WRITE, and the cache it uses.              *)
(***************************************************************************)

NoSlot == CacheSize

\* Where a key is looked for and put: its own slot if it is there, or else the first
\* of the following slots that is free or has it.
Probe(table, key) ==
  LET At(i) == (Hash[key] + i) % CacheSize
      stops == {i \in 0 .. CacheSize - 1 : \/ table[At(i)].key = key
                                           \/ i > 0 /\ table[At(i)] = NoEntry}
  IN  IF stops = {} THEN NoSlot ELSE At(Min(stops))

\* build_access_cache_for_file
Rebuilt(table, f, acl) ==
  LET Put(t, e) ==
        LET k == Probe(t, <<f, e.name>>)
        IN  IF e.type = "none" \/ k = NoSlot THEN t
            ELSE [t EXCEPT ![k] = [key |-> <<f, e.name>>, access |-> e.type]]
  IN  FoldLeft(Put, table, acl)

\* Mutant: an entry for reading is enough for writing.
AnyAccess(access, op) == access \in Access

\* (access_type & required_access) == required_access
Suffices(access, op) == op = "READ" \/ access = "RW"

\* lookup_access_cache
Hit(c) ==
  LET key == <<FileOf[c], UserOf[c]>>
      k == Probe(cache, key)
  IN  /\ k # NoSlot /\ cache[k].key = key
      /\ Suffices(cache[k].access, Op[c])

\* has_read_access_ll and has_write_access_ll: the owner needs no entry.
CheckOwner(c) ==
  /\ pc[c] = "owner"
  /\ IF list[ptr[c]].owner = UserOf[c] THEN Finish(c, "granted") ELSE Goto(c, "lookup")
  /\ UNCHANGED <<metadata, cache, metadata_mutex, requests, locals, bounds>>

Lookup(c) ==
  /\ pc[c] = "lookup"
  /\ IF Hit(c) THEN Finish(c, "granted") ELSE Goto(c, "rebuild")
  /\ UNCHANGED <<metadata, cache, metadata_mutex, requests, locals, bounds>>

\* What a copy of the access list at p may look like: it is made without
\* metadata_mutex, and misses an entry if entries are moved down meanwhile.
Readings(p) ==
  LET acl == list[p].acl
  IN  {acl} \cup IF metadata_mutex # NoConn /\ ptr[metadata_mutex] = p
                   THEN {RemoveAt(acl, i) : i \in DOMAIN acl} ELSE {}

Rebuild(c) ==
  /\ pc[c] = "rebuild"
  /\ \E acl \in Readings(ptr[c]) : cache' = Rebuilt(cache, FileOf[c], acl)
  /\ Goto(c, "relookup")
  /\ UNCHANGED <<metadata, metadata_mutex, requests, locals, bounds>>

Relookup(c) ==
  /\ pc[c] = "relookup"
  /\ Finish(c, IF Hit(c) THEN "granted" ELSE "refused")
  /\ UNCHANGED <<metadata, cache, metadata_mutex, requests, locals, bounds>>
-----------------------------------------------------------------------------
\* The ids an owner may name: those handle_viewrequests can show.
RequestIds == (DOMAIN OwnerOf) \X Users \X (0 .. MaxTime)

NameServerStep(c) ==
  \/ Forward(c)
  \/ \E t \in 0 .. MaxTime : RequestAccess(c, t)
  \/ \E id \in RequestIds : RefuseDecision(c, id) \/ Approve(c, id) \/ Reject(c, id)
  \/ CallFails(c) \/ CallLost(c)

StorageStep(c) ==
  \/ FindMetadata(c) \/ CreateEntry(c) \/ Unlink(c) \/ RemoveEntry(c)
  \/ SaveOpen(c) \/ SaveWrite(c) \/ SaveClose(c)
  \/ DropAccess(c) \/ AppendAccess(c) \/ Invalidate(c)
  \/ CheckOwner(c) \/ Lookup(c) \/ Rebuild(c) \/ Relookup(c)

Done ==
  /\ \A c \in Conns : pc[c] = "done"
  /\ UNCHANGED vars

Next == (\E c \in Conns : NameServerStep(c) \/ StorageStep(c)) \/ Crash \/ Done

Spec == Init /\ [][Next]_vars
-----------------------------------------------------------------------------
(***************************************************************************)
(* Properties                                                              *)
(***************************************************************************)
AclEntry == [name : Users, type : Access \cup {"none"}]

IsMetadata(e) == \/ e = Blank
                 \/ e.filename \in Files /\ e.owner \in Users /\ e.acl \in Seq(AclEntry)

\* The state keeps its type; above all metadata_list is never written past its end.
TypeOK ==
  /\ DOMAIN list = 1 .. MaxEntries /\ count \in 0 .. MaxEntries
  /\ \A i \in DOMAIN list : IsMetadata(list[i])
  /\ \A i \in DOMAIN mfile : IsMetadata(mfile[i])
  /\ mlen \in 0 .. Len(mfile) /\ stored \subseteq Files
  /\ \A k \in 0 .. CacheSize - 1 :
       cache[k] = NoEntry \/ cache[k] \in [key : Files \X Users, access : Access]
  /\ metadata_mutex \in Conns \cup {NoConn}
  /\ Len(requests) <= MaxRequests
  /\ pc \in [Conns -> PCs] /\ reply \in [Conns -> Replies]
  /\ ptr \in [Conns -> 0 .. MaxEntries] /\ written \in [Conns -> 0 .. MaxEntries]
  /\ job \in [Conns -> [file : Files, user : Users, access : Access]]

\* A change of f's access list is under way: add_user_access_ll or remove_user_access_ll
\* holds metadata_mutex and has not invalidated the cache yet.
BeingChanged(f) == metadata_mutex # NoConn /\ job[metadata_mutex].file = f

EntriesOf(f) == {i \in 1 .. count : list[i].filename = f}

\* access_cache never knows more than the access lists: whatever checks, changes and
\* invalidations overlap, an entry that outlives the change of its list is gone when
\* metadata_mutex is released.
CacheSound ==
  \A k \in DOMAIN cache : cache[k] # NoEntry =>
    LET file == cache[k].key[1]
    IN  \/ BeingChanged(file)
        \/ \A i \in EntriesOf(file) :
             [name |-> cache[k].key[2], type |-> cache[k].access] \in Range(list[i].acl)

\* The access list of c's file gives c what it asks for.
MayAccess(c) ==
  \E i \in EntriesOf(FileOf[c]) :
    \/ list[i].owner = UserOf[c]
    \/ \E e \in Range(list[i].acl) : /\ e.name = UserOf[c] /\ e.type \in Access
                                     /\ Op[c] = "WRITE" => e.type = "RW"

\* has_read_access_ll and has_write_access_ll let nobody in who is not the owner and not
\* in the list at that moment, unless the list is being changed just then.
GrantedIsListed ==
  [][\A c \in Conns : reply[c] # "granted" /\ reply'[c] = "granted" =>
       MayAccess(c) \/ BeingChanged(FileOf[c])]_vars

\* Nobody's access to a file is affected by requests about other users: as long as the
\* server lives, an entry of an access list stays until its file is deleted or a change
\* for that very user is made to that file.
OthersKeepAccess ==
  [][\A f \in Files : \A i \in EntriesOf(f) : \A e \in Range(list[i].acl) :
       EntriesOf(f)' # {} /\ crashes' = crashes =>
         \/ \E j \in EntriesOf(f)' : e \in Range(list'[j].acl)
         \/ \E c \in Conns : /\ Changes(c) /\ metadata_mutex' = c
                             /\ job[c].file = f /\ job[c].user = e.name]_vars

\* When nobody is about to save, the metadata file has the list: the save that wrote
\* last wrote the current list, in whatever order files are opened, written and closed.
MetadataSaved ==
  (\A c \in Conns : pc[c] \notin {"append", "invalidate", "save_open", "save_write", "save_close"})
    => mlen >= count /\ \A i \in 1 .. count : mfile[i] = list[i]

OnePending ==
  \A i, j \in DOMAIN requests :
    /\ requests[i].status = "pending" /\ requests[j].status = "pending"
    /\ requests[i].filename = requests[j].filename
    /\ requests[i].requester = requests[j].requester
    => i = j

\* The decisions that were accepted: told so, or the grant is still under way.
Accepted == {c \in Conns : /\ Op[c] \in {"APPROVE", "REJECT"}
                           /\ reply[c] = "SUCCESS" \/ c \in Active}

DecidedOnce ==
  Cardinality({i \in DOMAIN requests : requests[i].status # "pending"}) = Cardinality(Accepted)

\* A user has at most one pending request for a file, however many are sent at once, and
\* every decided request was decided by one accepted APPROVE or REJECT and by one only.
RequestsConsistent == OnePending /\ DecidedOnce

\* An approved request gives the access asked for once everybody is done, provided that
\* no call failed, the server lived, and no other change for this user was asked for.
ApprovedIsGranted ==
  (\A c \in Conns : pc[c] = "done") /\ failures = 0 /\ crashes = 0 =>
    \A r \in Range(requests) :
      r.status = "approved" =>
        \/ \E c \in Conns : /\ Op[c] \in {"ADDACCESS", "REMACCESS", "DELETE"}
                            /\ FileOf[c] = r.filename
                            /\ Op[c] # "DELETE" => TargetOf[c] = r.requester
        \/ \E i \in EntriesOf(r.filename) :
             [name |-> r.requester, type |-> r.access_type] \in Range(list[i].acl)
=============================================================================
