------------------------ MODULE AccessControlProofs -------------------------
(***************************************************************************)
(* Proofs about AccessControl: the metadata file has the list when nobody  *)
(* is about to save, metadata_list is never written past its end, requests *)
(* for access are decided once, the access cache knows no more than the    *)
(* access lists, checks grant no more, and what is approved is granted,    *)
(* for any number of connections, files and users.                         *)
(***************************************************************************)
EXTENDS AccessControl, ListLemmas

\* The places between a change of the list and the write that saves it.
Unsaved == {"append", "invalidate", "save_open", "save_write"}

\* The places of the requests that change an access list.
Changing == {"start", "find", "change", "append", "invalidate", "save_open", "save_write",
             "save_close", "done"}

Request == [request_id : Files \X Users \X (0 .. MaxTime), filename : Files, requester : Users,
            owner : Users, access_type : Access, request_time : 0 .. MaxTime,
            status : {"pending", "approved", "rejected"}]

Types ==
  /\ pc \in [Conns -> PCs] /\ reply \in [Conns -> Replies]
  /\ written \in [Conns -> 0 .. MaxEntries]
  /\ job \in [Conns -> [file : Files, user : Users, access : Access]]
  /\ requests \in Seq(Request)

\* Where a request can be, and what it has been answered there.
Places ==
  \A c \in Conns :
    /\ Op[c] = "APPROVE" => pc[c] \in Changing
    /\ Op[c] = "REJECT" => pc[c] \in {"start", "done"}
    /\ pc[c] \in {"unlink", "remove"} => Op[c] = "DELETE"
    /\ pc[c] = "start" => reply[c] = "none"

\* metadata_list and the metadata file, neither of which is longer than MAX_FILES.
Sizes ==
  /\ list = [i \in 1 .. MaxEntries |-> list[i]] /\ count \in 0 .. MaxEntries
  /\ mfile \in Seq(Range(mfile)) /\ Len(mfile) <= MaxEntries /\ mlen \in 0 .. Len(mfile)

\* The stored files that a DELETE can unlink: they have an entry, or had one when the
\* DELETE looked.
Deletable ==
  {f \in stored : \/ EntriesOf(f) # {}
                  \/ \E c \in Conns : pc[c] = "unlink" /\ job[c].file = f}
Removers == {c \in Conns : pc[c] = "remove"}

\* Every DELETE that has unlinked its file still has an entry to remove, whichever it is.
EntryLeft == IsFiniteSet(stored) /\ Cardinality(Deletable) + Cardinality(Removers) <= count

\* The list is in the file, but for the end of its last entry, which a thread that is
\* about to close the file may still have in its buffer.
Saved ==
  (\A c \in Conns : pc[c] \notin Unsaved) =>
    /\ Len(mfile) >= count /\ \A i \in 1 .. count : mfile[i] = list[i]
    /\ mlen >= count \/ \E c \in Conns : pc[c] = "save_close" /\ written[c] >= count

Inv == Types /\ Places /\ Sizes /\ EntryLeft /\ Saved /\ RequestsConsistent
-----------------------------------------------------------------------------
USE AccessControlAssumption DEF disk, metadata, locals, bounds, vars

\* The step of one connection: where it goes, and what it is answered.
Step(c) == NameServerStep(c) \/ StorageStep(c)

\* What is left to show of a step.
LEMMA MoveTypes ==
  ASSUME Types, Places, NEW c \in Conns, NEW label \in PCs \ {"start"}, NEW answer \in Replies,
         pc' = [pc EXCEPT ![c] = label], reply' = [reply EXCEPT ![c] = answer],
         written' \in [Conns -> 0 .. MaxEntries],
         job' \in [Conns -> [file : Files, user : Users, access : Access]],
         requests' \in Seq(Request),
         Op[c] = "APPROVE" => label \in Changing, Op[c] = "REJECT" => label = "done",
         label \in {"unlink", "remove"} => Op[c] = "DELETE"
  PROVE  Types' /\ Places'
<1>1. Types'
  BY DEF Types
<1>2. \A d \in Conns : IF d = c THEN pc'[d] = label ELSE pc'[d] = pc[d] /\ reply'[d] = reply[d]
  BY DEF Types
<1>3. Places'
  BY <1>2 DEF Places
<1> QED BY <1>1, <1>3

\* The same for a step that leaves the requests and what the thread works on alone.
LEMMA FinishTypes ==
  ASSUME Types, Places, NEW c \in Conns, NEW answer \in Replies, Finish(c, answer),
         UNCHANGED <<job, written, requests>>
  PROVE  Types' /\ Places'
<1>1. "done" \in PCs \ {"start"} /\ "done" \in Changing
  BY DEF PCs, Changing
<1>2. pc' = [pc EXCEPT ![c] = "done"] /\ reply' = [reply EXCEPT ![c] = answer]
  BY DEF Finish
<1>3. /\ written' \in [Conns -> 0 .. MaxEntries]
      /\ job' \in [Conns -> [file : Files, user : Users, access : Access]]
      /\ requests' \in Seq(Request)
  BY DEF Types
<1> QED BY <1>1, <1>2, <1>3, MoveTypes

LEMMA GotoTypes ==
  ASSUME Types, Places, NEW c \in Conns, NEW label \in PCs \ {"start"}, Goto(c, label),
         UNCHANGED <<job, written, requests>>,
         Op[c] = "APPROVE" => label \in Changing, Op[c] # "REJECT",
         label \in {"unlink", "remove"} => Op[c] = "DELETE"
  PROVE  Types' /\ Places'
<1>1. /\ pc' = [pc EXCEPT ![c] = label] /\ reply' = [reply EXCEPT ![c] = reply[c]]
      /\ reply[c] \in Replies
  BY DEF Goto, Types
<1>2. /\ written' \in [Conns -> 0 .. MaxEntries]
      /\ job' \in [Conns -> [file : Files, user : Users, access : Access]]
      /\ requests' \in Seq(Request)
  BY DEF Types
<1> QED BY <1>1, <1>2, MoveTypes

\* The request that is decided is one of the table.
LEMMA FoundTypes ==
  ASSUME Types, NEW c \in Conns, NEW id, DecisionAnswer(c, FoundRequest(id)) = "SUCCESS"
  PROVE  /\ FoundRequest(id) \in DOMAIN requests
         /\ requests[FoundRequest(id)] \in Request
         /\ requests[FoundRequest(id)].status = "pending"
<1> DEFINE found == {i \in DOMAIN requests : requests[i].request_id = id}
<1>1. requests \in Seq(Request) /\ DOMAIN requests \subseteq Nat
  <2>1. requests \in Seq(Request)
    BY DEF Types
  <2> QED BY <2>1
<1>2. FoundRequest(id) # 0
  BY DEF DecisionAnswer
<1>3. found # {} /\ FoundRequest(id) = Min(found)
  BY <1>2 DEF FoundRequest
<1>4. found \in SUBSET Nat
  BY <1>1
<1>5. FoundRequest(id) \in found
  <2> HIDE DEF found
  <2> QED BY <1>3, <1>4, MinIsLeast
<1>6. requests[FoundRequest(id)].status = "pending"
  BY <1>2 DEF DecisionAnswer
<1> QED BY <1>1, <1>5, <1>6

\* The record of a decision.
LEMMA Decided ==
  ASSUME Types, NEW i \in DOMAIN requests, NEW status \in {"approved", "rejected"},
         requests' = [requests EXCEPT ![i].status = status]
  PROVE  /\ requests' \in Seq(Request) /\ DOMAIN requests' = DOMAIN requests
         /\ requests'[i].status = status
         /\ requests'[i].filename = requests[i].filename
         /\ requests'[i].requester = requests[i].requester
         /\ requests'[i].access_type = requests[i].access_type
         /\ \A j \in DOMAIN requests \ {i} : requests'[j] = requests[j]
<1>1. requests \in Seq(Request) /\ requests[i] \in Request
  BY DEF Types
<1> DEFINE r == [requests[i] EXCEPT !.status = status]
<1>2. /\ r \in Request /\ r.status = status /\ r.filename = requests[i].filename
      /\ r.requester = requests[i].requester /\ r.access_type = requests[i].access_type
  BY <1>1 DEF Request
<1>3. requests' = [requests EXCEPT ![i] = r]
  OBVIOUS
<1> HIDE DEF r
<1>4. requests' \in Seq(Request) /\ DOMAIN requests' = DOMAIN requests
  <2>1. i \in 1 .. Len(requests)
    BY <1>1
  <2>2. [requests EXCEPT ![i] = r] \in Seq(Request)
    BY <1>1, <1>2, <2>1, ExceptSeq
  <2> QED BY <1>3, <2>2
<1> QED BY <1>1, <1>2, <1>3, <1>4

LEMMA StepTypes ==
  ASSUME Types, Places, Sizes, NEW c \in Conns, Step(c)
  PROVE  Types' /\ Places'
<1>1. Op \in [Conns -> Ops] /\ c \in Conns
  OBVIOUS
<1> USE DEF PCs, Replies, Changing
<1>2. CASE Forward(c)
  <2>1. UNCHANGED <<job, written, requests>> /\ Op[c] \in {"ADDACCESS", "REMACCESS"}
    BY <1>2 DEF Forward
  <2>2. \/ Finish(c, "FILE_NOT_FOUND") \/ Finish(c, "NOT_OWNER") \/ Goto(c, "find")
    BY <1>2 DEF Forward
  <2> QED BY <2>1, <2>2, FinishTypes, GotoTypes
<1>3. ASSUME NEW t \in 0 .. MaxTime, RequestAccess(c, t)
      PROVE  Types' /\ Places'
  <2>1. RequestAnswer(c) \in Replies /\ "done" \in PCs \ {"start"}
    BY DEF RequestAnswer
  <2>2. requests' \in Seq(Request)
    <3>1. requests \in Seq(Request)
      BY DEF Types
    <3>2. CASE RequestAnswer(c) # "SUCCESS"
      BY <1>3, <3>1, <3>2 DEF RequestAccess
    <3>3. CASE RequestAnswer(c) = "SUCCESS"
      <4> DEFINE r == [request_id |-> <<FileOf[c], UserOf[c], t>>,
                       filename |-> FileOf[c], requester |-> UserOf[c],
                       owner |-> OwnerOf[FileOf[c]], access_type |-> AccessOf[c],
                       request_time |-> t, status |-> "pending"]
      <4>1. Listed(c)
        BY <3>3 DEF RequestAnswer
      <4>2. r \in Request
        BY <4>1 DEF Listed, Request
      <4>3. requests' = Append(requests, r)
        BY <1>3, <3>3 DEF RequestAccess
      <4> HIDE DEF r
      <4> QED BY <3>1, <4>2, <4>3, AppendProperties
    <3> QED BY <3>2, <3>3
  <2>3. /\ written' \in [Conns -> 0 .. MaxEntries]
        /\ job' \in [Conns -> [file : Files, user : Users, access : Access]]
    BY <1>3 DEF RequestAccess, Types
  <2>4. pc' = [pc EXCEPT ![c] = "done"] /\ reply' = [reply EXCEPT ![c] = RequestAnswer(c)]
    BY <1>3 DEF RequestAccess, Finish
  <2> QED BY <2>1, <2>2, <2>3, <2>4, MoveTypes
<1>4. ASSUME NEW id, RefuseDecision(c, id)
      PROVE  Types' /\ Places'
  <2>1. DecisionAnswer(c, FoundRequest(id)) \in Replies
    BY DEF DecisionAnswer
  <2>2. UNCHANGED <<job, written, requests>> /\ Finish(c, DecisionAnswer(c, FoundRequest(id)))
    BY <1>4 DEF RefuseDecision
  <2> QED BY <2>1, <2>2, FinishTypes
<1>5. ASSUME NEW id, Approve(c, id)
      PROVE  Types' /\ Places'
  <2>1. PICK i : i = FoundRequest(id)
    OBVIOUS
  <2>2. /\ i \in DOMAIN requests /\ requests[i] \in Request
        /\ requests' = [requests EXCEPT ![i].status = "approved"]
    BY <1>5, <2>1, FoundTypes DEF Approve
  <2>3. requests' \in Seq(Request)
    BY <2>2, Decided
  <2> DEFINE task == [file |-> requests[i].filename, user |-> requests[i].requester,
                      access |-> requests[i].access_type]
  <2>4. task \in [file : Files, user : Users, access : Access]
    BY <2>2 DEF Request
  <2>5. job' = [job EXCEPT ![c] = task]
    BY <1>5, <2>1 DEF Approve
  <2> HIDE DEF task
  <2>6. /\ job' \in [Conns -> [file : Files, user : Users, access : Access]]
        /\ written' \in [Conns -> 0 .. MaxEntries] /\ reply[c] \in Replies
        /\ reply' = [reply EXCEPT ![c] = reply[c]] /\ pc' = [pc EXCEPT ![c] = "find"]
        /\ Op[c] = "APPROVE"
    BY <1>5, <2>4, <2>5 DEF Types, Approve, Goto
  <2> QED BY <2>3, <2>6, MoveTypes
<1>6. ASSUME NEW id, Reject(c, id)
      PROVE  Types' /\ Places'
  <2>1. PICK i : i = FoundRequest(id)
    OBVIOUS
  <2>2. /\ i \in DOMAIN requests /\ requests' = [requests EXCEPT ![i].status = "rejected"]
    BY <1>6, <2>1, FoundTypes DEF Reject
  <2>3. requests' \in Seq(Request)
    BY <2>2, Decided
  <2>4. /\ job' \in [Conns -> [file : Files, user : Users, access : Access]]
        /\ written' \in [Conns -> 0 .. MaxEntries]
        /\ reply' = [reply EXCEPT ![c] = "SUCCESS"] /\ pc' = [pc EXCEPT ![c] = "done"]
    BY <1>6 DEF Types, Reject, Finish
  <2> QED BY <2>3, <2>4, MoveTypes
<1>7. CASE CallFails(c)
  <2>1. /\ UNCHANGED <<job, written, requests>>
        /\ Finish(c, "SUCCESS") \/ Finish(c, "CONNECTION_FAILED")
    BY <1>7 DEF CallFails
  <2> QED BY <2>1, FinishTypes
<1>8. CASE CallLost(c)
  BY <1>8, FinishTypes DEF CallLost
<1>9. CASE FindMetadata(c)
  <2>1. UNCHANGED <<job, written, requests>>
    BY <1>9 DEF FindMetadata
  <2>2. \/ Op[c] = "CREATE" /\ Goto(c, "create")
        \/ Op[c] = "DELETE" /\ Goto(c, "unlink")
        \/ Changes(c) /\ Goto(c, "change")
        \/ Checks(c) /\ Goto(c, "owner")
        \/ Finish(c, "SUCCESS")
        \/ Finish(c, "refused")
    BY <1>9 DEF FindMetadata
  <2> QED BY <2>1, <2>2, FinishTypes, GotoTypes DEF Changes, Checks
<1>10. CASE CreateEntry(c)
  <2>1. /\ UNCHANGED <<job, written, requests>> /\ Op[c] # "REJECT"
        /\ Finish(c, "SERVER_ERROR") \/ Goto(c, "save_open")
    BY <1>10 DEF CreateEntry, Places
  <2> QED BY <2>1, FinishTypes, GotoTypes
<1>11. CASE Unlink(c)
  <2>1. /\ UNCHANGED <<job, written, requests>> /\ Op[c] = "DELETE"
        /\ Finish(c, "FILE_NOT_FOUND") \/ Goto(c, "remove")
    BY <1>11 DEF Unlink, Places
  <2> QED BY <2>1, FinishTypes, GotoTypes
<1>12. CASE RemoveEntry(c)
  BY <1>12, GotoTypes DEF RemoveEntry, Places
<1>13. CASE SaveOpen(c)
  BY <1>13, GotoTypes DEF SaveOpen, Places
<1>14. CASE SaveWrite(c)
  <2>1. Len(InUse) \in 0 .. MaxEntries
    BY DEF InUse, Sizes
  <2>2. /\ written' = [written EXCEPT ![c] = Len(InUse)] /\ UNCHANGED <<requests, job>>
        /\ reply' = [reply EXCEPT ![c] = reply[c]] /\ pc' = [pc EXCEPT ![c] = "save_close"]
        /\ Op[c] # "REJECT" /\ reply[c] \in Replies
    BY <1>14 DEF SaveWrite, Goto, Places, Types
  <2>3. written' \in [Conns -> 0 .. MaxEntries]
    BY <2>1, <2>2 DEF Types
  <2>4. /\ job' \in [Conns -> [file : Files, user : Users, access : Access]]
        /\ requests' \in Seq(Request)
    BY <2>2 DEF Types
  <2> QED BY <2>2, <2>3, <2>4, MoveTypes
<1>15. CASE SaveClose(c)
  BY <1>15, FinishTypes DEF SaveClose
<1>16. CASE DropAccess(c)
  <2>1. /\ UNCHANGED <<job, written, requests>> /\ Op[c] # "REJECT"
        /\ Goto(c, "invalidate") \/ Goto(c, "append")
    BY <1>16 DEF DropAccess, Places
  <2> QED BY <2>1, GotoTypes
<1>17. CASE AppendAccess(c)
  BY <1>17, GotoTypes DEF AppendAccess, Places
<1>18. CASE Invalidate(c)
  BY <1>18, GotoTypes DEF Invalidate, Places
<1>19. CASE CheckOwner(c)
  <2>1. /\ UNCHANGED <<job, written, requests>> /\ Op[c] # "REJECT" /\ Op[c] # "APPROVE"
        /\ Finish(c, "granted") \/ Goto(c, "lookup")
    BY <1>19 DEF CheckOwner, Places
  <2> QED BY <2>1, FinishTypes, GotoTypes
<1>20. CASE Lookup(c)
  <2>1. /\ UNCHANGED <<job, written, requests>> /\ Op[c] # "REJECT" /\ Op[c] # "APPROVE"
        /\ Finish(c, "granted") \/ Goto(c, "rebuild")
    BY <1>20 DEF Lookup, Places
  <2> QED BY <2>1, FinishTypes, GotoTypes
<1>21. CASE Rebuild(c)
  BY <1>21, GotoTypes DEF Rebuild, Places
<1>22. CASE Relookup(c)
  <2>1. /\ UNCHANGED <<job, written, requests>>
        /\ Finish(c, "granted") \/ Finish(c, "refused")
    BY <1>22 DEF Relookup
  <2> QED BY <2>1, FinishTypes
<1> QED
  BY <1>2, <1>3, <1>4, <1>5, <1>6, <1>7, <1>8, <1>9, <1>10, <1>11, <1>12, <1>13, <1>14, <1>15,
     <1>16, <1>17, <1>18, <1>19, <1>20, <1>21, <1>22 DEF Step, NameServerStep, StorageStep
-----------------------------------------------------------------------------
(***************************************************************************)
(* Requests for access.                                                    *)
(***************************************************************************)
DecidedRequests == {i \in DOMAIN requests : requests[i].status # "pending"}

\* The steps after the decision keep it: what an accepted APPROVE is told is success.
LEMMA StaysAccepted ==
  ASSUME Types, Places, NEW c \in Conns, StorageStep(c) \/ CallFails(c) \/ CallLost(c) \/ Forward(c),
         Op[c] \in {"APPROVE", "REJECT"}
  PROVE  /\ pc[c] \notin {"start", "done"}
         /\ pc'[c] \notin {"start", "done"} \/ reply'[c] = "SUCCESS"
<1>1. pc \in [Conns -> PCs] /\ reply \in [Conns -> Replies]
  BY DEF Types
<1>2. pc[c] \in Changing /\ (Op[c] = "REJECT" => pc[c] \in {"start", "done"})
  BY DEF Places, Changing
<1>3. pc[c] \notin {"start", "done"}
  BY DEF StorageStep, FindMetadata, CreateEntry, Unlink, RemoveEntry, SaveOpen, SaveWrite,
     SaveClose, DropAccess, AppendAccess, Invalidate, CheckOwner, Lookup, Rebuild, Relookup,
     CallFails, CallLost, Forward
<1>4. Op[c] = "APPROVE"
  BY <1>2, <1>3
<1>5. \/ Finish(c, "SUCCESS")
      \/ \E label \in {"change", "append", "invalidate", "save_open", "save_write", "save_close"} :
           Goto(c, label)
  BY <1>2, <1>4 DEF StorageStep, FindMetadata, CreateEntry, Unlink, RemoveEntry, SaveOpen,
     SaveWrite, SaveClose, DropAccess, AppendAccess, Invalidate, CheckOwner, Lookup, Rebuild,
     Relookup, CallFails, CallLost, Forward, Changes, Checks, Changing
<1> QED BY <1>1, <1>3, <1>5 DEF Finish, Goto

\* A step of a connection does not touch the others.
LEMMA OthersStay ==
  ASSUME Types, NEW c \in Conns, Step(c)
  PROVE  \A d \in Conns \ {c} : pc'[d] = pc[d] /\ reply'[d] = reply[d]
<1>1. \/ \E answer : Finish(c, answer)
      \/ \E label : Goto(c, label)
  <2>1. CASE NameServerStep(c)
    BY <2>1 DEF NameServerStep, Forward, RequestAccess, RefuseDecision, Approve, Reject,
       CallFails, CallLost
  <2>2. CASE StorageStep(c)
    BY <2>2 DEF StorageStep, FindMetadata, CreateEntry, Unlink, RemoveEntry, SaveOpen, SaveWrite,
     SaveClose, DropAccess, AppendAccess, Invalidate, CheckOwner, Lookup, Rebuild, Relookup
  <2> QED BY <2>1, <2>2 DEF Step
<1> QED BY <1>1 DEF Finish, Goto, Types

\* Who is counted as accepted.
LEMMA AcceptedMembers ==
  ASSUME NEW c \in Conns, Op[c] \in {"APPROVE", "REJECT"}
  PROVE  c \in Accepted <=> reply[c] = "SUCCESS" \/ pc[c] \notin {"start", "done"}
BY DEF Accepted, Active, FirstStep

\* A step that decides nothing.
LEMMA NotDecided ==
  ASSUME RequestsConsistent, UNCHANGED requests, Accepted' = Accepted
  PROVE  RequestsConsistent'
BY DEF RequestsConsistent, OnePending, DecidedOnce

\* A step that decides request i.
LEMMA DecidedNow ==
  ASSUME Types, RequestsConsistent, NEW c \in Conns, NEW i \in DOMAIN requests,
         requests[i].status = "pending", NEW status \in {"approved", "rejected"},
         requests' = [requests EXCEPT ![i].status = status],
         c \notin Accepted, Accepted' = Accepted \cup {c}
  PROVE  RequestsConsistent'
<1>1. /\ requests' \in Seq(Request) /\ DOMAIN requests' = DOMAIN requests
      /\ requests'[i].status = status
      /\ requests'[i].filename = requests[i].filename
      /\ requests'[i].requester = requests[i].requester
      /\ \A j \in DOMAIN requests \ {i} : requests'[j] = requests[j]
  BY Decided
<1>2. OnePending'
  <2>1. \A j \in DOMAIN requests : requests'[j].status = "pending" =>
          j # i /\ requests'[j] = requests[j]
    BY <1>1
  <2> QED BY <1>1, <2>1 DEF RequestsConsistent, OnePending
<1>3. DecidedRequests' = DecidedRequests \cup {i} /\ i \notin DecidedRequests
  BY <1>1 DEF DecidedRequests
<1>4. IsFiniteSet(DecidedRequests) /\ IsFiniteSet(Accepted)
  <2>1. requests \in Seq(Request)
    BY DEF Types
  <2>2. Len(requests) \in Nat /\ DOMAIN requests = 1 .. Len(requests)
    BY <2>1
  <2>3. IsFiniteSet(DOMAIN requests)
    <3>1. PICK n \in Nat : n = Len(requests)
      BY <2>2
    <3>2. 1 \in Int /\ n \in Int
      BY <3>1
    <3>3. IsFiniteSet(1 .. n)
      BY <3>2, FS_Interval
    <3> QED BY <2>2, <3>1, <3>3
  <2> QED BY <2>3, FS_Subset DEF DecidedRequests, Accepted
<1>5. /\ Cardinality(DecidedRequests \cup {i}) = Cardinality(DecidedRequests) + 1
      /\ Cardinality(Accepted \cup {c}) = Cardinality(Accepted) + 1
  BY <1>3, <1>4, FS_AddElement
<1>6. DecidedOnce'
  BY <1>3, <1>5 DEF DecidedRequests, RequestsConsistent, DecidedOnce
<1> QED BY <1>2, <1>6 DEF RequestsConsistent

LEMMA StepRequests ==
  ASSUME Types, Places, RequestsConsistent, NEW c \in Conns, Step(c)
  PROVE  RequestsConsistent'
<1>1. /\ \A d \in Conns \ {c} : pc'[d] = pc[d] /\ reply'[d] = reply[d]
      /\ pc \in [Conns -> PCs] /\ reply \in [Conns -> Replies]
  BY OthersStay DEF Types
<1>2. \A d \in Conns \ {c} : d \in Accepted' <=> d \in Accepted
  BY <1>1 DEF Accepted, Active, FirstStep
<1>3. Accepted \subseteq Conns /\ Accepted' \subseteq Conns
  BY DEF Accepted
<1>4. ASSUME UNCHANGED requests, c \in Accepted' <=> c \in Accepted
      PROVE  RequestsConsistent'
  <2>1. Accepted' = Accepted
    <3>1. \A d \in Conns : d \in Accepted' <=> d \in Accepted
      BY <1>2, <1>4
    <3> QED BY <1>3, <3>1
  <2> QED BY <1>4, <2>1, NotDecided
<1>5. Op[c] \notin {"APPROVE", "REJECT"} => c \notin Accepted' /\ c \notin Accepted
  BY DEF Accepted
<1>6. Op[c] \in {"APPROVE", "REJECT"} =>
        /\ c \in Accepted <=> reply[c] = "SUCCESS" \/ pc[c] \notin {"start", "done"}
        /\ c \in Accepted' <=> reply'[c] = "SUCCESS" \/ pc'[c] \notin {"start", "done"}
  BY DEF Accepted, Active, FirstStep
<1>7. CASE StorageStep(c) \/ CallFails(c) \/ CallLost(c) \/ Forward(c)
  <2>1. UNCHANGED requests
    BY <1>7 DEF StorageStep, FindMetadata, CreateEntry, Unlink, RemoveEntry, SaveOpen, SaveWrite,
     SaveClose, DropAccess, AppendAccess, Invalidate, CheckOwner, Lookup, Rebuild, Relookup,
     CallFails, CallLost, Forward
  <2>2. c \in Accepted' <=> c \in Accepted
    BY <1>5, <1>6, <1>7, StaysAccepted
  <2> QED BY <1>4, <2>1, <2>2
<1>8. ASSUME NEW t, RequestAccess(c, t)
      PROVE  RequestsConsistent'
  <2>1. c \notin Accepted' /\ c \notin Accepted
    BY <1>5, <1>8 DEF RequestAccess
  <2>2. CASE RequestAnswer(c) # "SUCCESS"
    BY <1>4, <1>8, <2>1, <2>2 DEF RequestAccess
  <2>3. CASE RequestAnswer(c) = "SUCCESS"
    <3>1. PICK r : /\ requests' = Append(requests, r) /\ r.status = "pending"
                   /\ r.filename = FileOf[c] /\ r.requester = UserOf[c]
      <4> DEFINE new == [request_id |-> <<FileOf[c], UserOf[c], t>>,
                         filename |-> FileOf[c], requester |-> UserOf[c],
                         owner |-> OwnerOf[FileOf[c]], access_type |-> AccessOf[c],
                         request_time |-> t, status |-> "pending"]
      <4>1. requests' = Append(requests, new)
        BY <1>8, <2>3 DEF RequestAccess
      <4>2. new.status = "pending" /\ new.filename = FileOf[c] /\ new.requester = UserOf[c]
        OBVIOUS
      <4> HIDE DEF new
      <4> QED BY <4>1, <4>2
    <3>2. ~AlreadyPending(FileOf[c], UserOf[c])
      BY <2>3 DEF RequestAnswer
    <3>3. PICK n : n = Len(requests)
      OBVIOUS
    <3>4. /\ n \in Nat /\ DOMAIN requests = 1 .. n /\ DOMAIN requests' = 1 .. n + 1
          /\ requests'[n + 1] = r /\ \A i \in 1 .. n : requests'[i] = requests[i]
      <4>1. requests \in Seq(Request)
        BY DEF Types
      <4>2. requests \in Seq(Request \cup {r}) /\ r \in Request \cup {r}
        BY <4>1, SeqMonotonic
      <4> QED BY <3>1, <3>3, <4>2, AppendProperties, LenProperties
    <3>5. /\ \A i \in 1 .. n + 1 : i = n + 1 \/ i \in 1 .. n
          /\ \A i \in 1 .. n : i \in 1 .. n + 1
      BY <3>4
    <3>6. OnePending'
      <4>1. \A i \in 1 .. n : ~(/\ requests[i].status = "pending" /\ requests[i].filename = FileOf[c]
                                /\ requests[i].requester = UserOf[c])
        BY <3>2, <3>4 DEF AlreadyPending
      <4>2. \A i, j \in 1 .. n :
              /\ requests[i].status = "pending" /\ requests[j].status = "pending"
              /\ requests[i].filename = requests[j].filename
              /\ requests[i].requester = requests[j].requester
              => i = j
        BY <3>4 DEF RequestsConsistent, OnePending
      <4>3. ASSUME NEW i \in 1 .. n + 1, NEW j \in 1 .. n + 1,
                   requests'[i].status = "pending", requests'[j].status = "pending",
                   requests'[i].filename = requests'[j].filename,
                   requests'[i].requester = requests'[j].requester
            PROVE  i = j
        BY <3>1, <3>4, <3>5, <4>1, <4>2, <4>3
      <4> QED BY <3>4, <4>3 DEF OnePending
    <3>7. DecidedRequests' = DecidedRequests
      BY <3>1, <3>4, <3>5 DEF DecidedRequests
    <3>8. Accepted' = Accepted
      <4>1. \A d \in Conns : d \in Accepted' <=> d \in Accepted
        BY <1>2, <2>1
      <4> QED BY <1>3, <4>1
    <3> QED BY <3>6, <3>7, <3>8 DEF RequestsConsistent, DecidedOnce, DecidedRequests
  <2> QED BY <2>2, <2>3
<1>9. ASSUME NEW id, RefuseDecision(c, id)
      PROVE  RequestsConsistent'
  <2>1. /\ UNCHANGED requests /\ pc[c] = "start" /\ Op[c] \in {"APPROVE", "REJECT"}
        /\ pc'[c] = "done" /\ reply'[c] # "SUCCESS"
    BY <1>1, <1>9 DEF RefuseDecision, Finish
  <2>2. reply[c] = "none"
    BY <2>1 DEF Places
  <2> QED BY <1>4, <1>6, <2>1, <2>2
<1>10. ASSUME NEW id, NEW status \in {"approved", "rejected"},
              DecisionAnswer(c, FoundRequest(id)) = "SUCCESS",
              requests' = [requests EXCEPT ![FoundRequest(id)].status = status],
              Op[c] \in {"APPROVE", "REJECT"}, pc[c] = "start",
              pc'[c] \notin {"start", "done"} \/ reply'[c] = "SUCCESS"
       PROVE  RequestsConsistent'
  <2>1. c \notin Accepted /\ c \in Accepted'
    BY <1>6, <1>10 DEF Places
  <2>2. Accepted' = Accepted \cup {c}
    BY <1>2, <1>3, <2>1
  <2>3. PICK i \in DOMAIN requests : i = FoundRequest(id) /\ requests[i].status = "pending"
    BY <1>10, FoundTypes
  <2>4. requests' = [requests EXCEPT ![i].status = status]
    BY <1>10, <2>3
  <2> QED BY <2>1, <2>2, <2>3, <2>4, DecidedNow
<1>11. ASSUME NEW id, Approve(c, id)
       PROVE  RequestsConsistent'
  <2>1. /\ DecisionAnswer(c, FoundRequest(id)) = "SUCCESS" /\ Op[c] = "APPROVE" /\ pc[c] = "start"
        /\ requests' = [requests EXCEPT ![FoundRequest(id)].status = "approved"]
        /\ pc'[c] = "find"
    BY <1>1, <1>11 DEF Approve, Goto
  <2> QED BY <1>10, <2>1
<1>12. ASSUME NEW id, Reject(c, id)
       PROVE  RequestsConsistent'
  <2>1. /\ DecisionAnswer(c, FoundRequest(id)) = "SUCCESS" /\ Op[c] = "REJECT" /\ pc[c] = "start"
        /\ requests' = [requests EXCEPT ![FoundRequest(id)].status = "rejected"]
        /\ reply'[c] = "SUCCESS"
    BY <1>1, <1>12 DEF Reject, Finish
  <2> QED BY <1>10, <2>1
<1> QED BY <1>7, <1>8, <1>9, <1>11, <1>12 DEF Step, NameServerStep
-----------------------------------------------------------------------------
(***************************************************************************)
(* The list and its file.                                                  *)
(***************************************************************************)

\* The entry that CREATE adds.
NewEntry(c) == [filename |-> job[c].file, owner |-> UserOf[c],
                acl |-> <<[name |-> UserOf[c], type |-> "RW"]>>]

\* create_file_ll writes the first unused entry.
LEMMA EntryAdded ==
  ASSUME Sizes, NEW c, CreateEntry(c), ~Full
  PROVE  /\ list' = [i \in 1 .. MaxEntries |-> IF i = count + 1 THEN NewEntry(c) ELSE list[i]]
         /\ count' = count + 1 /\ count' \in 1 .. MaxEntries
         /\ stored' = stored \cup {job[c].file} /\ Goto(c, "save_open")
         /\ UNCHANGED <<mfile, mlen>>
<1>1. /\ list' = [i \in DOMAIN list \cup {count + 1} |->
                    IF i = count + 1 THEN NewEntry(c) ELSE list[i]]
      /\ count' = count + 1 /\ stored' = stored \cup {job[c].file} /\ Goto(c, "save_open")
      /\ UNCHANGED <<mfile, mlen>>
  BY DEF CreateEntry, NewEntry
<1>2. count + 1 \in 1 .. MaxEntries /\ DOMAIN list = 1 .. MaxEntries
  BY DEF Sizes, Full
<1>3. (1 .. MaxEntries) \cup {count + 1} = 1 .. MaxEntries
  BY <1>2
<1> QED BY <1>1, <1>2, <1>3

\* The larger of two numbers.
LEMMA MaxOfTwo ==
  ASSUME NEW a \in Int, NEW b \in Int
  PROVE  Max({a, b}) = IF a >= b THEN a ELSE b
BY DEF Max

\* What is saved is the list in use.
LEMMA InUseIs ==
  ASSUME Sizes
  PROVE  /\ InUse \in Seq(Range(list)) /\ Len(InUse) = count
         /\ \A i \in 1 .. count : InUse[i] = list[i]
<1>1. count \in Nat /\ \A i \in 1 .. count : list[i] \in Range(list)
  BY DEF Sizes, Range
<1> QED BY <1>1, SubSeqProperties DEF InUse

\* A sequence that a part of another follows.
LEMMA Continued ==
  ASSUME NEW T, NEW s \in Seq(T), NEW t \in Seq(T), NEW n \in Nat, n <= Len(t),
         NEW u, u = SubSeq(t, Len(s) + 1, n), NEW r, r = s \o u
  PROVE  /\ r \in Seq(T)
         /\ Len(s) >= n => Len(r) = Len(s)
         /\ Len(s) < n => Len(r) = n
         /\ \A i \in 1 .. Len(s) : r[i] = s[i]
<1>1. s \in Seq(T) /\ t \in Seq(T) /\ Len(s) \in Nat /\ Len(t) \in Nat
  BY LenProperties
<1>2. \A i \in Len(s) + 1 .. n : t[i] \in T
  BY <1>1
<1>3. u \in Seq(T) /\ Len(u) = IF Len(s) + 1 <= n THEN n - (Len(s) + 1) + 1 ELSE 0
  BY <1>1, <1>2, SubSeqProperties
<1>4. /\ r \in Seq(T) /\ Len(r) = Len(s) + Len(u)
      /\ \A i \in 1 .. Len(s) : r[i] = s[i]
  <2>1. /\ r \in Seq(T) /\ Len(r) = Len(s) + Len(u)
        /\ \A i \in 1 .. Len(s) + Len(u) : r[i] = IF i <= Len(s) THEN s[i] ELSE u[i - Len(s)]
    <3>1. s \in Seq(T) /\ u \in Seq(T)
      BY <1>1, <1>3
    <3>2. /\ s \o u \in Seq(T) /\ Len(s \o u) = Len(s) + Len(u)
          /\ \A i \in 1 .. Len(s) + Len(u) :
               (s \o u)[i] = IF i <= Len(s) THEN s[i] ELSE u[i - Len(s)]
      BY <3>1, ConcatProperties
    <3> QED BY <3>2
  <2>2. \A i \in 1 .. Len(s) : i \in 1 .. Len(s) + Len(u) /\ i <= Len(s)
    BY <1>1, <1>3, LenProperties
  <2> QED BY <2>1, <2>2
<1>5. (Len(s) >= n => Len(r) = Len(s)) /\ (Len(s) < n => Len(r) = n)
  BY SMTT(30), <1>1, <1>3, <1>4
<1> QED BY <1>4, <1>5

LEMMA StepSizes ==
  ASSUME Types, Sizes, EntryLeft, NEW c \in Conns, Step(c)
  PROVE  Sizes'
<1>1. /\ count \in Nat /\ count <= MaxEntries /\ MaxEntries \in Nat /\ DOMAIN list = 1 .. MaxEntries
      /\ list = [i \in 1 .. MaxEntries |-> list[i]]
      /\ mfile \in Seq(Range(mfile)) /\ Len(mfile) \in Nat /\ Len(mfile) <= MaxEntries
      /\ mlen \in Nat /\ mlen <= Len(mfile)
  <2>1. mfile \in Seq(Range(mfile))
    BY DEF Sizes
  <2> QED BY <2>1, LenProperties DEF Sizes
<1>2. CASE UNCHANGED <<list, count, mfile, mlen>>
  BY <1>2 DEF Sizes
<1>3. CASE CreateEntry(c) /\ ~Full
  <2>1. /\ list' = [i \in 1 .. MaxEntries |-> IF i = count + 1 THEN NewEntry(c) ELSE list[i]]
        /\ count' = count + 1 /\ count' \in 1 .. MaxEntries /\ UNCHANGED <<mfile, mlen>>
    BY <1>3, EntryAdded
  <2>2. list' = [i \in 1 .. MaxEntries |-> list'[i]]
    BY <2>1
  <2>3. count' \in 0 .. MaxEntries
    BY <2>1
  <2> QED BY <2>1, <2>2, <2>3 DEF Sizes
<1>4. CASE RemoveEntry(c)
  <2>1. /\ list' = [i \in DOMAIN list |->
                IF ptr[c] <= i /\ i < count THEN list[i + 1] ELSE list[i]]
        /\ count' = count - 1 /\ UNCHANGED <<mfile, mlen>> /\ pc[c] = "remove"
    BY <1>4 DEF RemoveEntry
  <2>2. count >= 1
    <3>1. c \in Removers
      BY <2>1 DEF Removers
    <3>2. IsFiniteSet(Removers) /\ IsFiniteSet(Deletable)
      BY FS_Subset DEF Removers, Deletable, EntryLeft
    <3>3. Cardinality(Removers) \in Nat \ {0} /\ Cardinality(Deletable) \in Nat
      BY <3>1, <3>2, FS_CardinalityType, FS_EmptySet
    <3> QED BY <1>1, <3>3 DEF EntryLeft
  <2>3. count' \in 0 .. MaxEntries
    BY <1>1, <2>1, <2>2
  <2>4. list' = [i \in 1 .. MaxEntries |-> list'[i]]
    BY <1>1, <2>1
  <2> QED BY <2>1, <2>3, <2>4 DEF Sizes
<1>5. CASE SaveOpen(c)
  <2>1. UNCHANGED <<list, count>> /\ mfile' = <<>> /\ mlen' = 0
    BY <1>5 DEF SaveOpen
  <2>2. mfile' \in Seq(Range(mfile')) /\ Len(mfile') = 0
    BY <2>1, EmptySeq
  <2>3. 0 \in 0 .. 0 /\ 0 <= MaxEntries
    BY <1>1
  <2> QED BY <2>1, <2>2, <2>3 DEF Sizes
<1>6. CASE SaveWrite(c)
  <2>1. /\ UNCHANGED <<list, count>> /\ mlen' = Max({mlen, Len(InUse) - 1})
        /\ mfile' = InUse \o SubSeq(mfile, Len(InUse) + 1, Len(mfile))
    BY <1>6 DEF SaveWrite
  <2>2. InUse \in Seq(Range(InUse)) /\ Len(InUse) = count
    BY InUseIs, SeqOfRange
  <2>3. /\ mfile' \in Seq(Range(mfile'))
        /\ Len(mfile') = IF Len(InUse) >= Len(mfile) THEN Len(InUse) ELSE Len(mfile)
    <3>1. PICK s, t, n, r, T : /\ s = InUse /\ t = mfile /\ n = Len(mfile) /\ r = mfile'
                               /\ T = Range(InUse) \cup Range(mfile)
      OBVIOUS
    <3>2. s \in Seq(T) /\ t \in Seq(T)
      BY <1>1, <2>2, <3>1, SeqMonotonic
    <3>3. n \in Nat /\ n <= Len(t)
      BY <1>1, <2>1, <3>1
    <3>4. PICK u : u = SubSeq(t, Len(s) + 1, n) /\ r = s \o u
      BY <2>1, <3>1
    <3>5. r \in Seq(T) /\ (Len(s) >= n => Len(r) = Len(s)) /\ (Len(s) < n => Len(r) = n)
      BY <3>2, <3>3, <3>4, Continued
    <3> QED BY <1>1, <2>2, <3>1, <3>5, SeqOfRange
  <2>4. mlen' = IF mlen >= count - 1 THEN mlen ELSE count - 1
    <3>1. count - 1 \in Int /\ mlen \in Int
      BY <1>1
    <3> QED BY <2>1, <2>2, <3>1, MaxOfTwo
  <2>5. Len(mfile') <= MaxEntries /\ mlen' \in 0 .. Len(mfile')
    BY <1>1, <2>2, <2>3, <2>4
  <2> QED BY <2>1, <2>3, <2>5 DEF Sizes
<1>7. CASE SaveClose(c)
  <2>1. /\ UNCHANGED <<list, count>> /\ mlen' = Max({mlen, written[c]})
        /\ mfile' = [i \in 1 .. Max({Len(mfile), written[c]}) |->
                       IF i <= Len(mfile) THEN mfile[i] ELSE Blank]
    BY <1>7 DEF SaveClose
  <2>2. written[c] \in Nat /\ written[c] <= MaxEntries
    BY DEF Types
  <2>3. PICK n : n = Max({Len(mfile), written[c]})
    OBVIOUS
  <2>4. /\ n = IF Len(mfile) >= written[c] THEN Len(mfile) ELSE written[c]
        /\ mlen' = IF mlen >= written[c] THEN mlen ELSE written[c]
    <3>1. Len(mfile) \in Int /\ written[c] \in Int /\ mlen \in Int
      BY <1>1, <2>2
    <3> QED BY <2>1, <2>3, <3>1, MaxOfTwo
  <2>5. n \in Nat /\ n <= MaxEntries /\ mlen' \in 0 .. n
    BY <1>1, <2>2, <2>4
  <2>6. mfile' \in Seq(Range(mfile')) /\ Len(mfile') = n
    <3> DEFINE T == Range(mfile) \cup {Blank}
    <3>1. \A i \in 1 .. n : (IF i <= Len(mfile) THEN mfile[i] ELSE Blank) \in T
      BY <1>1, <2>5
    <3>2. mfile' = [i \in 1 .. n |-> IF i <= Len(mfile) THEN mfile[i] ELSE Blank]
      BY <2>1, <2>3
    <3> HIDE DEF T
    <3>3. mfile' \in [1 .. n -> T]
      BY <3>1, <3>2
    <3>4. mfile' \in Seq(T)
      BY <2>5, <3>3, SeqDef
    <3>5. Len(mfile') = n
      BY <2>5, <3>3, <3>4
    <3> QED BY <3>4, <3>5, SeqOfRange
  <2> QED BY <2>1, <2>5, <2>6 DEF Sizes
<1>8. ASSUME NEW p, NEW acl, list' = [list EXCEPT ![p].acl = acl], UNCHANGED <<count, mfile, mlen>>
      PROVE  Sizes'
  <2>1. list' = [i \in 1 .. MaxEntries |-> list'[i]]
    BY <1>1, <1>8
  <2> QED BY <1>8, <2>1 DEF Sizes
<1>9. CASE DropAccess(c) \/ AppendAccess(c)
  <2>1. /\ \E p, acl : list' = [list EXCEPT ![p].acl = acl]
        /\ UNCHANGED <<count, mfile, mlen>>
    BY <1>9 DEF DropAccess, AppendAccess
  <2> QED BY <1>8, <2>1
<1>10. CASE NameServerStep(c)
  BY <1>2, <1>10 DEF NameServerStep, Forward, RequestAccess, RefuseDecision, Approve, Reject,
     CallFails, CallLost
<1>11. CASE StorageStep(c)
  BY <1>2, <1>3, <1>4, <1>5, <1>6, <1>7, <1>9, <1>11 DEF StorageStep, FindMetadata, CreateEntry,
     Unlink, Invalidate, CheckOwner, Lookup, Rebuild, Relookup
<1> QED BY <1>10, <1>11 DEF Step

\* Fewer files to delete and fewer threads that remove an entry.
LEMMA EntryKept ==
  ASSUME EntryLeft, count \in Nat, count' = count, IsFiniteSet(stored'),
         Deletable' \subseteq Deletable, Removers' \subseteq Removers
  PROVE  EntryLeft'
<1>1. IsFiniteSet(Deletable) /\ IsFiniteSet(Removers)
  BY FS_Subset DEF EntryLeft, Deletable, Removers
<1>2. PICK a, b, d, e : a = Deletable /\ b = Removers /\ d = Deletable' /\ e = Removers'
  OBVIOUS
<1>3. /\ IsFiniteSet(a) /\ IsFiniteSet(b) /\ d \in SUBSET a /\ e \in SUBSET b
      /\ Cardinality(a) + Cardinality(b) <= count
  BY <1>1, <1>2 DEF EntryLeft
<1>4. /\ Cardinality(d) <= Cardinality(a) /\ Cardinality(e) <= Cardinality(b)
      /\ IsFiniteSet(d) /\ IsFiniteSet(e)
  BY <1>3, FS_Subset
<1>5. {Cardinality(a), Cardinality(b), Cardinality(d), Cardinality(e)} \subseteq Nat
  BY <1>3, <1>4, FS_CardinalityType
<1>6. Cardinality(d) + Cardinality(e) <= count
  BY <1>3, <1>4, <1>5
<1> QED BY <1>2, <1>6 DEF EntryLeft

LEMMA StepEntries ==
  ASSUME Types, Types', Places, Sizes, EntryLeft, NEW c \in Conns, Step(c)
  PROVE  EntryLeft'
<1>1. /\ \A d \in Conns \ {c} : pc'[d] = pc[d]
      /\ pc \in [Conns -> PCs] /\ reply \in [Conns -> Replies]
      /\ job \in [Conns -> [file : Files, user : Users, access : Access]]
      /\ count \in Nat /\ MaxEntries \in Nat /\ count <= MaxEntries
      /\ DOMAIN list = 1 .. MaxEntries
  BY OthersStay DEF Types, Sizes
<1>2. IsFiniteSet(stored) /\ IsFiniteSet(Deletable) /\ IsFiniteSet(Removers)
  BY FS_Subset DEF EntryLeft, Deletable, Removers
<1>3. Cardinality(Deletable) \in Nat /\ Cardinality(Removers) \in Nat
  BY <1>2, FS_CardinalityType
<1>4. \/ UNCHANGED job
      \/ pc[c] = "start" /\ \A d \in Conns \ {c} : job'[d] = job[d]
  <2>1. CASE \E id : Approve(c, id)
    <3>1. pc[c] = "start" /\ \E j : job' = [job EXCEPT ![c] = j]
      BY <2>1 DEF Approve
    <3> QED BY <1>1, <3>1
  <2>2. CASE StorageStep(c)
    BY <2>2 DEF StorageStep, FindMetadata, CreateEntry, Unlink, RemoveEntry, SaveOpen, SaveWrite,
       SaveClose, DropAccess, AppendAccess, Invalidate, CheckOwner, Lookup, Rebuild, Relookup
  <2>3. CASE NameServerStep(c) /\ ~\E id : Approve(c, id)
    BY <2>3 DEF NameServerStep, Forward, RequestAccess, RefuseDecision, Reject, CallFails, CallLost
  <2> QED BY <2>1, <2>2, <2>3 DEF Step
<1>5. \A d \in Conns : pc'[d] = "unlink" /\ pc[d] = "unlink" => job'[d] = job[d]
  BY <1>4
<1>6. ASSUME pc'[c] \notin {"unlink", "remove"}, UNCHANGED <<count, stored>>,
             \A i \in 1 .. count : list'[i].filename = list[i].filename
      PROVE  EntryLeft'
  <2>1. \A f : EntriesOf(f)' = EntriesOf(f)
    BY <1>6 DEF EntriesOf
  <2>2. Deletable' \subseteq Deletable
    BY <1>1, <1>5, <1>6, <2>1 DEF Deletable
  <2>3. Removers' \subseteq Removers
    BY <1>1, <1>6 DEF Removers
  <2> QED BY <1>1, <1>2, <1>6, <2>2, <2>3, EntryKept
<1>7. ASSUME pc'[c] \notin {"unlink", "remove"}, UNCHANGED <<list, count, stored>>
      PROVE  EntryLeft'
  BY <1>6, <1>7
<1>8. CASE NameServerStep(c)
  <2>1. UNCHANGED <<list, count, stored>>
    BY <1>8 DEF NameServerStep, Forward, RequestAccess, RefuseDecision, Approve, Reject,
       CallFails, CallLost
  <2>2. \/ Goto(c, "find")
        \/ \E answer : Finish(c, answer)
    BY <1>8 DEF NameServerStep, Forward, RequestAccess, RefuseDecision, Approve, Reject,
       CallFails, CallLost
  <2>3. pc'[c] \in {"find", "done"}
    BY <1>1, <2>2 DEF Goto, Finish
  <2> QED BY <1>7, <2>1, <2>3
<1>9. CASE FindMetadata(c)
  <2>1. UNCHANGED <<list, count, stored, job>> /\ pc[c] = "find"
    BY <1>9 DEF FindMetadata
  <2>2. /\ pc'[c] \in {"create", "unlink", "change", "owner", "done"}
        /\ pc'[c] = "unlink" => EntriesOf(job[c].file) # {}
    BY <1>1, <1>9 DEF FindMetadata, Goto, Finish, EntriesOf
  <2>3. \A f : EntriesOf(f)' = EntriesOf(f)
    BY <2>1 DEF EntriesOf
  <2>4. Deletable' \subseteq Deletable
    BY <1>1, <2>1, <2>2, <2>3 DEF Deletable
  <2>5. Removers' \subseteq Removers
    BY <1>1, <2>2 DEF Removers
  <2> QED BY <1>1, <1>2, <2>1, <2>4, <2>5, EntryKept
<1>10. CASE CreateEntry(c)
  <2>1. CASE Full
    <3>1. UNCHANGED <<list, count, stored>> /\ pc'[c] = "done"
      BY <1>1, <1>10, <2>1 DEF CreateEntry, Finish
    <3> QED BY <1>7, <3>1
  <2>2. CASE ~Full
    <3>1. /\ list' = [i \in 1 .. MaxEntries |-> IF i = count + 1 THEN NewEntry(c) ELSE list[i]]
          /\ count' = count + 1 /\ count' \in 1 .. MaxEntries
          /\ stored' = stored \cup {job[c].file} /\ Goto(c, "save_open")
      BY <1>10, <2>2, EntryAdded
    <3>2. pc'[c] = "save_open" /\ NewEntry(c).filename = job[c].file
      BY <1>1, <3>1 DEF Goto, NewEntry
    <3>3. \A f : f # job[c].file /\ EntriesOf(f)' # {} => EntriesOf(f) # {}
      <4> SUFFICES ASSUME NEW f, f # job[c].file, NEW i \in EntriesOf(f)'
                   PROVE  i \in EntriesOf(f)
        OBVIOUS
      <4>1. i \in 1 .. count + 1 /\ list'[i].filename = f
        BY <3>1 DEF EntriesOf
      <4>2. i # count + 1
        BY <3>1, <3>2, <4>1
      <4>3. i \in 1 .. count /\ i \in 1 .. MaxEntries
        BY <1>1, <4>1, <4>2
      <4> QED BY <3>1, <4>1, <4>2, <4>3 DEF EntriesOf
    <3>4. Deletable' \subseteq Deletable \cup {job[c].file}
      BY <1>1, <1>5, <3>1, <3>2, <3>3 DEF Deletable
    <3>5. Removers' \subseteq Removers
      BY <1>1, <3>2 DEF Removers
    <3>6. PICK a, b, d, e : /\ a = Deletable \cup {job[c].file} /\ b = Removers
                            /\ d = Deletable' /\ e = Removers'
      OBVIOUS
    <3>7. IsFiniteSet(a) /\ Cardinality(a) <= Cardinality(Deletable) + 1 /\ IsFiniteSet(b)
      <4>1. Cardinality(Deletable) <= Cardinality(Deletable)
        BY <1>3
      <4> QED BY <1>2, <1>3, <3>6, <4>1, OneMore
    <3>8. /\ Cardinality(d) <= Cardinality(a) /\ Cardinality(e) <= Cardinality(b)
          /\ IsFiniteSet(d) /\ IsFiniteSet(e)
      <4>1. d \in SUBSET a /\ e \in SUBSET b
        BY <3>4, <3>5, <3>6
      <4> QED BY <3>7, <4>1, FS_Subset
    <3>9. {Cardinality(a), Cardinality(b), Cardinality(d), Cardinality(e)} \subseteq Nat
      BY <3>7, <3>8, FS_CardinalityType
    <3>10. Cardinality(d) + Cardinality(e) <= count + 1
      <4>1. Cardinality(Deletable) + Cardinality(b) <= count
        BY <3>6 DEF EntryLeft
      <4> QED BY <1>1, <1>3, <3>7, <3>8, <3>9, <4>1
    <3>11. IsFiniteSet(stored \cup {job[c].file})
      BY <1>2, FS_AddElement
    <3> QED BY <3>1, <3>6, <3>10, <3>11 DEF EntryLeft
  <2> QED BY <2>1, <2>2
<1>11. CASE Unlink(c)
  <2>1. /\ UNCHANGED <<list, count, job>> /\ pc[c] = "unlink"
        /\ stored' = stored \ {job[c].file}
    BY <1>11 DEF Unlink
  <2>2. \A f : EntriesOf(f)' = EntriesOf(f)
    BY <2>1 DEF EntriesOf
  <2>3. IsFiniteSet(stored')
    BY <1>2, <2>1, FS_RemoveElement
  <2>4. CASE job[c].file \notin stored
    <3>1. pc'[c] = "done"
      BY <1>1, <1>11, <2>4 DEF Unlink, Finish
    <3>2. Deletable' \subseteq Deletable
      BY <1>1, <2>1, <2>2, <3>1 DEF Deletable
    <3>3. Removers' \subseteq Removers
      BY <1>1, <3>1 DEF Removers
    <3> QED BY <1>1, <2>1, <2>3, <3>2, <3>3, EntryKept
  <2>5. CASE job[c].file \in stored
    <3>1. pc'[c] = "remove"
      BY <1>1, <1>11, <2>5 DEF Unlink, Goto
    <3>2. Deletable' \subseteq Deletable \ {job[c].file}
      BY <1>1, <2>1, <2>2, <3>1 DEF Deletable
    <3>3. job[c].file \in Deletable
      BY <2>1, <2>5 DEF Deletable
    <3>4. Removers' = Removers \cup {c} /\ c \notin Removers
      BY <1>1, <2>1, <3>1 DEF Removers
    <3>5. PICK a, d, e : /\ a = Deletable \ {job[c].file} /\ d = Deletable' /\ e = Removers'
      OBVIOUS
    <3>6. /\ IsFiniteSet(a) /\ Cardinality(a) = Cardinality(Deletable) - 1
          /\ IsFiniteSet(e) /\ Cardinality(e) = Cardinality(Removers) + 1
      <4>1. IsFiniteSet(a) /\ Cardinality(a) = Cardinality(Deletable) - 1
        <5>1. PICK u, f : u = Deletable /\ f = job[c].file
          OBVIOUS
        <5>2. IsFiniteSet(u) /\ f \in u
          BY <1>2, <3>3, <5>1
        <5>3. IsFiniteSet(u \ {f}) /\ Cardinality(u \ {f}) = Cardinality(u) - 1
          BY <5>2, FS_RemoveElement
        <5> QED BY <3>5, <5>1, <5>3
      <4>2. IsFiniteSet(e) /\ Cardinality(e) = Cardinality(Removers) + 1
        BY <1>2, <3>4, <3>5, FS_AddElement
      <4> QED BY <4>1, <4>2
    <3>7. IsFiniteSet(d) /\ Cardinality(d) <= Cardinality(a)
      <4>1. d \in SUBSET a
        BY <3>2, <3>5
      <4> QED BY <3>6, <4>1, FS_Subset
    <3>8. Cardinality(d) \in Nat
      BY <3>7, FS_CardinalityType
    <3>9. Cardinality(d) + Cardinality(e) <= count
      <4>1. Cardinality(Deletable) + Cardinality(Removers) <= count
        BY DEF EntryLeft
      <4> QED BY <1>1, <1>3, <3>6, <3>7, <3>8, <4>1
    <3> QED BY <2>1, <2>3, <3>5, <3>9 DEF EntryLeft
  <2> QED BY <2>4, <2>5
<1>12. CASE RemoveEntry(c)
  <2>1. /\ list' = [i \in DOMAIN list |->
                IF ptr[c] <= i /\ i < count THEN list[i + 1] ELSE list[i]]
        /\ count' = count - 1 /\ UNCHANGED <<stored, job>> /\ pc[c] = "remove"
        /\ pc'[c] = "save_open"
    BY <1>1, <1>12 DEF RemoveEntry, Goto
  <2>2. \A f : EntriesOf(f)' # {} => EntriesOf(f) # {}
    <3> SUFFICES ASSUME NEW f, NEW i \in EntriesOf(f)'
                 PROVE  i \in EntriesOf(f) \/ i + 1 \in EntriesOf(f)
      OBVIOUS
    <3>1. i \in 1 .. count - 1 /\ list'[i].filename = f
      BY <2>1 DEF EntriesOf
    <3>2. i \in 1 .. count /\ i + 1 \in 1 .. count /\ i \in DOMAIN list
      BY <1>1, <3>1
    <3>3. list'[i] = list[i] \/ list'[i] = list[i + 1]
      BY <2>1, <3>2
    <3> QED BY <3>1, <3>2, <3>3 DEF EntriesOf
  <2>3. Deletable' \subseteq Deletable
    BY <1>1, <2>1, <2>2 DEF Deletable
  <2>4. Removers' = Removers \ {c} /\ c \in Removers
    BY <1>1, <2>1 DEF Removers
  <2>5. PICK d, e : d = Deletable' /\ e = Removers'
    OBVIOUS
  <2>6. IsFiniteSet(e) /\ Cardinality(e) = Cardinality(Removers) - 1
    BY <1>2, <2>4, <2>5, FS_RemoveElement
  <2>7. IsFiniteSet(d) /\ Cardinality(d) <= Cardinality(Deletable)
    <3>1. d \in SUBSET Deletable
      BY <2>3, <2>5
    <3> QED BY <1>2, <3>1, FS_Subset
  <2>8. Cardinality(d) \in Nat
    BY <2>7, FS_CardinalityType
  <2>9. Cardinality(d) + Cardinality(e) <= count - 1
    <3>1. Cardinality(Deletable) + Cardinality(Removers) <= count
      BY DEF EntryLeft
    <3> QED BY <1>1, <1>3, <2>6, <2>7, <2>8, <3>1
  <2> QED BY <1>2, <2>1, <2>5, <2>9 DEF EntryLeft
<1>13. CASE DropAccess(c) \/ AppendAccess(c)
  <2>1. PICK p, acl : list' = [list EXCEPT ![p].acl = acl]
    BY <1>13 DEF DropAccess, AppendAccess
  <2>2. UNCHANGED <<count, stored>> /\ pc'[c] \in {"append", "invalidate"}
    BY <1>1, <1>13 DEF DropAccess, AppendAccess, Goto
  <2>3. \A i \in 1 .. count : list'[i].filename = list[i].filename
    <3> SUFFICES ASSUME NEW i \in 1 .. count PROVE list'[i].filename = list[i].filename
      OBVIOUS
    <3>1. i \in DOMAIN list
      BY <1>1
    <3>2. list'[i] = IF i = p THEN [list[i] EXCEPT !.acl = acl] ELSE list[i]
      BY <2>1, <3>1
    <3> QED BY <3>2
  <2> QED BY <1>6, <2>2, <2>3
<1>14. CASE SaveOpen(c) \/ SaveWrite(c) \/ SaveClose(c) \/ Invalidate(c) \/ CheckOwner(c)
            \/ Lookup(c) \/ Rebuild(c) \/ Relookup(c)
  <2>1. UNCHANGED <<list, count, stored>>
    BY <1>14 DEF SaveOpen, SaveWrite, SaveClose, Invalidate, CheckOwner, Lookup, Rebuild, Relookup
  <2>2. pc'[c] \notin {"unlink", "remove"}
    BY <1>1, <1>14 DEF SaveOpen, SaveWrite, SaveClose, Invalidate, CheckOwner, Lookup, Rebuild,
       Relookup, Goto, Finish
  <2> QED BY <1>7, <2>1, <2>2
<1> QED
  BY <1>8, <1>9, <1>10, <1>11, <1>12, <1>13, <1>14 DEF Step, StorageStep

\* Whoever changes the list goes on to save it, and whoever writes last writes all of it.
LEMMA StepSaved ==
  ASSUME Types, Types', Sizes, Sizes', Saved, NEW c \in Conns, Step(c)
  PROVE  Saved'
<1>1. /\ \A d \in Conns \ {c} : pc'[d] = pc[d]
      /\ pc \in [Conns -> PCs] /\ written \in [Conns -> 0 .. MaxEntries]
      /\ count \in Nat /\ MaxEntries \in Nat
      /\ mfile \in Seq(Range(mfile)) /\ Len(mfile) \in Nat /\ mlen \in Nat
  <2>1. mfile \in Seq(Range(mfile))
    BY DEF Sizes
  <2> QED BY SMTT(30), <2>1, OthersStay, LenProperties DEF Types, Sizes
<1>2. ASSUME pc'[c] \in Unsaved
      PROVE  Saved'
  BY <1>2 DEF Saved
<1>3. ASSUME UNCHANGED <<list, count, mfile, mlen, written>>, pc[c] \notin Unsaved,
             pc[c] # "save_close"
      PROVE  Saved'
  BY <1>1, <1>3 DEF Saved
<1>4. CASE NameServerStep(c)
  <2>1. UNCHANGED <<list, count, mfile, mlen, written>> /\ pc[c] \in {"start", "find"}
    BY <1>4 DEF NameServerStep, Forward, RequestAccess, RefuseDecision, Approve, Reject,
       CallFails, CallLost
  <2> QED BY <1>3, <2>1 DEF Unsaved
<1>5. CASE \/ FindMetadata(c)
           \/ CreateEntry(c) /\ Full
           \/ Unlink(c)
           \/ CheckOwner(c)
           \/ Lookup(c)
           \/ Rebuild(c)
           \/ Relookup(c)
  <2>1. UNCHANGED <<list, count, mfile, mlen, written>>
    BY <1>5 DEF FindMetadata, CreateEntry, Unlink, CheckOwner, Lookup, Rebuild, Relookup
  <2>2. pc[c] \in {"find", "create", "unlink", "owner", "lookup", "rebuild", "relookup"}
    BY <1>5 DEF FindMetadata, CreateEntry, Unlink, CheckOwner, Lookup, Rebuild, Relookup
  <2> QED BY <1>3, <2>1, <2>2 DEF Unsaved
<1>6. CASE \/ CreateEntry(c) /\ ~Full
           \/ RemoveEntry(c)
           \/ SaveOpen(c)
           \/ DropAccess(c)
           \/ AppendAccess(c)
           \/ Invalidate(c)
  <2>1. \E label \in Unsaved : Goto(c, label)
    BY <1>6 DEF CreateEntry, RemoveEntry, SaveOpen, DropAccess, AppendAccess, Invalidate, Unsaved
  <2> QED BY <1>1, <1>2, <2>1 DEF Goto
<1>7. CASE SaveWrite(c)
  <2>1. /\ mfile' = InUse \o SubSeq(mfile, Len(InUse) + 1, Len(mfile))
        /\ written' = [written EXCEPT ![c] = Len(InUse)] /\ UNCHANGED <<list, count>>
        /\ pc'[c] = "save_close"
    BY <1>1, <1>7 DEF SaveWrite, Goto
  <2>2. /\ InUse \in Seq(Range(list)) /\ Len(InUse) = count
        /\ \A i \in 1 .. count : InUse[i] = list[i]
    BY InUseIs
  <2>3. PICK s, t, n, r, T : /\ s = InUse /\ t = mfile /\ n = Len(mfile) /\ r = mfile'
                             /\ T = Range(list) \cup Range(mfile)
    OBVIOUS
  <2>4. s \in Seq(T) /\ t \in Seq(T) /\ n \in Nat /\ n <= Len(t)
    BY <1>1, <2>2, <2>3, SeqMonotonic
  <2>5. PICK u : u = SubSeq(t, Len(s) + 1, n) /\ r = s \o u
    BY <2>1, <2>3
  <2>6. /\ Len(s) >= n => Len(r) = Len(s)
        /\ Len(s) < n => Len(r) = n
        /\ \A i \in 1 .. Len(s) : r[i] = s[i]
    BY <2>4, <2>5, Continued
  <2>7. Len(mfile') >= count /\ \A i \in 1 .. count : mfile'[i] = list[i]
    <3>1. Len(s) = count /\ Len(r) >= count
      BY <1>1, <2>2, <2>3, <2>6
    <3>2. \A i \in 1 .. count : r[i] = s[i]
      BY <2>6, <3>1
    <3> QED BY <2>2, <2>3, <3>1, <3>2
  <2>8. pc'[c] = "save_close" /\ written'[c] >= count
    BY <1>1, <2>1, <2>2
  <2> QED BY <2>1, <2>7, <2>8 DEF Saved
<1>8. CASE SaveClose(c)
  <2>1. /\ mlen' = Max({mlen, written[c]}) /\ pc[c] = "save_close"
        /\ mfile' = [i \in 1 .. Max({Len(mfile), written[c]}) |->
                       IF i <= Len(mfile) THEN mfile[i] ELSE Blank]
        /\ UNCHANGED <<list, count, written>> /\ Finish(c, "SUCCESS")
    BY <1>8 DEF SaveClose
  <2>2. written[c] \in Nat
    BY <1>1
  <2>3. PICK n : n = Max({Len(mfile), written[c]})
    OBVIOUS
  <2>4. /\ n = IF Len(mfile) >= written[c] THEN Len(mfile) ELSE written[c]
        /\ mlen' = IF mlen >= written[c] THEN mlen ELSE written[c]
    <3>1. Len(mfile) \in Int /\ written[c] \in Int /\ mlen \in Int
      BY <1>1, <2>2
    <3> QED BY <2>1, <2>3, <3>1, MaxOfTwo
  <2>5. n \in Nat /\ n >= Len(mfile) /\ mlen' >= mlen /\ mlen' >= written[c]
    BY <1>1, <2>2, <2>4
  <2>6. mfile' = [i \in 1 .. n |-> IF i <= Len(mfile) THEN mfile[i] ELSE Blank]
    BY <2>1, <2>3
  <2>7. Len(mfile') = n
    <3>1. mfile' \in Seq(Range(mfile')) /\ DOMAIN mfile' = 1 .. n
      BY <2>6 DEF Sizes
    <3> QED BY <2>5, <3>1, LenProperties
  <2>8. pc'[c] = "done"
    BY <1>1, <2>1 DEF Finish
  <2>9. SUFFICES ASSUME \A d \in Conns : pc'[d] \notin Unsaved
                 PROVE  /\ Len(mfile') >= count /\ \A i \in 1 .. count : mfile'[i] = list[i]
                        /\ \/ mlen' >= count
                           \/ \E d \in Conns : pc'[d] = "save_close" /\ written[d] >= count
    BY <2>1 DEF Saved
  <2>10. \A d \in Conns : pc[d] \notin Unsaved
    BY <1>1, <2>1, <2>9 DEF Unsaved
  <2>11. /\ Len(mfile) >= count /\ \A i \in 1 .. count : mfile[i] = list[i]
         /\ \/ mlen >= count
            \/ \E d \in Conns : pc[d] = "save_close" /\ written[d] >= count
    BY <2>10 DEF Saved
  <2>12. Len(mfile') >= count /\ \A i \in 1 .. count : mfile'[i] = list[i]
    <3>1. \A i \in 1 .. count : i \in 1 .. n /\ i <= Len(mfile)
      BY <1>1, <2>5, <2>11
    <3>2. n >= count
      BY <1>1, <2>5, <2>11
    <3> QED BY <2>6, <2>7, <2>11, <3>1, <3>2
  <2>13. mlen' \in Nat
    BY <1>1, <2>2, <2>4
  <2>14. CASE mlen >= count
    BY <1>1, <2>5, <2>12, <2>13, <2>14
  <2>15. ASSUME NEW d \in Conns, pc[d] = "save_close", written[d] >= count
         PROVE  \/ mlen' >= count
                \/ \E e \in Conns : pc'[e] = "save_close" /\ written[e] >= count
    <3>1. CASE d = c
      BY <1>1, <2>2, <2>5, <2>13, <2>15, <3>1
    <3>2. CASE d # c
      BY <1>1, <2>15, <3>2
    <3> QED BY <3>1, <3>2
  <2> QED BY <2>11, <2>12, <2>14, <2>15
<1>9. CASE StorageStep(c)
  BY <1>5, <1>6, <1>7, <1>8, <1>9 DEF StorageStep
<1> QED BY <1>4, <1>9 DEF Step

\* The beginning of a sequence that a part of another follows.
LEMMA Spliced ==
  ASSUME NEW T, NEW s \in Seq(T), NEW t \in Seq(T), NEW n \in Nat, n <= Len(s),
         NEW m \in Nat, m <= Len(t)
  PROVE  /\ SubSeq(s, 1, n) \o SubSeq(t, n + 1, m) \in Seq(T)
         /\ \/ Len(SubSeq(s, 1, n) \o SubSeq(t, n + 1, m)) <= n
            \/ Len(SubSeq(s, 1, n) \o SubSeq(t, n + 1, m)) <= m
<1>1. PICK a, b : a = SubSeq(s, 1, n) /\ b = SubSeq(t, n + 1, m)
  OBVIOUS
<1>2. (\A i \in 1 .. n : s[i] \in T) /\ \A i \in n + 1 .. m : t[i] \in T
  <2>1. Len(s) \in Nat /\ Len(t) \in Nat
    BY LenProperties
  <2>2. (\A i \in 1 .. n : i \in 1 .. Len(s)) /\ \A i \in n + 1 .. m : i \in 1 .. Len(t)
    BY <2>1
  <2> QED BY <2>2
<1>3. a \in Seq(T) /\ Len(a) = n
  BY <1>1, <1>2, SubSeqProperties
<1>4. b \in Seq(T) /\ Len(b) = IF n + 1 <= m THEN m - (n + 1) + 1 ELSE 0
  BY <1>1, <1>2, SubSeqProperties
<1>5. a \o b \in Seq(T) /\ Len(a \o b) = Len(a) + Len(b)
  BY SMTT(30), <1>3, <1>4, ConcatProperties
<1>6. Len(a \o b) <= n \/ Len(a \o b) <= m
  BY <1>3, <1>4, <1>5
<1> QED BY <1>1, <1>5, <1>6

\* What a death leaves of the metadata file fits into metadata_list.
LEMMA LeavingsFit ==
  ASSUME Sizes, NEW left \in Leavings
  PROVE  left \in Seq(Range(left)) /\ Len(left) \in 0 .. MaxEntries
<1>1. /\ mfile \in Seq(Range(mfile)) /\ Len(mfile) \in Nat /\ Len(mfile) <= MaxEntries
      /\ mlen \in Nat /\ mlen <= Len(mfile) /\ count \in Nat /\ count <= MaxEntries
  <2>1. mfile \in Seq(Range(mfile))
    BY DEF Sizes
  <2> QED BY <2>1, LenProperties DEF Sizes
<1>2. CASE left = SubSeq(mfile, 1, mlen)
  <2>1. \A i \in 1 .. mlen : mfile[i] \in Range(mfile)
    <3>1. \A i \in 1 .. mlen : i \in 1 .. Len(mfile)
      BY <1>1
    <3> QED BY <1>1, <3>1
  <2>2. left \in Seq(Range(mfile)) /\ Len(left) = mlen
    BY <1>1, <1>2, <2>1, SubSeqProperties
  <2>3. Len(left) \in 0 .. MaxEntries
    BY <1>1, <2>2
  <2> QED BY <2>2, <2>3, SeqOfRange
<1>3. ASSUME NEW n \in 0 .. count - 1,
             left = SubSeq(InUse, 1, n) \o SubSeq(mfile, n + 1, mlen)
      PROVE  left \in Seq(Range(left)) /\ Len(left) \in 0 .. MaxEntries
  <2>1. InUse \in Seq(Range(list)) /\ Len(InUse) = count
    BY InUseIs
  <2>2. PICK s, t, m, T : /\ s = InUse /\ t = mfile /\ m = mlen
                          /\ T = Range(list) \cup Range(mfile)
    OBVIOUS
  <2>3. s \in Seq(T) /\ t \in Seq(T)
    BY <1>1, <2>1, <2>2, SeqMonotonic
  <2>4. n \in Nat /\ n <= Len(s) /\ m \in Nat /\ m <= Len(t)
    BY <1>1, <2>1, <2>2
  <2>5. left = SubSeq(s, 1, n) \o SubSeq(t, n + 1, m)
    BY <1>3, <2>2
  <2>6. Len(left) <= n \/ Len(left) <= m
    BY <2>3, <2>4, <2>5, Spliced
  <2>7. left \in Seq(T)
    BY <2>3, <2>4, <2>5, Spliced
  <2>8. Len(left) \in 0 .. MaxEntries
    BY <1>1, <2>1, <2>2, <2>4, <2>6, <2>7, LenProperties
  <2> QED BY <2>7, <2>8, SeqOfRange
<1> QED BY <1>2, <1>3 DEF Leavings

\* The storage server dies and comes back with what the file has.
LEMMA CrashInv ==
  ASSUME Inv, Crash
  PROVE  Inv'
<1>1. /\ Types /\ Places /\ Sizes /\ EntryLeft /\ RequestsConsistent
      /\ pc \in [Conns -> PCs] /\ reply \in [Conns -> Replies]
  BY DEF Inv, Types
<1>2. PICK left \in Leavings :
        /\ mfile' = left /\ mlen' = Len(left) /\ count' = Len(left)
        /\ list' = [i \in 1 .. MaxEntries |-> IF i <= Len(left) THEN left[i] ELSE Blank]
  BY DEF Crash
<1>3. left \in Seq(Range(left)) /\ Len(left) \in 0 .. MaxEntries
  BY <1>1, LeavingsFit
<1>4. PICK n \in Nat : n = Len(left)
  BY <1>3
<1>5. n <= MaxEntries
  BY <1>3, <1>4
<1> DEFINE hit == {c \in Conns : pc[c] \notin {"start", "find", "done"}}
<1>6. /\ \A c \in hit : /\ pc'[c] = "done"
                        /\ Changes(c) => reply'[c] = "SUCCESS"
                        /\ ~Changes(c) => reply'[c] = "lost"
      /\ \A c \in Conns \ hit : pc'[c] = pc[c] /\ reply'[c] = reply[c]
      /\ pc' = [c \in Conns |-> pc'[c]] /\ reply' = [c \in Conns |-> reply'[c]]
      /\ UNCHANGED <<stored, requests, job, ptr, written>>
  BY DEF Crash
<1>7. Types'
  <2>1. \A c \in Conns : pc'[c] \in PCs /\ reply'[c] \in Replies
    BY <1>1, <1>6 DEF PCs, Replies
  <2>2. pc' \in [Conns -> PCs] /\ reply' \in [Conns -> Replies]
    BY <1>6, <2>1
  <2> QED BY <1>1, <1>6, <2>2 DEF Types
<1>8. Places'
  BY <1>1, <1>6 DEF Places, Changing
<1>9. Sizes'
  <2>1. list' = [i \in 1 .. MaxEntries |-> list'[i]]
    BY <1>2
  <2>2. n \in 0 .. n
    OBVIOUS
  <2> QED BY <1>2, <1>3, <1>4, <1>5, <2>1, <2>2 DEF Sizes
<1>10. \A i \in 1 .. n : list'[i] = left[i]
  <2>1. \A i \in 1 .. n : i \in 1 .. MaxEntries /\ i <= n
    BY <1>5
  <2> QED BY <1>2, <1>4, <2>1
<1>11. Saved'
  <2>1. n >= n
    OBVIOUS
  <2> QED BY <1>2, <1>4, <1>10, <2>1 DEF Saved
<1>12. EntryLeft'
  <2> DEFINE name == [i \in 1 .. n |-> left[i].filename]
             S == 1 .. n
             names == {name[i] : i \in S}
  <2>1. Removers' = {}
    BY <1>6 DEF Removers
  <2>2. Deletable' \subseteq names
    <3>1. \A c \in Conns : pc'[c] # "unlink"
      BY <1>6
    <3>2. \A f : EntriesOf(f)' = {i \in 1 .. n : list'[i].filename = f}
      BY <1>2, <1>4 DEF EntriesOf
    <3>3. \A f : EntriesOf(f)' # {} => f \in names
      BY <1>10, <3>2
    <3> HIDE DEF names
    <3> QED BY <3>1, <3>3 DEF Deletable
  <2>3. IsFiniteSet(S) /\ Cardinality(S) = n
    <3>1. 1 \in Int /\ n \in Int
      OBVIOUS
    <3>2. IsFiniteSet(1 .. n) /\ Cardinality(1 .. n) = IF 1 > n THEN 0 ELSE n - 1 + 1
      BY <3>1, FS_Interval
    <3> QED BY <3>2
  <2> HIDE DEF name, S
  <2>4. IsFiniteSet(names) /\ Cardinality(names) <= Cardinality(S)
    <3>1. PICK g, T : g = name /\ T = S
      OBVIOUS
    <3>2. IsFiniteSet({g[x] : x \in T}) /\ Cardinality({g[x] : x \in T}) <= Cardinality(T)
      BY SMTT(30), <2>3, <3>1, ImageCardinality
    <3>3. names = {g[x] : x \in T}
      BY <3>1
    <3> HIDE DEF names
    <3> QED BY <3>1, <3>2, <3>3
  <2> HIDE DEF names
  <2>5. PICK d : d = Deletable'
    OBVIOUS
  <2>6. d \in SUBSET names
    BY <2>2, <2>5
  <2>7. IsFiniteSet(d) /\ Cardinality(d) <= Cardinality(names)
    BY <2>4, <2>6, FS_Subset
  <2>8. Cardinality(d) \in Nat /\ Cardinality(names) \in Nat
    BY <2>4, <2>7, FS_CardinalityType
  <2>9. Cardinality(d) + 0 <= n
    BY <2>3, <2>4, <2>7, <2>8
  <2>10. Cardinality(Removers') = 0
    BY <2>1, FS_EmptySet
  <2> QED BY <1>1, <1>2, <1>4, <1>6, <2>5, <2>9, <2>10 DEF EntryLeft
<1>13. RequestsConsistent'
  <2>1. \A c \in Conns : Op[c] \in {"APPROVE", "REJECT"} =>
          (/\ (c \in Accepted <=> reply[c] = "SUCCESS" \/ pc[c] \notin {"start", "done"})
           /\ (c \in Accepted' <=> reply'[c] = "SUCCESS" \/ pc'[c] \notin {"start", "done"}))
    BY DEF Accepted, Active, FirstStep
  <2>2. \A c \in hit : Op[c] \in {"APPROVE", "REJECT"} => reply'[c] = "SUCCESS"
    BY <1>1, <1>6 DEF Places, Changes
  <2>3. \A c \in Conns : c \in Accepted' <=> c \in Accepted
    <3>1. \A c \in Conns : Op[c] \notin {"APPROVE", "REJECT"} => c \notin Accepted /\ c \notin Accepted'
      BY DEF Accepted
    <3>2. \A c \in hit : Op[c] \in {"APPROVE", "REJECT"} => c \in Accepted /\ c \in Accepted'
      BY <2>1, <2>2
    <3>3. \A c \in Conns \ hit : Op[c] \in {"APPROVE", "REJECT"} => (c \in Accepted' <=> c \in Accepted)
      BY <1>6, <2>1
    <3> QED BY <3>1, <3>2, <3>3
  <2>4. Accepted' = Accepted
    BY <2>3 DEF Accepted
  <2> QED BY <1>1, <1>6, <2>4, NotDecided
<1> QED BY <1>7, <1>8, <1>9, <1>11, <1>12, <1>13 DEF Inv
-----------------------------------------------------------------------------
LEMMA InitInv == Init => Inv
<1> SUFFICES ASSUME Init PROVE Inv
  OBVIOUS
<1>1. PICK n \in Nat : n = Len(InitialList)
  BY LenProperties
<1>2. /\ count = n /\ mfile = InitialList /\ mlen = n /\ n <= MaxEntries /\ MaxEntries \in Nat
      /\ stored = {InitialList[i].filename : i \in DOMAIN InitialList}
      /\ InitialList \in Seq(Range(InitialList)) /\ requests = <<>>
      /\ list = [i \in 1 .. MaxEntries |-> IF i <= n THEN InitialList[i] ELSE Blank]
      /\ DOMAIN InitialList = 1 .. n
  BY <1>1, LenProperties DEF Init
<1>3. /\ pc \in [Conns -> {"start", "find", "done"}] /\ reply = [c \in Conns |-> "none"]
      /\ \A c \in Conns : pc[c] = "find" => Op[c] \in {"CREATE", "DELETE", "READ", "WRITE"}
  BY DEF Init, FirstStep
<1>4. Types
  <2>1. job \in [Conns -> [file : Files, user : Users, access : Access]]
    BY DEF Init
  <2>2. requests \in Seq(Request)
    BY <1>2, EmptySeq
  <2>3. written \in [Conns -> 0 .. MaxEntries]
    BY DEF Init
  <2>4. pc \in [Conns -> PCs] /\ reply \in [Conns -> Replies]
    BY <1>3 DEF PCs, Replies
  <2> QED BY <2>1, <2>2, <2>3, <2>4 DEF Types
<1>5. Places
  BY <1>3 DEF Places, Changing
<1>6. Sizes
  <2>1. list = [i \in 1 .. MaxEntries |-> list[i]]
    BY <1>2
  <2>2. n \in 0 .. MaxEntries /\ n \in 0 .. n
    BY <1>2
  <2> QED BY <1>1, <1>2, <2>1, <2>2 DEF Sizes
<1>7. EntryLeft
  <2> DEFINE name == [i \in 1 .. n |-> InitialList[i].filename]
             S == 1 .. n
             names == {name[i] : i \in S}
  <2>1. stored = names
    BY <1>2
  <2>2. IsFiniteSet(S) /\ Cardinality(S) = n
    <3>1. 1 \in Int /\ n \in Int
      OBVIOUS
    <3>2. IsFiniteSet(1 .. n) /\ Cardinality(1 .. n) = IF 1 > n THEN 0 ELSE n - 1 + 1
      BY <3>1, FS_Interval
    <3> QED BY <3>2
  <2> HIDE DEF name, S
  <2>3. IsFiniteSet(names) /\ Cardinality(names) <= Cardinality(S)
    BY SMTT(30), <2>2, ImageCardinality
  <2> HIDE DEF names
  <2>4. PICK d : d = Deletable
    OBVIOUS
  <2>5. d \in SUBSET names
    BY <2>1, <2>4 DEF Deletable
  <2>6. IsFiniteSet(d) /\ Cardinality(d) <= Cardinality(names)
    BY <2>3, <2>5, FS_Subset
  <2>7. Cardinality(d) \in Nat /\ Cardinality(names) \in Nat
    BY <2>3, <2>6, FS_CardinalityType
  <2>8. Cardinality(d) + 0 <= n
    BY <2>2, <2>3, <2>6, <2>7
  <2>9. Removers = {}
    BY <1>3 DEF Removers
  <2>10. Cardinality(Removers) = 0
    BY <2>9, FS_EmptySet
  <2> QED BY <1>2, <2>1, <2>3, <2>4, <2>8, <2>10 DEF EntryLeft
<1>8. Saved
  <2>1. \A i \in 1 .. n : list[i] = InitialList[i]
    <3>1. \A i \in 1 .. n : i \in 1 .. MaxEntries /\ i <= n
      BY <1>2
    <3> QED BY <1>2, <3>1
  <2>2. n >= n
    OBVIOUS
  <2> QED BY <1>1, <1>2, <2>1, <2>2 DEF Saved
<1>9. RequestsConsistent
  <2>1. Accepted = {}
    BY <1>3 DEF Accepted, Active, FirstStep
  <2>2. DOMAIN requests = {}
    BY <1>2
  <2> QED BY <2>1, <2>2 DEF RequestsConsistent, OnePending, DecidedOnce
<1> QED BY <1>4, <1>5, <1>6, <1>7, <1>8, <1>9 DEF Inv

LEMMA NextInv == Inv /\ [Next]_vars => Inv'
<1> SUFFICES ASSUME Inv, [Next]_vars PROVE Inv'
  OBVIOUS
<1>1. ASSUME NEW c \in Conns, Step(c)
      PROVE  Inv'
  <2>1. Types /\ Places /\ Sizes /\ EntryLeft /\ Saved /\ RequestsConsistent
    BY DEF Inv
  <2>2. Types' /\ Places'
    BY <1>1, <2>1, StepTypes
  <2>3. Sizes'
    BY <1>1, <2>1, StepSizes
  <2>4. EntryLeft'
    BY <1>1, <2>1, <2>2, StepEntries
  <2>5. Saved'
    BY <1>1, <2>1, <2>2, <2>3, StepSaved
  <2>6. RequestsConsistent'
    BY <1>1, <2>1, StepRequests
  <2> QED BY <2>2, <2>3, <2>4, <2>5, <2>6 DEF Inv
<1>2. CASE Crash
  BY <1>2, CrashInv
<1>3. CASE UNCHANGED vars
  <2>1. Types' /\ Places' /\ Sizes'
    BY <1>3 DEF Inv, Types, Places, Sizes
  <2>2. EntryLeft'
    <3>1. \A f : EntriesOf(f)' = EntriesOf(f)
      BY <1>3 DEF EntriesOf
    <3>2. Deletable' = Deletable /\ Removers' = Removers
      BY <1>3, <3>1 DEF Deletable, Removers
    <3> QED BY <1>3, <3>2 DEF Inv, EntryLeft
  <2>3. Saved'
    BY <1>3 DEF Inv, Saved
  <2>4. RequestsConsistent'
    <3>1. Accepted' = Accepted
      BY <1>3 DEF Accepted, Active
    <3> QED BY <1>3, <3>1, NotDecided DEF Inv
  <2> QED BY <2>1, <2>2, <2>3, <2>4 DEF Inv
<1> QED BY <1>1, <1>2, <1>3 DEF Next, Done, Step

\* metadata_list is never written past its end, and neither is it read past it when it is
\* saved, however CREATE and DELETE requests and deaths of the server interleave: a CREATE
\* tests the limit again under metadata_mutex, and a DELETE only removes an entry that is
\* there, because it unlinked the file first.
ListBounded == DOMAIN list = 1 .. MaxEntries /\ count \in 0 .. MaxEntries /\ Len(mfile) <= MaxEntries

THEOREM ListStaysBounded == Spec => []ListBounded
<1>1. Inv => ListBounded
  BY DEF Inv, Sizes, ListBounded
<1> QED BY <1>1, InitInv, NextInv, PTL DEF Spec

\* When nobody is about to save, the metadata file has the list, for any number of threads
\* that open, write and close the file in any order, and any number of deaths.
THEOREM MetadataStaysSaved == Spec => []MetadataSaved
<1>1. Inv => MetadataSaved
  <2> SUFFICES ASSUME Inv,
                      \A c \in Conns : pc[c] \notin {"append", "invalidate", "save_open",
                                                     "save_write", "save_close"}
               PROVE  mlen >= count /\ \A i \in 1 .. count : mfile[i] = list[i]
    BY DEF MetadataSaved
  <2> QED BY DEF Inv, Saved, Unsaved
<1> QED BY <1>1, InitInv, NextInv, PTL DEF Spec

\* A user has one pending request for a file at most, and every decided request was decided
\* by one accepted APPROVE or REJECT and one only, for any number of users and requests.
THEOREM RequestsStayConsistent == Spec => []RequestsConsistent
<1>1. Inv => RequestsConsistent
  BY DEF Inv
<1> QED BY <1>1, InitInv, NextInv, PTL DEF Spec
-----------------------------------------------------------------------------
(***************************************************************************)
(* Checks and changes of access.                                           *)
(***************************************************************************)

\* No user's name ends with another's.  (strstr would find it there, and DropAccess would
\* take away the wrong entry.)
NamesApart == \A u \in Users, v \in Users : IsSuffix(u, v) => u = v

\* Nobody deletes a file, which would move entries away from under the pointers to them and
\* leave the access cache as it is.
NoDeletes == \A c \in Conns : Op[c] # "DELETE"

\* A file is created by one request.  (The name server lists a name before it asks the
\* storage server to create the file, and refuses another CREATE meanwhile.)
OneCreate ==
  \A c \in Conns, d \in Conns :
    Op[c] = "CREATE" /\ Op[d] = "CREATE" /\ FileOf[c] = FileOf[d] => c = d

FileMetadata == [filename : Files, owner : Users, acl : Seq(AclEntry)]
CacheEntry == [key : Files \X Users, access : Access]

\* The places where a thread holds metadata_mutex, where it checks, and where it uses a
\* pointer.
Locking == {"append", "invalidate"}
Checking == {"owner", "lookup", "rebuild", "relookup"}
Pointing == Locking \cup Checking \cup {"change"}

\* Which thread holds metadata_mutex, and what the places say about the request.
Holders ==
  /\ metadata_mutex \in Conns \cup {NoConn} /\ ptr \in [Conns -> 0 .. MaxEntries]
  /\ \A c \in Conns : /\ (metadata_mutex = c) <=> (pc[c] \in Locking)
                      /\ pc[c] \in Locking \cup {"change"} => Changes(c)
                      /\ pc[c] \in Checking => Checks(c)
                      /\ pc[c] = "create" => Op[c] = "CREATE"
                      /\ Op[c] # "APPROVE" => job[c].file = FileOf[c]

\* Entries of the list and of its file, of which a hole is Blank.
EntryTypes ==
  /\ \A i \in 1 .. MaxEntries : list[i] \in FileMetadata \cup {Blank}
  /\ \A i \in DOMAIN mfile : mfile[i] \in FileMetadata \cup {Blank}
  /\ stored \subseteq Files

\* A file has one entry, and the metadata file has entries where the list has them.
OneEntry ==
  \A i \in 1 .. count, j \in 1 .. count :
    list[i].filename # NoFile /\ list[i].filename = list[j].filename => i = j
FileFollows ==
  \A i \in DOMAIN mfile :
    mfile[i].filename # NoFile => i \in 1 .. count /\ mfile[i].filename = list[i].filename

\* A pointer leads to the entry that find_metadata was asked for.
Pointers ==
  \A c \in Conns : pc[c] \in Pointing =>
    ptr[c] \in 1 .. count /\ list[ptr[c]].filename = job[c].file

\* Where find_metadata found no entry there is none until this thread creates it.
Fresh == \A c \in Conns : pc[c] = "create" => EntriesOf(FileOf[c]) = {}

\* What is cached is about files that are there.
CacheTypes == cache \in [0 .. CacheSize - 1 -> CacheEntry \cup {NoEntry}]
CachedExists == \A k \in DOMAIN cache : cache[k] # NoEntry => EntriesOf(cache[k].key[1]) # {}

\* The table of requests is never written past its end, and deaths are counted.
RequestsFit == Len(requests) <= MaxRequests
DeathsCounted == crashes \in Nat

ListInv == Holders /\ EntryTypes /\ Pointers /\ CacheTypes /\ RequestsFit /\ DeathsCounted
UniqueInv == OneEntry /\ FileFollows /\ Fresh
CacheInv == CachedExists /\ CacheSound
-----------------------------------------------------------------------------
Slots == 0 .. CacheSize - 1
Tables == [Slots -> CacheEntry \cup {NoEntry}]

\* The step of build_access_cache_for_file for one entry.
Put(t, f, e) ==
  LET k == Probe(t, <<f, e.name>>)
  IN  IF e.type = "none" \/ k = NoSlot THEN t
      ELSE [t EXCEPT ![k] = [key |-> <<f, e.name>>, access |-> e.type]]

\* What build_access_cache_for_file puts into the cache, wherever a key is put.
Cacheable(f, acl) ==
  {[key |-> <<f, e.name>>, access |-> e.type] : e \in {x \in Range(acl) : x.type # "none"}}

LEMMA PutKeeps ==
  ASSUME NEW t \in Tables, NEW f \in Files, NEW e \in AclEntry
  PROVE  /\ Put(t, f, e) \in Tables
         /\ \A k \in Slots : \/ Put(t, f, e)[k] = t[k]
                             \/ /\ e.type # "none"
                                /\ Put(t, f, e)[k] = [key |-> <<f, e.name>>, access |-> e.type]
<1>1. CASE Put(t, f, e) = t
  BY <1>1
<1>2. CASE Put(t, f, e) # t
  <2>1. PICK k : e.type # "none" /\ Put(t, f, e) = [t EXCEPT ![k] = [key |-> <<f, e.name>>, access |-> e.type]]
    BY <1>2 DEF Put
  <2>2. [key |-> <<f, e.name>>, access |-> e.type] \in CacheEntry
    BY <2>1 DEF CacheEntry, AclEntry, Access
  <2>3. PICK v : v = [key |-> <<f, e.name>>, access |-> e.type]
    OBVIOUS
  <2>4. v \in CacheEntry /\ Put(t, f, e) = [t EXCEPT ![k] = v]
    BY <2>1, <2>2, <2>3
  <2>5. [t EXCEPT ![k] = v] \in Tables /\ \A j \in Slots : [t EXCEPT ![k] = v][j] = t[j] \/ [t EXCEPT ![k] = v][j] = v
    BY ONLY <2>4, t \in Tables DEF Tables
  <2> QED BY <2>1, <2>3, <2>4, <2>5
<1> QED BY <1>1, <1>2

LEMMA RebuiltIs ==
  ASSUME NEW table \in Tables, NEW f \in Files, NEW acl \in Seq(AclEntry)
  PROVE  /\ Rebuilt(table, f, acl) \in Tables
         /\ \A k \in Slots : \/ Rebuilt(table, f, acl)[k] = table[k]
                             \/ Rebuilt(table, f, acl)[k] \in Cacheable(f, acl)
<1> DEFINE Def(g) == g = [s \in SUBSET (DOMAIN acl) |->
                            IF s = {} THEN table ELSE Put(g[s \ {Max(s)}], f, acl[Max(s)])]
           it == CHOOSE g : Def(g)
           step == [p \in Tables \X AclEntry |-> Put(p[1], f, p[2])]
<1>1. Rebuilt(table, f, acl) = it[DOMAIN acl]
  BY DEF Rebuilt, Put, FoldLeft, MapThenFoldSet
<1>2. Def(it)
  <2>1. step \in [Tables \X AclEntry -> Tables]
    <3> SUFFICES ASSUME NEW p \in Tables \X AclEntry PROVE step[p] \in Tables
      OBVIOUS
    <3>1. p[1] \in Tables /\ p[2] \in AclEntry
      OBVIOUS
    <3> QED BY <3>1, PutKeeps
  <2>2. \A t \in Tables, e \in AclEntry : step[<<t, e>>] = Put(t, f, e)
    OBVIOUS
  <2> HIDE DEF step
  <2>3. PICK g \in [SUBSET (DOMAIN acl) -> Tables] : \A s \in SUBSET (DOMAIN acl) :
          g[s] = IF s = {} THEN table ELSE step[<<g[s \ {Max(s)}], acl[Max(s)]>>]
    <3>1. PICK g : IsFold(g, Tables, table, step, acl)
      BY <2>1, FoldExists
    <3> QED BY ONLY <3>1 DEF IsFold
  <2>4. ASSUME NEW s \in SUBSET (DOMAIN acl), s # {}
        PROVE  g[s] = Put(g[s \ {Max(s)}], f, acl[Max(s)])
    <3>1. s \ {Max(s)} \in SUBSET (DOMAIN acl)
      OBVIOUS
    <3>2. g[s \ {Max(s)}] \in Tables
      BY <2>3, <3>1
    <3>3. acl[Max(s)] \in AclEntry
      <4>1. PICK n \in Nat : DOMAIN acl = 1 .. n
        BY LenProperties
      <4>2. Max(s) \in s
        BY <2>4, <4>1, MaxInSet
      <4> QED BY <4>2, ElementOfSeq
    <3> QED BY <2>2, <2>3, <2>4, <3>2, <3>3
  <2>5. Def(g)
    <3>1. \A s \in SUBSET (DOMAIN acl) :
            g[s] = IF s = {} THEN table ELSE Put(g[s \ {Max(s)}], f, acl[Max(s)])
      BY <2>3, <2>4
    <3>2. g = [s \in SUBSET (DOMAIN acl) |-> g[s]]
      BY <2>3
    <3> QED BY ONLY <3>1, <3>2
  <2> HIDE DEF Def
  <2> QED BY <2>5
<1> HIDE DEF it
<1>3. PICK n \in Nat : n = Len(acl) /\ DOMAIN acl = 1 .. n
  BY LenProperties
<1> DEFINE J == {t \in Tables : \A k \in Slots : t[k] = table[k] \/ t[k] \in Cacheable(f, acl)}
<1>4. it[{}] \in J
  <2>1. it[{}] = table
    BY <1>2
  <2> QED BY <2>1
<1>5. ASSUME NEW k \in 1 .. n, it[1 .. k - 1] \in J
      PROVE  it[1 .. k] \in J
  <2>1. 1 .. k # {} /\ Max(1 .. k) = k /\ (1 .. k) \ {k} = 1 .. k - 1
    BY SMTT(30), LastPosition
  <2>2. 1 .. k \in SUBSET (DOMAIN acl)
    BY <1>3
  <2>3. it[1 .. k] = Put(it[1 .. k - 1], f, acl[k])
    BY <1>2, <2>1, <2>2
  <2>4. acl[k] \in AclEntry /\ acl[k] \in Range(acl)
    BY <1>3, ElementOfSeq DEF Range
  <2>5. PICK t, e : t = it[1 .. k - 1] /\ e = acl[k]
    OBVIOUS
  <2>6. t \in Tables /\ e \in AclEntry /\ e \in Range(acl) /\ it[1 .. k] = Put(t, f, e)
        /\ \A j \in Slots : t[j] = table[j] \/ t[j] \in Cacheable(f, acl)
    BY <1>5, <2>3, <2>4, <2>5
  <2>7. e.type # "none" => [key |-> <<f, e.name>>, access |-> e.type] \in Cacheable(f, acl)
    BY <2>6 DEF Cacheable
  <2>8. PICK r : r = Put(t, f, e)
    OBVIOUS
  <2>9. r \in Tables /\ \A j \in Slots : r[j] = t[j] \/ r[j] \in Cacheable(f, acl)
    BY <2>6, <2>7, <2>8, PutKeeps
  <2>10. r \in J
    BY ONLY <2>6, <2>9
  <2> QED BY <2>6, <2>8, <2>10
<1> HIDE DEF J
<1>6. it[1 .. n] \in J
  BY <1>4, <1>5, FoldInduction
<1> QED BY <1>1, <1>3, <1>6 DEF J

\* Taking a user's access away takes the first entry of that user, and nothing else.
LEMMA DroppedIs ==
  ASSUME NamesApart, NEW acl \in Seq(AclEntry), NEW u \in Users
  PROVE  /\ Dropped(acl, u) \in Seq(AclEntry)
         /\ \A e \in Range(acl) : e.name = u \/ e \in Range(Dropped(acl, u))
<1> DEFINE At(type) == {i \in DOMAIN acl : acl[i].type = type /\ IsSuffix(u, acl[i].name)}
           S == IF At("RW") # {} THEN At("RW") ELSE At("R") \cup {Len(acl) + 1}
<1>1. PICK n \in Nat : n = Len(acl) /\ DOMAIN acl = 1 .. n
  BY LenProperties
<1>2. S \in SUBSET Nat /\ S # {} /\ \A i \in S : i = n + 1 \/ (i \in 1 .. n /\ IsSuffix(u, acl[i].name))
  <2>1. \A type : \A i \in At(type) : i \in Nat /\ i \in 1 .. n /\ IsSuffix(u, acl[i].name)
    BY <1>1
  <2>2. n + 1 \in Nat /\ Len(acl) + 1 = n + 1
    BY <1>1
  <2> HIDE DEF At
  <2>3. CASE At("RW") # {}
    BY <2>1, <2>3
  <2>4. CASE At("RW") = {}
    <3>1. S = At("R") \cup {n + 1}
      BY <2>2, <2>4
    <3>2. PICK A, R : A = At("R") /\ R = S
      OBVIOUS
    <3>3. \A i \in A : i \in Nat /\ i \in 1 .. n /\ IsSuffix(u, acl[i].name)
      BY <2>1, <3>2
    <3>4. R = A \cup {n + 1}
      BY <3>1, <3>2
    <3>5. R \in SUBSET Nat /\ R # {} /\ \A i \in R : i = n + 1 \/ (i \in 1 .. n /\ IsSuffix(u, acl[i].name))
      BY ONLY <2>2, <3>3, <3>4
    <3> QED BY <3>2, <3>5
  <2> QED BY <2>3, <2>4
<1>3. Position(acl, u) = Min(S)
  BY DEF Position
<1> HIDE DEF S
<1>4. PICK p \in Nat : p = Position(acl, u) /\ (p = n + 1 \/ (p \in 1 .. n /\ IsSuffix(u, acl[p].name)))
  BY <1>2, <1>3, MinIsLeast
<1>5. CASE p = n + 1
  <2>1. p > Len(acl)
    BY <1>1, <1>5
  <2>2. Dropped(acl, u) = acl
    BY <1>1, <1>4, <2>1 DEF Dropped
  <2> QED BY <2>2
<1>6. CASE p \in 1 .. n
  <2>1. acl[p] \in AclEntry
    BY <1>1, <1>6, ElementOfSeq
  <2>2. acl[p].name = u
    <3>1. acl[p].name \in Users /\ IsSuffix(u, acl[p].name)
      BY <1>1, <1>4, <1>6, <2>1 DEF AclEntry
    <3> QED BY <3>1 DEF NamesApart
  <2>3. SubSeq(acl[p].name, 1, Len(acl[p].name) - Len(u)) = <<>>
    <3>1. PICK v, T : v = u /\ T = Range(u) /\ v \in Seq(T)
      BY MetadataAssumption
    <3>2. Len(v) \in Nat
      BY <3>1, LenProperties
    <3>3. Len(v) - Len(v) = 0
      BY <3>2
    <3>4. SubSeq(v, 1, 0) = <<>>
      BY <3>1
    <3> QED BY <2>2, <3>1, <3>3, <3>4
  <2>4. p <= Len(acl) /\ ~(p > Len(acl)) /\ p \in 1 .. Len(acl)
    BY <1>1, <1>6
  <2>5. Dropped(acl, u) = RemoveAt(acl, p)
    BY <1>4, <2>3, <2>4 DEF Dropped
  <2>6. PICK r : r = RemoveAt(acl, p)
    OBVIOUS
  <2>7. /\ r \in Seq(AclEntry) /\ Len(r) = n - 1
        /\ \A j \in 1 .. n - 1 : r[j] = IF j < p THEN acl[j] ELSE acl[j + 1]
    <3>1. /\ RemoveAt(acl, p) \in Seq(AclEntry) /\ Len(RemoveAt(acl, p)) = Len(acl) - 1
          /\ \A j \in 1 .. Len(acl) - 1 :
               RemoveAt(acl, p)[j] = IF j < p THEN acl[j] ELSE acl[j + 1]
      BY ONLY <2>4, RemoveAtProperties, acl \in Seq(AclEntry)
    <3> QED BY ONLY <1>1, <2>6, <3>1
  <2>8. DOMAIN r = 1 .. n - 1
    BY <2>7, LenProperties
  <2>9. ASSUME NEW i \in 1 .. n, acl[i].name # u
        PROVE  acl[i] \in Range(r)
    <3>1. i # p
      BY <2>2, <2>9
    <3>2. CASE i < p
      <4>1. i \in 1 .. n - 1 /\ r[i] = acl[i]
        BY <1>6, <2>7, <3>2
      <4> QED BY <2>8, <4>1 DEF Range
    <3>3. CASE i > p
      <4>1. i - 1 \in 1 .. n - 1 /\ ~(i - 1 < p) /\ (i - 1) + 1 = i
        BY <1>6, <3>3
      <4>2. r[i - 1] = acl[i]
        BY <2>7, <4>1
      <4> QED BY <2>8, <4>1, <4>2 DEF Range
    <3> QED BY <1>6, <3>1, <3>2, <3>3
  <2> QED BY <1>1, <2>5, <2>6, <2>7, <2>9 DEF Range
<1> QED BY <1>4, <1>5, <1>6

\* Giving a user access adds an entry.
LEMMA WithAccessIs ==
  ASSUME NEW acl \in Seq(AclEntry), NEW u \in Users, NEW access \in Access
  PROVE  /\ WithAccess(acl, u, access) \in Seq(AclEntry)
         /\ Range(acl) \subseteq Range(WithAccess(acl, u, access))
<1>1. PICK e : e = [name |-> u, type |-> access]
  OBVIOUS
<1>2. e \in AclEntry
  BY <1>1 DEF AclEntry
<1>3. PICK r : r = Append(acl, e)
  OBVIOUS
<1>4. r \in Seq(AclEntry) /\ Len(r) = Len(acl) + 1 /\ \A i \in 1 .. Len(acl) : r[i] = acl[i]
  BY <1>2, <1>3, AppendProperties
<1>5. Range(acl) \subseteq Range(r)
  <2>1. PICK n \in Nat : n = Len(acl) /\ DOMAIN acl = 1 .. n /\ DOMAIN r = 1 .. n + 1
    BY <1>4, LenProperties
  <2>2. \A i \in 1 .. n : i \in 1 .. n + 1
    OBVIOUS
  <2> QED BY <1>4, <2>1, <2>2 DEF Range
<1>6. r = WithAccess(acl, u, access)
  BY <1>1, <1>3 DEF WithAccess
<1> QED BY <1>4, <1>5, <1>6

\* A new access list changes nothing else.
LEMMA AclChanged ==
  ASSUME Sizes, NEW p \in 1 .. MaxEntries, list[p] \in FileMetadata, NEW acl \in Seq(AclEntry),
         list' = [list EXCEPT ![p].acl = acl]
  PROVE  /\ list'[p] \in FileMetadata /\ list'[p].filename = list[p].filename
         /\ list'[p].owner = list[p].owner /\ list'[p].acl = acl
         /\ \A i \in 1 .. MaxEntries : i # p => list'[i] = list[i]
<1>1. DOMAIN list = 1 .. MaxEntries
  BY DEF Sizes
<1>2. list'[p] = [list[p] EXCEPT !.acl = acl]
  BY <1>1
<1>3. \A i \in 1 .. MaxEntries : i # p => list'[i] = list[i]
  BY <1>1
<1>4. PICK r : r = list[p]
  OBVIOUS
<1>5. r \in FileMetadata /\ list'[p] = [r EXCEPT !.acl = acl]
  BY <1>2, <1>4
<1>6. /\ [r EXCEPT !.acl = acl] \in FileMetadata /\ [r EXCEPT !.acl = acl].filename = r.filename
      /\ [r EXCEPT !.acl = acl].owner = r.owner /\ [r EXCEPT !.acl = acl].acl = acl
  BY ONLY <1>5, acl \in Seq(AclEntry) DEF FileMetadata
<1> QED BY <1>3, <1>4, <1>5, <1>6

\* A step changes the job of its thread only if it approves, its pointer only if it finds.
LEMMA LocalsStay ==
  ASSUME Types, Holders, NEW c \in Conns, Step(c)
  PROVE  /\ \A d \in Conns \ {c} : job'[d] = job[d] /\ ptr'[d] = ptr[d]
         /\ job'[c] = job[c] \/ (Op[c] = "APPROVE" /\ pc[c] = "start" /\ pc'[c] = "find")
         /\ ptr'[c] = ptr[c] \/ FindMetadata(c)
<1>1. /\ job \in [Conns -> [file : Files, user : Users, access : Access]]
      /\ ptr \in [Conns -> 0 .. MaxEntries] /\ pc \in [Conns -> PCs]
  BY DEF Types, Holders
<1>2. CASE \E id : Approve(c, id)
  <2>1. /\ Op[c] = "APPROVE" /\ pc[c] = "start" /\ pc'[c] = "find" /\ UNCHANGED ptr
        /\ \E j : job' = [job EXCEPT ![c] = j]
    BY <1>1, <1>2 DEF Approve, Goto
  <2> QED BY <1>1, <2>1
<1>3. CASE FindMetadata(c)
  <2>1. UNCHANGED job /\ \E p : ptr' = [ptr EXCEPT ![c] = p]
    BY <1>3 DEF FindMetadata
  <2>2. PICK p : ptr' = [ptr EXCEPT ![c] = p]
    BY <2>1
  <2>3. \A d \in Conns \ {c} : ptr'[d] = ptr[d]
    BY <1>1, <2>2
  <2>4. \A d \in Conns : job'[d] = job[d]
    BY <2>1
  <2> QED BY ONLY <1>3, <2>3, <2>4, c \in Conns
<1>4. CASE UNCHANGED <<job, ptr>>
  <2>1. \A d \in Conns : job'[d] = job[d] /\ ptr'[d] = ptr[d]
    BY ONLY <1>4
  <2> QED BY ONLY <2>1, c \in Conns
<1>5. CASE StorageStep(c) /\ ~FindMetadata(c)
  <2>1. UNCHANGED <<job, ptr>>
    BY <1>5 DEF StorageStep, CreateEntry, Unlink, RemoveEntry, SaveOpen, SaveWrite,
       SaveClose, DropAccess, AppendAccess, Invalidate, CheckOwner, Lookup, Rebuild, Relookup
  <2> QED BY <1>4, <2>1
<1>6. CASE NameServerStep(c) /\ ~\E id : Approve(c, id)
  <2>1. UNCHANGED <<job, ptr>>
    BY <1>6 DEF NameServerStep, Forward, RequestAccess, RefuseDecision, Reject, CallFails, CallLost
  <2> QED BY <1>4, <2>1
<1> QED BY <1>2, <1>3, <1>5, <1>6 DEF Step

\* What is left to show of a step of c for Holders.
LEMMA HoldersMove ==
  ASSUME Types, Types', Holders, NEW c \in Conns, Step(c), ptr' \in [Conns -> 0 .. MaxEntries],
         \/ metadata_mutex' = metadata_mutex /\ ((pc'[c] \in Locking) <=> (pc[c] \in Locking))
         \/ metadata_mutex = NoConn /\ metadata_mutex' = c /\ pc'[c] \in Locking
         \/ pc[c] \in Locking /\ metadata_mutex' = NoConn /\ pc'[c] \notin Locking,
         pc'[c] \in Locking \cup {"change"} => Changes(c),
         pc'[c] \in Checking => Checks(c),
         pc'[c] = "create" => Op[c] = "CREATE"
  PROVE  Holders'
<1>1. \A d \in Conns \ {c} : pc'[d] = pc[d] /\ job'[d] = job[d]
  BY OthersStay, LocalsStay
<1>2. Op[c] # "APPROVE" => job'[c] = job[c]
  BY LocalsStay
<1>3. metadata_mutex' \in Conns \cup {NoConn}
  BY DEF Holders
<1>4. \A d \in Conns : (metadata_mutex' = d) <=> (pc'[d] \in Locking)
  <2>1. /\ metadata_mutex \in Conns \cup {NoConn}
        /\ \A d \in Conns : (metadata_mutex = d) <=> (pc[d] \in Locking)
    BY DEF Holders
  <2>2. \A d \in Conns \ {c} : pc'[d] = pc[d]
    BY <1>1
  <2>3. NoConn \notin Conns
    OBVIOUS
  <2>4. CASE metadata_mutex' = metadata_mutex /\ ((pc'[c] \in Locking) <=> (pc[c] \in Locking))
    BY ONLY <2>1, <2>2, <2>4, c \in Conns
  <2>5. CASE metadata_mutex = NoConn /\ metadata_mutex' = c /\ pc'[c] \in Locking
    BY ONLY <2>1, <2>2, <2>3, <2>5, c \in Conns
  <2>6. CASE pc[c] \in Locking /\ metadata_mutex' = NoConn /\ pc'[c] \notin Locking
    BY ONLY <2>1, <2>2, <2>3, <2>6, c \in Conns
  <2> QED BY <2>4, <2>5, <2>6
<1>5. \A d \in Conns \ {c} :
        /\ pc'[d] \in Locking \cup {"change"} => Changes(d)
        /\ pc'[d] \in Checking => Checks(d)
        /\ pc'[d] = "create" => Op[d] = "CREATE"
        /\ Op[d] # "APPROVE" => job'[d].file = FileOf[d]
  BY <1>1 DEF Holders
<1>6. Op[c] # "APPROVE" => job'[c].file = FileOf[c]
  BY <1>2 DEF Holders
<1> QED BY <1>3, <1>4, <1>5, <1>6 DEF Holders

\* A step that goes to label.
LEMMA LabelIs ==
  ASSUME Types, NEW c \in Conns, NEW label, Goto(c, label)
  PROVE  pc'[c] = label
BY DEF Types, Goto

LEMMA EndIs ==
  ASSUME Types, NEW c \in Conns, NEW answer, Finish(c, answer)
  PROVE  pc'[c] = "done"
BY DEF Types, Finish

\* find_metadata finds the first entry of the file.
LEMMA FoundIs ==
  ASSUME Types, Sizes, Holders, NEW c \in Conns, FindMetadata(c)
  PROVE  /\ ptr' \in [Conns -> 0 .. MaxEntries] /\ UNCHANGED <<list, count, mfile, stored, cache, metadata_mutex, job>>
         /\ pc[c] = "find" /\ metadata_mutex = NoConn
         /\ pc'[c] \in {"create", "unlink", "change", "owner", "done"}
         /\ pc'[c] = "create" => Op[c] = "CREATE" /\ EntriesOf(job[c].file) = {}
         /\ pc'[c] = "change" => Changes(c)
         /\ pc'[c] = "owner" => Checks(c)
         /\ pc'[c] \in {"change", "owner"} => ptr'[c] \in EntriesOf(job[c].file)
<1> DEFINE found == {i \in 1 .. count : list[i].filename = job[c].file}
<1>1. /\ pc[c] = "find" /\ Free /\ ptr' = [ptr EXCEPT ![c] = IF found = {} THEN NoPtr ELSE Min(found)]
      /\ UNCHANGED <<list, count, mfile, stored, cache, metadata_mutex, job>>
  BY DEF FindMetadata
<1>2. \/ Op[c] = "CREATE" /\ found = {} /\ Goto(c, "create")
      \/ Op[c] = "DELETE" /\ Goto(c, "unlink")
      \/ Changes(c) /\ found # {} /\ Goto(c, "change")
      \/ Checks(c) /\ found # {} /\ Goto(c, "owner")
      \/ \E answer : Finish(c, answer)
  BY DEF FindMetadata
<1>3. found = EntriesOf(job[c].file)
  BY DEF EntriesOf
<1>4. found \in SUBSET Nat /\ \A i \in found : i \in 0 .. MaxEntries
  BY DEF Sizes
<1> HIDE DEF found
<1>5. found # {} => Min(found) \in found
  BY <1>4, MinIsLeast
<1>6. (IF found = {} THEN NoPtr ELSE Min(found)) \in 0 .. MaxEntries
  <2>1. 0 \in 0 .. MaxEntries
    OBVIOUS
  <2> QED BY <1>4, <1>5, <2>1 DEF NoPtr
<1>7. ptr \in [Conns -> 0 .. MaxEntries] /\ pc \in [Conns -> PCs]
  BY DEF Holders, Types
<1>8. ptr' \in [Conns -> 0 .. MaxEntries] /\ ptr'[c] = IF found = {} THEN NoPtr ELSE Min(found)
  BY <1>1, <1>6, <1>7
<1>9. /\ \A label : Goto(c, label) => pc'[c] = label
      /\ \A answer : Finish(c, answer) => pc'[c] = "done"
  BY LabelIs, EndIs
<1>10. \/ Op[c] = "CREATE" /\ found = {} /\ pc'[c] = "create"
       \/ Op[c] = "DELETE" /\ pc'[c] = "unlink"
       \/ Changes(c) /\ found # {} /\ pc'[c] = "change"
       \/ Checks(c) /\ found # {} /\ pc'[c] = "owner"
       \/ pc'[c] = "done"
  BY <1>2, <1>9
<1> QED BY <1>1, <1>3, <1>5, <1>8, <1>10 DEF Free

LEMMA StepHolders ==
  ASSUME Types, Types', Sizes, Holders, NoDeletes, NEW c \in Conns, Step(c)
  PROVE  Holders'
<1> USE DEF Locking, Checking
<1>1. ptr \in [Conns -> 0 .. MaxEntries] /\ metadata_mutex \in Conns \cup {NoConn}
  BY DEF Holders
<1>2. /\ \A label : Goto(c, label) => pc'[c] = label
      /\ \A answer : Finish(c, answer) => pc'[c] = "done"
  BY LabelIs, EndIs
<1>3. /\ (metadata_mutex = c) <=> (pc[c] \in Locking)
      /\ pc[c] \in Locking \cup {"change"} => Changes(c)
      /\ pc[c] \in Checking => Checks(c)
      /\ pc[c] = "create" => Op[c] = "CREATE"
  BY DEF Holders
<1>4. ASSUME UNCHANGED <<ptr, metadata_mutex>>,
             pc[c] \notin Locking, pc'[c] \notin Locking \cup {"change", "create"},
             pc'[c] \in Checking => Checks(c)
      PROVE  Holders'
  BY <1>1, <1>4, HoldersMove
<1>5. CASE NameServerStep(c)
  <2>1. /\ UNCHANGED <<ptr, metadata_mutex>> /\ pc[c] \in {"start", "find"}
        /\ Goto(c, "find") \/ \E answer : Finish(c, answer)
    BY <1>5 DEF NameServerStep, Forward, RequestAccess, RefuseDecision, Approve, Reject,
       CallFails, CallLost
  <2>2. pc'[c] \in {"find", "done"}
    BY <1>2, <2>1
  <2> QED BY <1>4, <2>1, <2>2
<1>6. CASE FindMetadata(c)
  <2>1. /\ ptr' \in [Conns -> 0 .. MaxEntries] /\ UNCHANGED metadata_mutex /\ pc[c] = "find"
        /\ pc'[c] \in {"create", "unlink", "change", "owner", "done"}
        /\ pc'[c] = "create" => Op[c] = "CREATE"
        /\ pc'[c] = "change" => Changes(c)
        /\ pc'[c] = "owner" => Checks(c)
    BY <1>6, FoundIs
  <2> QED BY <2>1, HoldersMove
<1>7. CASE CreateEntry(c) \/ Unlink(c) \/ RemoveEntry(c) \/ SaveOpen(c) \/ SaveWrite(c) \/ SaveClose(c)
  <2>1. /\ UNCHANGED <<ptr, metadata_mutex>>
        /\ pc[c] \in {"create", "unlink", "remove", "save_open", "save_write", "save_close"}
        /\ (\E label \in {"remove", "save_open", "save_write", "save_close"} : Goto(c, label))
           \/ \E answer : Finish(c, answer)
    BY <1>7 DEF CreateEntry, Unlink, RemoveEntry, SaveOpen, SaveWrite, SaveClose
  <2>2. pc'[c] \in {"remove", "save_open", "save_write", "save_close", "done"}
    BY <1>2, <2>1
  <2> QED BY <1>4, <2>1, <2>2
<1>8. CASE DropAccess(c)
  <2>1. /\ UNCHANGED ptr /\ pc[c] = "change" /\ metadata_mutex = NoConn /\ metadata_mutex' = c
        /\ Goto(c, IF Op[c] = "REMACCESS" THEN "invalidate" ELSE "append")
    BY <1>8 DEF DropAccess, Free
  <2>2. pc'[c] \in {"invalidate", "append"}
    BY <1>2, <2>1
  <2> QED BY <1>1, <1>3, <2>1, <2>2, HoldersMove
<1>9. CASE AppendAccess(c)
  <2>1. /\ UNCHANGED <<ptr, metadata_mutex>> /\ pc[c] = "append" /\ Goto(c, "invalidate")
    BY <1>9 DEF AppendAccess
  <2>2. pc'[c] = "invalidate"
    BY <1>2, <2>1
  <2> QED BY <1>1, <1>3, <2>1, <2>2, HoldersMove
<1>10. CASE Invalidate(c)
  <2>1. /\ UNCHANGED ptr /\ pc[c] = "invalidate" /\ metadata_mutex' = NoConn /\ Goto(c, "save_open")
    BY <1>10 DEF Invalidate
  <2>2. pc'[c] = "save_open"
    BY <1>2, <2>1
  <2> QED BY <1>1, <1>3, <2>1, <2>2, HoldersMove
<1>11. CASE CheckOwner(c) \/ Lookup(c) \/ Rebuild(c) \/ Relookup(c)
  <2>1. /\ UNCHANGED <<ptr, metadata_mutex>> /\ pc[c] \in Checking
        /\ (\E label \in Checking : Goto(c, label)) \/ \E answer : Finish(c, answer)
    BY <1>11 DEF CheckOwner, Lookup, Rebuild, Relookup
  <2>2. pc'[c] \in Checking \cup {"done"}
    BY <1>2, <2>1
  <2> QED BY <1>3, <1>4, <2>1, <2>2
<1> QED BY <1>5, <1>6, <1>7, <1>8, <1>9, <1>10, <1>11 DEF Step, StorageStep
-----------------------------------------------------------------------------
(***************************************************************************)
(* What a step does to the list, to the metadata file and to the cache.    *)
(***************************************************************************)

\* c has created an entry at the end of the list.
EntryMade(c) ==
  /\ pc[c] = "create" /\ metadata_mutex = NoConn
  /\ UNCHANGED <<mfile, cache, metadata_mutex, job>>
  /\ count' = count + 1 /\ count' \in 1 .. MaxEntries
  /\ list'[count'] \in FileMetadata /\ list'[count'].filename = job[c].file
  /\ \A i \in 1 .. MaxEntries : i # count' => list'[i] = list[i]

\* c has changed the access list of the entry it points to, for one user.
EntryChanged(c) ==
  /\ Changes(c) /\ metadata_mutex \in {NoConn, c} /\ metadata_mutex' = c
  /\ UNCHANGED <<count, mfile, cache, job>>
  /\ ptr[c] \in 1 .. count /\ list[ptr[c]].filename = job[c].file
  /\ list'[ptr[c]] \in FileMetadata /\ list'[ptr[c]].filename = list[ptr[c]].filename
  /\ \A e \in Range(list[ptr[c]].acl) : e.name = job[c].user \/ e \in Range(list'[ptr[c]].acl)
  /\ \A i \in 1 .. MaxEntries : i # ptr[c] => list'[i] = list[i]

LEMMA ListMoves ==
  ASSUME Types, Places, Sizes, Holders, EntryTypes, Pointers, NamesApart, NoDeletes,
         NEW c \in Conns, Step(c)
  PROVE  /\ UNCHANGED <<list, count>> \/ EntryMade(c) \/ EntryChanged(c)
         /\ DropAccess(c) => EntryChanged(c)
<1>1. ASSUME CreateEntry(c), ~Full
      PROVE  EntryMade(c)
  <2>1. /\ list' = [i \in 1 .. MaxEntries |-> IF i = count + 1 THEN NewEntry(c) ELSE list[i]]
        /\ count' = count + 1 /\ count' \in 1 .. MaxEntries /\ UNCHANGED mfile
    BY <1>1, EntryAdded
  <2>2. pc[c] = "create" /\ metadata_mutex = NoConn /\ UNCHANGED <<cache, metadata_mutex, job>>
    BY <1>1 DEF CreateEntry, Free
  <2>3. list'[count'] = NewEntry(c) /\ \A i \in 1 .. MaxEntries : i # count' => list'[i] = list[i]
    BY <2>1
  <2>4. NewEntry(c) \in FileMetadata /\ NewEntry(c).filename = job[c].file
    <3>1. job[c].file \in Files /\ UserOf[c] \in Users
      BY DEF Types
    <3>2. PICK e : e = [name |-> UserOf[c], type |-> "RW"]
      OBVIOUS
    <3>3. e \in AclEntry
      BY <3>1, <3>2 DEF AclEntry, Access
    <3>4. <<e>> \in Seq(AclEntry)
      BY <3>3
    <3> QED BY <3>1, <3>2, <3>4 DEF NewEntry, FileMetadata
  <2> QED BY <2>1, <2>2, <2>3, <2>4 DEF EntryMade
<1>2. ASSUME pc[c] \in {"change", "append"}
      PROVE  /\ ptr[c] \in 1 .. count /\ ptr[c] \in 1 .. MaxEntries
             /\ list[ptr[c]].filename = job[c].file /\ list[ptr[c]] \in FileMetadata
             /\ Changes(c) /\ job[c].user \in Users /\ job[c].access \in Access
             /\ list[ptr[c]].acl \in Seq(AclEntry)
  <2>1. ptr[c] \in 1 .. count /\ list[ptr[c]].filename = job[c].file /\ Changes(c)
    BY <1>2 DEF Pointers, Pointing, Locking, Holders
  <2>2. ptr[c] \in 1 .. MaxEntries
    BY <2>1 DEF Sizes
  <2>3. job[c].file \in Files /\ job[c].user \in Users /\ job[c].access \in Access
    BY DEF Types
  <2>4. list[ptr[c]] \in FileMetadata
    BY <2>1, <2>2, <2>3 DEF EntryTypes, Blank
  <2>5. list[ptr[c]].acl \in Seq(AclEntry)
    BY <2>4 DEF FileMetadata
  <2> QED BY <2>1, <2>2, <2>3, <2>4, <2>5
<1>3. ASSUME DropAccess(c)
      PROVE  EntryChanged(c)
  <2>1. /\ pc[c] = "change" /\ metadata_mutex = NoConn /\ metadata_mutex' = c
        /\ list' = [list EXCEPT ![ptr[c]].acl = Dropped(list[ptr[c]].acl, job[c].user)]
        /\ UNCHANGED <<count, mfile, cache, job>>
    BY <1>3 DEF DropAccess, Free
  <2>2. PICK p, old, acl : p = ptr[c] /\ old = list[p].acl /\ acl = Dropped(old, job[c].user)
    OBVIOUS
  <2>3. /\ acl \in Seq(AclEntry)
        /\ \A e \in Range(old) : e.name = job[c].user \/ e \in Range(acl)
    BY <1>2, <2>1, <2>2, DroppedIs
  <2>4. list' = [list EXCEPT ![p].acl = acl] /\ p \in 1 .. MaxEntries /\ list[p] \in FileMetadata
    BY <1>2, <2>1, <2>2
  <2>5. /\ list'[p] \in FileMetadata /\ list'[p].filename = list[p].filename /\ list'[p].acl = acl
        /\ \A i \in 1 .. MaxEntries : i # p => list'[i] = list[i]
    BY <2>3, <2>4, AclChanged
  <2> QED BY <1>2, <2>1, <2>2, <2>3, <2>5 DEF EntryChanged
<1>4. ASSUME AppendAccess(c)
      PROVE  EntryChanged(c)
  <2>1. /\ pc[c] = "append" /\ UNCHANGED <<count, mfile, cache, job, metadata_mutex>>
        /\ list' = [list EXCEPT ![ptr[c]].acl = WithAccess(list[ptr[c]].acl, job[c].user, job[c].access)]
    BY <1>4 DEF AppendAccess
  <2>2. metadata_mutex = c
    BY <2>1 DEF Holders, Locking
  <2>3. PICK p, old, acl : p = ptr[c] /\ old = list[p].acl
                           /\ acl = WithAccess(old, job[c].user, job[c].access)
    OBVIOUS
  <2>4. acl \in Seq(AclEntry) /\ \A e \in Range(old) : e \in Range(acl)
    BY <1>2, <2>1, <2>3, WithAccessIs
  <2>5. list' = [list EXCEPT ![p].acl = acl] /\ p \in 1 .. MaxEntries /\ list[p] \in FileMetadata
    BY <1>2, <2>1, <2>3
  <2>6. /\ list'[p] \in FileMetadata /\ list'[p].filename = list[p].filename /\ list'[p].acl = acl
        /\ \A i \in 1 .. MaxEntries : i # p => list'[i] = list[i]
    BY <2>4, <2>5, AclChanged
  <2> QED BY <1>2, <2>1, <2>2, <2>3, <2>4, <2>6 DEF EntryChanged
<1>5. ~RemoveEntry(c)
  BY DEF RemoveEntry, Places, NoDeletes
<1>6. ASSUME NameServerStep(c)
      PROVE  UNCHANGED <<list, count>>
  BY <1>6 DEF NameServerStep, Forward, RequestAccess, RefuseDecision, Approve, Reject,
     CallFails, CallLost
<1>7. ASSUME CreateEntry(c), Full
      PROVE  UNCHANGED <<list, count>>
  BY <1>7 DEF CreateEntry
<1>8. ASSUME \/ FindMetadata(c) \/ Unlink(c) \/ SaveOpen(c) \/ SaveWrite(c) \/ SaveClose(c)
             \/ Invalidate(c) \/ CheckOwner(c) \/ Lookup(c) \/ Rebuild(c) \/ Relookup(c)
      PROVE  UNCHANGED <<list, count>>
  BY <1>8 DEF FindMetadata, Unlink, SaveOpen, SaveWrite, SaveClose, Invalidate, CheckOwner,
     Lookup, Rebuild, Relookup
<1>9. ASSUME ~DropAccess(c)
      PROVE  UNCHANGED <<list, count>> \/ EntryMade(c) \/ EntryChanged(c)
  <2>1. CASE CreateEntry(c)
    BY <1>1, <1>7, <2>1
  <2> QED BY <1>4, <1>5, <1>6, <1>8, <1>9, <2>1 DEF Step, StorageStep
<1> QED BY <1>3, <1>9

\* The beginning of one sequence and what follows it in another.
LEMMA SplicedIs ==
  ASSUME NEW T, NEW s \in Seq(T), NEW t \in Seq(T), NEW n \in Nat, n <= Len(s),
         NEW m \in Nat, m <= Len(t), NEW r, r = SubSeq(s, 1, n) \o SubSeq(t, n + 1, m)
  PROVE  \A i \in DOMAIN r : \/ i \in 1 .. n /\ r[i] = s[i]
                             \/ i \in 1 .. m /\ r[i] = t[i]
<1>1. PICK a, b : a = SubSeq(s, 1, n) /\ b = SubSeq(t, n + 1, m)
  OBVIOUS
<1>2. (\A i \in 1 .. n : s[i] \in T) /\ \A i \in n + 1 .. m : t[i] \in T
  <2>1. Len(s) \in Nat /\ Len(t) \in Nat
    BY LenProperties
  <2>2. (\A i \in 1 .. n : i \in 1 .. Len(s)) /\ \A i \in n + 1 .. m : i \in 1 .. Len(t)
    BY <2>1
  <2> QED BY <2>2
<1>3. a \in Seq(T) /\ Len(a) = n /\ \A i \in 1 .. n : a[i] = s[i]
  BY <1>1, <1>2, SubSeqProperties
<1>4. PICK k \in Nat : k = IF n + 1 <= m THEN m - n ELSE 0
  <2>1. (IF n + 1 <= m THEN m - n ELSE 0) \in Nat
    OBVIOUS
  <2> QED BY <2>1
<1>5. k = 0 \/ n + k = m
  BY <1>4
<1>6. b \in Seq(T) /\ Len(b) = k /\ \A i \in 1 .. k : b[i] = t[n + i]
  <2>1. /\ b \in Seq(T) /\ Len(b) = IF n + 1 <= m THEN m - (n + 1) + 1 ELSE 0
        /\ \A i \in 1 .. m - (n + 1) + 1 : b[i] = t[n + 1 + i - 1]
    BY <1>1, <1>2, SubSeqProperties
  <2>2. /\ (IF n + 1 <= m THEN m - (n + 1) + 1 ELSE 0) = k
        /\ \A i \in 1 .. k : i \in 1 .. m - (n + 1) + 1 /\ n + 1 + i - 1 = n + i
    BY SMTT(30), <1>4
  <2> QED BY <2>1, <2>2
<1>7. /\ r \in Seq(T) /\ Len(r) = n + k
      /\ \A i \in 1 .. n + k : r[i] = IF i <= n THEN a[i] ELSE b[i - n]
  <2>1. a \in Seq(T) /\ b \in Seq(T) /\ Len(a) = n /\ Len(b) = k
    BY <1>3, <1>6
  <2>2. /\ a \o b \in Seq(T) /\ Len(a \o b) = Len(a) + Len(b)
        /\ \A i \in 1 .. Len(a) + Len(b) :
             (a \o b)[i] = IF i <= Len(a) THEN a[i] ELSE b[i - Len(a)]
    BY ONLY <2>1, ConcatProperties
  <2>3. r = a \o b
    BY <1>1
  <2> QED BY ONLY <2>1, <2>2, <2>3
<1>8. DOMAIN r = 1 .. n + k
  BY <1>7, LenProperties
<1>9. ASSUME NEW i \in 1 .. n + k
      PROVE  (i \in 1 .. n /\ r[i] = s[i]) \/ (i \in 1 .. m /\ r[i] = t[i])
  <2>1. CASE i <= n
    <3>1. i \in 1 .. n
      BY <2>1
    <3>2. r[i] = a[i] /\ a[i] = s[i]
      BY <1>3, <1>7, <2>1, <3>1
    <3> QED BY <3>1, <3>2
  <2>2. CASE i > n
    <3>1. PICK j \in Nat : j = i - n
      BY <2>2
    <3>2. i = n + j /\ j \in 1 .. k /\ ~(i <= n)
      BY SMTT(30), <2>2, <3>1
    <3>3. n + k = m /\ i \in 1 .. m
      BY <1>5, <3>2
    <3>4. r[i] = b[j] /\ b[j] = t[n + j]
      BY <1>6, <1>7, <3>1, <3>2
    <3> QED BY <3>2, <3>3, <3>4
  <2>3. i <= n \/ i > n
    OBVIOUS
  <2> QED BY <2>1, <2>2, <2>3
<1> QED BY <1>8, <1>9

\* What an entry at i of the metadata file can come from.
Known(e, i) == e = Blank \/ (i \in DOMAIN mfile /\ e = mfile[i]) \/ (i \in 1 .. count /\ e = list[i])

\* Saving copies entries of the list to their places.
LEMMA FileMoves ==
  ASSUME Sizes, NEW c \in Conns, Step(c)
  PROVE  UNCHANGED mfile \/ (UNCHANGED <<list, count>> /\ \A i \in DOMAIN mfile' : Known(mfile'[i], i))
<1>1. /\ list \in Seq(Range(list)) /\ Len(list) = MaxEntries /\ count \in Nat /\ count <= MaxEntries
      /\ mfile \in Seq(Range(mfile)) /\ Len(mfile) \in Nat /\ DOMAIN mfile = 1 .. Len(mfile)
  <2>1. /\ list = [i \in 1 .. MaxEntries |-> list[i]] /\ mfile \in Seq(Range(mfile))
        /\ \A i \in 1 .. MaxEntries : list[i] \in Range(list)
    BY DEF Sizes, Range
  <2>2. list \in [1 .. MaxEntries -> Range(list)] /\ MaxEntries \in Nat
    BY <2>1
  <2>3. list \in Seq(Range(list)) /\ Len(list) = MaxEntries
    BY ONLY <2>2
  <2> QED BY <2>1, <2>3, LenProperties DEF Sizes
<1>2. CASE SaveOpen(c)
  BY <1>2 DEF SaveOpen
<1>3. CASE SaveWrite(c)
  <2>1. /\ UNCHANGED <<list, count>>
        /\ mfile' = SubSeq(list, 1, count) \o SubSeq(mfile, Len(InUse) + 1, Len(mfile))
    BY <1>3 DEF SaveWrite, InUse
  <2>2. Len(InUse) = count
    BY InUseIs
  <2>3. PICK T, m : T = Range(list) \cup Range(mfile) /\ m = Len(mfile)
    OBVIOUS
  <2>4. list \in Seq(T) /\ mfile \in Seq(T) /\ m \in Nat /\ m <= Len(mfile)
    BY <1>1, <2>3, SeqMonotonic
  <2>5. mfile' = SubSeq(list, 1, count) \o SubSeq(mfile, count + 1, m)
    BY <2>1, <2>2, <2>3
  <2>6. \A i \in DOMAIN mfile' : \/ i \in 1 .. count /\ mfile'[i] = list[i]
                                 \/ i \in 1 .. m /\ mfile'[i] = mfile[i]
    BY SMTT(30), <1>1, <2>4, <2>5, SplicedIs
  <2> QED BY <1>1, <2>1, <2>3, <2>6 DEF Known
<1>4. CASE SaveClose(c)
  <2>1. /\ UNCHANGED <<list, count>>
        /\ mfile' = [i \in 1 .. Max({Len(mfile), written[c]}) |->
                       IF i <= Len(mfile) THEN mfile[i] ELSE Blank]
    BY <1>4 DEF SaveClose
  <2>2. PICK n : n = Max({Len(mfile), written[c]})
    OBVIOUS
  <2>3. ASSUME NEW i \in DOMAIN mfile' PROVE Known(mfile'[i], i)
    <3>1. i \in 1 .. n /\ mfile'[i] = IF i <= Len(mfile) THEN mfile[i] ELSE Blank
      BY <2>1, <2>2
    <3>2. i \in Int /\ 1 <= i
      BY <3>1
    <3>3. i <= Len(mfile) => i \in DOMAIN mfile
      BY <1>1, <3>2
    <3> QED BY <3>1, <3>3 DEF Known
  <2> QED BY <2>1, <2>3
<1>5. CASE NameServerStep(c)
  BY <1>5 DEF NameServerStep, Forward, RequestAccess, RefuseDecision, Approve, Reject,
     CallFails, CallLost
<1>6. CASE \/ FindMetadata(c) \/ CreateEntry(c) \/ Unlink(c) \/ RemoveEntry(c) \/ DropAccess(c)
           \/ AppendAccess(c) \/ Invalidate(c) \/ CheckOwner(c) \/ Lookup(c) \/ Rebuild(c) \/ Relookup(c)
  BY <1>6 DEF FindMetadata, CreateEntry, Unlink, RemoveEntry, DropAccess, AppendAccess, Invalidate,
     CheckOwner, Lookup, Rebuild, Relookup
<1> QED BY <1>2, <1>3, <1>4, <1>5, <1>6 DEF Step, StorageStep

\* A death leaves entries at their places.
LEMMA LeavingsKnown ==
  ASSUME Sizes, NEW left \in Leavings
  PROVE  \A i \in DOMAIN left : Known(left[i], i)
<1>1. /\ mfile \in Seq(Range(mfile)) /\ Len(mfile) \in Nat /\ DOMAIN mfile = 1 .. Len(mfile)
      /\ mlen \in Nat /\ mlen <= Len(mfile) /\ count \in Nat
  <2>1. mfile \in Seq(Range(mfile))
    BY DEF Sizes
  <2> QED BY <2>1, LenProperties DEF Sizes
<1>2. \A i \in 1 .. mlen : i \in DOMAIN mfile
  BY <1>1
<1>3. CASE left = SubSeq(mfile, 1, mlen)
  <2>1. \A i \in 1 .. mlen : mfile[i] \in Range(mfile)
    BY <1>2 DEF Range
  <2>2. /\ left \in Seq(Range(mfile)) /\ Len(left) = mlen
        /\ \A i \in 1 .. mlen : left[i] = mfile[i]
    BY <1>1, <1>3, <2>1, SubSeqProperties
  <2>3. DOMAIN left = 1 .. mlen
    BY <2>2, LenProperties
  <2> QED BY <1>2, <2>2, <2>3 DEF Known
<1>4. ASSUME NEW n \in 0 .. count - 1,
             left = SubSeq(InUse, 1, n) \o SubSeq(mfile, n + 1, mlen)
      PROVE  \A i \in DOMAIN left : Known(left[i], i)
  <2>1. InUse \in Seq(Range(list)) /\ Len(InUse) = count /\ \A i \in 1 .. count : InUse[i] = list[i]
    BY InUseIs
  <2>2. PICK s, m, T : s = InUse /\ m = mlen /\ T = Range(list) \cup Range(mfile)
    OBVIOUS
  <2>3. s \in Seq(T) /\ mfile \in Seq(T)
    BY <1>1, <2>1, <2>2, SeqMonotonic
  <2>4. n \in Nat /\ n <= Len(s) /\ m \in Nat /\ m <= Len(mfile) /\ \A i \in 1 .. n : i \in 1 .. count
    BY <1>1, <2>1, <2>2
  <2>5. left = SubSeq(s, 1, n) \o SubSeq(mfile, n + 1, m)
    BY <1>4, <2>2
  <2>6. \A i \in DOMAIN left : \/ i \in 1 .. n /\ left[i] = s[i]
                               \/ i \in 1 .. m /\ left[i] = mfile[i]
    BY SMTT(30), <2>3, <2>4, <2>5, SplicedIs
  <2> QED BY <1>2, <2>1, <2>2, <2>4, <2>6 DEF Known
<1> QED BY <1>3, <1>4 DEF Leavings

LEMMA StepEntryTypes ==
  ASSUME Types, Places, Sizes, Holders, EntryTypes, Pointers, NamesApart, NoDeletes,
         NEW c \in Conns, Step(c)
  PROVE  EntryTypes'
<1>1. /\ \A i \in 1 .. MaxEntries : list[i] \in FileMetadata \cup {Blank}
      /\ \A i \in DOMAIN mfile : mfile[i] \in FileMetadata \cup {Blank}
      /\ stored \subseteq Files /\ \A i \in 1 .. count : i \in 1 .. MaxEntries
  BY DEF EntryTypes, Sizes
<1>2. \A i \in 1 .. MaxEntries : list'[i] \in FileMetadata \cup {Blank}
  <2>1. UNCHANGED <<list, count>> \/ EntryMade(c) \/ EntryChanged(c)
    BY ListMoves
  <2> QED BY <1>1, <2>1 DEF EntryMade, EntryChanged
<1>3. \A i \in DOMAIN mfile' : mfile'[i] \in FileMetadata \cup {Blank}
  <2>1. \A i, e : Known(e, i) => e \in FileMetadata \cup {Blank}
    BY <1>1 DEF Known
  <2> QED BY <1>1, <2>1, FileMoves
<1>4. stored' \subseteq Files
  <2>1. job[c].file \in Files
    BY DEF Types
  <2>2. CASE CreateEntry(c) \/ Unlink(c)
    BY <1>1, <2>1, <2>2 DEF CreateEntry, Unlink
  <2>3. CASE NameServerStep(c)
    BY <1>1, <2>3 DEF NameServerStep, Forward, RequestAccess, RefuseDecision, Approve, Reject,
       CallFails, CallLost
  <2>4. CASE StorageStep(c) /\ ~(CreateEntry(c) \/ Unlink(c))
    BY <1>1, <2>4 DEF StorageStep, FindMetadata, RemoveEntry, SaveOpen, SaveWrite,
       SaveClose, DropAccess, AppendAccess, Invalidate, CheckOwner, Lookup, Rebuild, Relookup
  <2> QED BY <2>2, <2>3, <2>4 DEF Step
<1> QED BY <1>2, <1>3, <1>4 DEF EntryTypes

\* Entries stay where they are.
LEMMA NamesStay ==
  ASSUME Sizes, EntryTypes, NEW c \in Conns,
         UNCHANGED <<list, count>> \/ EntryMade(c) \/ EntryChanged(c)
  PROVE  \A i \in 1 .. count : i \in 1 .. count' /\ list'[i].filename = list[i].filename
<1>1. \A i \in 1 .. count : i \in 1 .. MaxEntries
  BY DEF Sizes
<1>2. CASE UNCHANGED <<list, count>>
  BY <1>2
<1>3. CASE EntryMade(c)
  <2>1. \A i \in 1 .. count : i # count + 1 /\ i \in 1 .. count + 1
    BY DEF Sizes
  <2> QED BY <1>1, <1>3, <2>1 DEF EntryMade
<1>4. CASE EntryChanged(c)
  BY <1>1, <1>4 DEF EntryChanged
<1> QED BY <1>2, <1>3, <1>4

LEMMA StepPointers ==
  ASSUME Types, Places, Sizes, Holders, EntryTypes, Pointers, NamesApart, NoDeletes,
         NEW c \in Conns, Step(c)
  PROVE  Pointers'
<1>1. \A i \in 1 .. count : i \in 1 .. count' /\ list'[i].filename = list[i].filename
  BY ListMoves, NamesStay
<1>2. ASSUME NEW d \in Conns \ {c}, pc'[d] \in Pointing
      PROVE  ptr'[d] \in 1 .. count' /\ list'[ptr'[d]].filename = job'[d].file
  <2>1. pc'[d] = pc[d] /\ job'[d] = job[d] /\ ptr'[d] = ptr[d]
    BY OthersStay, LocalsStay
  <2>2. ptr[d] \in 1 .. count /\ list[ptr[d]].filename = job[d].file
    BY <1>2, <2>1 DEF Pointers
  <2> QED BY <1>1, <2>1, <2>2
<1>3. ASSUME pc'[c] \in Pointing
      PROVE  ptr'[c] \in 1 .. count' /\ list'[ptr'[c]].filename = job'[c].file
  <2> USE DEF Pointing, Locking, Checking
  <2>1. /\ \A label : Goto(c, label) => pc'[c] = label
        /\ \A answer : Finish(c, answer) => pc'[c] = "done"
    BY LabelIs, EndIs
  <2>2. CASE FindMetadata(c)
    <3>1. /\ UNCHANGED <<list, count, job>>
          /\ pc'[c] \in {"create", "unlink", "change", "owner", "done"}
          /\ pc'[c] \in {"change", "owner"} => ptr'[c] \in EntriesOf(job[c].file)
      BY <2>2, FoundIs
    <3>2. ptr'[c] \in EntriesOf(job[c].file)
      BY <1>3, <3>1
    <3> QED BY <3>1, <3>2 DEF EntriesOf
  <2>3. CASE ~FindMetadata(c)
    <3>1. ptr'[c] = ptr[c] /\ job'[c] = job[c]
      BY <1>3, <2>3, LocalsStay
    <3>2. pc[c] \in Pointing
      <4>1. CASE NameServerStep(c)
        <5>1. Goto(c, "find") \/ \E answer : Finish(c, answer)
          BY <4>1 DEF NameServerStep, Forward, RequestAccess, RefuseDecision, Approve, Reject,
             CallFails, CallLost
        <5> QED BY <1>3, <2>1, <5>1
      <4>2. CASE CreateEntry(c) \/ Unlink(c) \/ RemoveEntry(c) \/ SaveOpen(c) \/ SaveWrite(c) \/ SaveClose(c)
        <5>1. \/ \E label \in {"remove", "save_open", "save_write", "save_close"} : Goto(c, label)
              \/ \E answer : Finish(c, answer)
          BY <4>2 DEF CreateEntry, Unlink, RemoveEntry, SaveOpen, SaveWrite, SaveClose
        <5> QED BY <1>3, <2>1, <5>1
      <4>3. CASE DropAccess(c) \/ AppendAccess(c) \/ Invalidate(c)
        BY <4>3 DEF DropAccess, AppendAccess, Invalidate
      <4>4. CASE CheckOwner(c) \/ Lookup(c) \/ Rebuild(c) \/ Relookup(c)
        BY <4>4 DEF CheckOwner, Lookup, Rebuild, Relookup
      <4> QED BY <2>3, <4>1, <4>2, <4>3, <4>4 DEF Step, StorageStep
    <3>3. ptr[c] \in 1 .. count /\ list[ptr[c]].filename = job[c].file
      BY <3>2 DEF Pointers
    <3> QED BY <1>1, <3>1, <3>3
  <2> QED BY <2>2, <2>3
<1> QED BY <1>2, <1>3 DEF Pointers

\* A check caches what the access list says, or less.
LEMMA RebuildIs ==
  ASSUME Types, Sizes, Holders, EntryTypes, Pointers, CacheTypes, NEW c \in Conns, Rebuild(c)
  PROVE  /\ cache' \in Tables /\ ptr[c] \in EntriesOf(FileOf[c])
         /\ UNCHANGED <<list, count, metadata_mutex, job>>
         /\ \A k \in Slots : \/ cache'[k] = cache[k]
                             \/ cache'[k] \in Cacheable(FileOf[c], list[ptr[c]].acl)
<1>1. PICK acl \in Readings(ptr[c]) : cache' = Rebuilt(cache, FileOf[c], acl)
  BY DEF Rebuild
<1>2. pc[c] = "rebuild" /\ UNCHANGED <<list, count, metadata_mutex, job>>
  BY DEF Rebuild
<1>3. job[c].file = FileOf[c]
  <2>1. Checks(c)
    BY <1>2 DEF Holders, Checking
  <2> QED BY <2>1 DEF Holders, Checks
<1>4. ptr[c] \in 1 .. count /\ list[ptr[c]].filename = FileOf[c]
  BY <1>2, <1>3 DEF Pointers, Pointing, Checking
<1>5. PICK full : full = list[ptr[c]].acl
  OBVIOUS
<1>6. full \in Seq(AclEntry)
  <2>1. ptr[c] \in 1 .. MaxEntries /\ FileOf[c] \in Files
    BY <1>4 DEF Sizes
  <2>2. list[ptr[c]] \in FileMetadata
    BY <1>4, <2>1 DEF EntryTypes, Blank
  <2> QED BY <1>5, <2>2 DEF FileMetadata
<1>7. acl \in Seq(AclEntry) /\ Range(acl) \subseteq Range(full)
  <2>1. acl = full \/ \E i \in DOMAIN full : acl = RemoveAt(full, i)
    BY <1>5 DEF Readings
  <2>2. ASSUME NEW i \in DOMAIN full, acl = RemoveAt(full, i)
        PROVE  acl \in Seq(AclEntry) /\ Range(acl) \subseteq Range(full)
    <3>1. PICK n \in Nat : n = Len(full) /\ DOMAIN full = 1 .. n
      BY <1>6, LenProperties
    <3>2. i \in 1 .. Len(full)
      BY <2>2, <3>1
    <3>3. /\ RemoveAt(full, i) \in Seq(AclEntry) /\ Len(RemoveAt(full, i)) = Len(full) - 1
          /\ \A j \in 1 .. Len(full) - 1 :
               RemoveAt(full, i)[j] = IF j < i THEN full[j] ELSE full[j + 1]
      BY ONLY <1>6, <3>2, RemoveAtProperties
    <3>4. /\ acl \in Seq(AclEntry) /\ Len(acl) = n - 1
          /\ \A j \in 1 .. n - 1 : acl[j] = IF j < i THEN full[j] ELSE full[j + 1]
      BY ONLY <2>2, <3>1, <3>3
    <3>5. DOMAIN acl = 1 .. n - 1
      BY <3>4, LenProperties
    <3>6. \A j \in 1 .. n - 1 : j \in 1 .. n /\ j + 1 \in 1 .. n
      OBVIOUS
    <3>7. \A j \in 1 .. n - 1 : acl[j] \in Range(full)
      BY <3>1, <3>4, <3>6 DEF Range
    <3> QED BY ONLY <3>4, <3>5, <3>7 DEF Range
  <2> QED BY <1>6, <2>1, <2>2
<1>8. PICK table : table = cache /\ table \in Tables
  BY DEF CacheTypes, Tables, Slots
<1>9. /\ cache' \in Tables
      /\ \A k \in Slots : cache'[k] = cache[k] \/ cache'[k] \in Cacheable(FileOf[c], acl)
  BY <1>1, <1>7, <1>8, RebuiltIs
<1>10. Cacheable(FileOf[c], acl) \subseteq Cacheable(FileOf[c], full)
  BY <1>7 DEF Cacheable
<1> QED BY <1>2, <1>4, <1>5, <1>9, <1>10 DEF EntriesOf

\* Only a check and the end of a change touch the cache.
LEMMA CacheStays ==
  ASSUME NEW c \in Conns, Step(c), ~Rebuild(c), ~Invalidate(c)
  PROVE  UNCHANGED cache
<1>1. CASE NameServerStep(c)
  BY <1>1 DEF NameServerStep, Forward, RequestAccess, RefuseDecision, Approve, Reject,
     CallFails, CallLost
<1>2. CASE StorageStep(c)
  BY <1>2 DEF StorageStep, FindMetadata, CreateEntry, Unlink, RemoveEntry, SaveOpen, SaveWrite,
     SaveClose, DropAccess, AppendAccess, CheckOwner, Lookup, Relookup
<1> QED BY <1>1, <1>2 DEF Step

LEMMA StepCacheTypes ==
  ASSUME Types, Sizes, Holders, EntryTypes, Pointers, CacheTypes, NEW c \in Conns, Step(c)
  PROVE  CacheTypes'
<1>1. CASE Rebuild(c)
  BY <1>1, RebuildIs DEF CacheTypes, Tables, Slots
<1>2. CASE Invalidate(c)
  <2>1. cache' = Invalidated(job[c].file)
    BY <1>2 DEF Invalidate
  <2> QED BY <2>1 DEF Invalidated, CacheTypes
<1>3. CASE ~Rebuild(c) /\ ~Invalidate(c)
  BY <1>3, CacheStays DEF CacheTypes
<1> QED BY <1>1, <1>2, <1>3

LEMMA StepRequestsFit ==
  ASSUME Types, RequestsFit, NEW c \in Conns, Step(c)
  PROVE  RequestsFit'
<1>1. requests \in Seq(Request) /\ Len(requests) \in Nat /\ Len(requests) <= MaxRequests
  BY LenProperties DEF Types, RequestsFit
<1>2. CASE UNCHANGED requests
  BY <1>2 DEF RequestsFit
<1>3. ASSUME NEW t, RequestAccess(c, t)
      PROVE  RequestsFit'
  <2>1. CASE RequestAnswer(c) # "SUCCESS"
    BY <1>2, <1>3, <2>1 DEF RequestAccess
  <2>2. CASE RequestAnswer(c) = "SUCCESS"
    <3>1. PICK r : requests' = Append(requests, r)
      BY <1>3, <2>2 DEF RequestAccess
    <3>2. ~(Len(requests) >= MaxRequests)
      BY <2>2 DEF RequestAnswer
    <3>3. Len(requests') = Len(requests) + 1
      BY <1>1, <3>1
    <3> QED BY <1>1, <3>2, <3>3 DEF RequestsFit
  <2> QED BY <2>1, <2>2
<1>4. ASSUME NEW id, NEW status \in {"approved", "rejected"},
             DecisionAnswer(c, FoundRequest(id)) = "SUCCESS",
             requests' = [requests EXCEPT ![FoundRequest(id)].status = status]
      PROVE  RequestsFit'
  <2>1. PICK i : i = FoundRequest(id)
    OBVIOUS
  <2>2. i \in DOMAIN requests /\ requests' = [requests EXCEPT ![i].status = status]
    BY <1>4, <2>1, FoundTypes
  <2>3. requests' \in Seq(Request) /\ DOMAIN requests' = DOMAIN requests
    BY <2>2, Decided
  <2>4. Len(requests') = Len(requests)
    BY <1>1, <2>3
  <2> QED BY <1>1, <2>4 DEF RequestsFit
<1>5. ASSUME NEW id, Approve(c, id) \/ Reject(c, id)
      PROVE  RequestsFit'
  <2>1. /\ DecisionAnswer(c, FoundRequest(id)) = "SUCCESS"
        /\ \E status \in {"approved", "rejected"} :
             requests' = [requests EXCEPT ![FoundRequest(id)].status = status]
    BY <1>5 DEF Approve, Reject
  <2> QED BY <1>4, <2>1
<1>6. CASE Forward(c) \/ (\E id : RefuseDecision(c, id)) \/ CallFails(c) \/ CallLost(c)
  <2>1. UNCHANGED requests
    BY <1>6 DEF Forward, RefuseDecision, CallFails, CallLost
  <2> QED BY <1>2, <2>1
<1>7. CASE StorageStep(c)
  <2>1. UNCHANGED requests
    BY <1>7 DEF StorageStep, FindMetadata, CreateEntry, Unlink, RemoveEntry, SaveOpen, SaveWrite,
       SaveClose, DropAccess, AppendAccess, Invalidate, CheckOwner, Lookup, Rebuild, Relookup
  <2> QED BY <1>2, <2>1
<1> QED BY <1>3, <1>5, <1>6, <1>7 DEF Step, NameServerStep

LEMMA Alive ==
  ASSUME NEW c \in Conns, Step(c)
  PROVE  UNCHANGED crashes
<1>1. CASE NameServerStep(c)
  BY <1>1 DEF NameServerStep, Forward, RequestAccess, RefuseDecision, Approve, Reject,
     CallFails, CallLost
<1>2. CASE StorageStep(c)
  BY <1>2 DEF StorageStep, FindMetadata, CreateEntry, Unlink, RemoveEntry, SaveOpen, SaveWrite,
     SaveClose, DropAccess, AppendAccess, Invalidate, CheckOwner, Lookup, Rebuild, Relookup
<1> QED BY <1>1, <1>2 DEF Step

LEMMA CrashList ==
  ASSUME Types, Sizes, ListInv, Crash
  PROVE  ListInv'
<1>1. /\ Holders /\ EntryTypes /\ CacheTypes /\ RequestsFit /\ DeathsCounted
  BY DEF ListInv
<1>2. PICK left \in Leavings :
        /\ mfile' = left
        /\ list' = [i \in 1 .. MaxEntries |-> IF i <= Len(left) THEN left[i] ELSE Blank]
  BY DEF Crash
<1>3. /\ metadata_mutex' = NoConn /\ cache' = [k \in DOMAIN cache |-> NoEntry]
      /\ UNCHANGED <<stored, requests, job, ptr>>
      /\ \A c \in Conns : pc'[c] \in {"start", "find", "done"}
  BY DEF Crash
<1>4. Holders'
  BY <1>1, <1>3 DEF Holders, Locking, Checking
<1>5. EntryTypes'
  <2>1. /\ \A i \in 1 .. MaxEntries : list[i] \in FileMetadata \cup {Blank}
        /\ \A i \in DOMAIN mfile : mfile[i] \in FileMetadata \cup {Blank}
        /\ stored \subseteq Files /\ \A i \in 1 .. count : i \in 1 .. MaxEntries
    BY <1>1 DEF EntryTypes, Sizes
  <2>2. \A i, e : Known(e, i) => e \in FileMetadata \cup {Blank}
    BY <2>1 DEF Known
  <2>3. \A i \in DOMAIN left : left[i] \in FileMetadata \cup {Blank}
    BY <2>2, LeavingsKnown
  <2>4. PICK n \in Nat : n = Len(left) /\ DOMAIN left = 1 .. n
    BY LeavingsFit, LenProperties
  <2>5. \A i \in 1 .. MaxEntries : list'[i] = IF i \in 1 .. n THEN left[i] ELSE Blank
    BY <1>2, <2>4
  <2> QED BY <1>2, <1>3, <2>1, <2>3, <2>4, <2>5 DEF EntryTypes
<1>6. Pointers'
  BY <1>3 DEF Pointers, Pointing, Locking, Checking
<1>7. CacheTypes' /\ RequestsFit' /\ DeathsCounted'
  <2>1. crashes' = crashes + 1
    BY DEF Crash
  <2> QED BY <1>1, <1>3, <2>1 DEF CacheTypes, RequestsFit, DeathsCounted
<1> QED BY <1>4, <1>5, <1>6, <1>7 DEF ListInv

LEMMA InitList == Init => ListInv
<1> SUFFICES ASSUME Init PROVE ListInv
  OBVIOUS
<1>1. PICK n \in Nat : n = Len(InitialList) /\ DOMAIN InitialList = 1 .. n
  BY LenProperties
<1>2. /\ mfile = InitialList
      /\ list = [i \in 1 .. MaxEntries |-> IF i <= n THEN InitialList[i] ELSE Blank]
      /\ stored = {InitialList[i].filename : i \in DOMAIN InitialList}
      /\ cache = [k \in 0 .. CacheSize - 1 |-> NoEntry] /\ metadata_mutex = NoConn
      /\ requests = <<>> /\ ptr = [c \in Conns |-> NoPtr]
      /\ \A c \in Conns : job[c].file = FileOf[c]
  BY <1>1 DEF Init
<1>3. \A c \in Conns : pc[c] \in {"start", "find", "done"}
  BY DEF Init, FirstStep
<1>4. Holders
  <2>1. 0 \in 0 .. MaxEntries
    OBVIOUS
  <2>2. ptr \in [Conns -> 0 .. MaxEntries]
    BY <1>2, <2>1 DEF NoPtr
  <2> QED BY <1>2, <1>3, <2>2 DEF Holders, Locking, Checking
<1>5. EntryTypes
  <2>1. \A i \in 1 .. n : InitialList[i] \in FileMetadata
    BY <1>1, MetadataAssumption DEF FileMetadata, AclEntry
  <2>2. \A i \in 1 .. n : InitialList[i].filename \in Files
    BY <2>1 DEF FileMetadata
  <2>3. \A i \in 1 .. MaxEntries : list[i] = IF i \in 1 .. n THEN InitialList[i] ELSE Blank
    BY <1>2
  <2> QED BY <1>1, <1>2, <2>1, <2>2, <2>3 DEF EntryTypes
<1>6. Pointers
  BY <1>3 DEF Pointers, Pointing, Locking, Checking
<1>7. CacheTypes
  BY <1>2 DEF CacheTypes
<1>8. RequestsFit /\ DeathsCounted
  BY <1>2 DEF Init, RequestsFit, DeathsCounted
<1> QED BY <1>4, <1>5, <1>6, <1>7, <1>8 DEF ListInv

LEMMA NextList ==
  ASSUME NamesApart, NoDeletes
  PROVE  Inv /\ ListInv /\ [Next]_vars => ListInv'
<1> SUFFICES ASSUME Inv, ListInv, [Next]_vars PROVE ListInv'
  OBVIOUS
<1>1. /\ Types /\ Places /\ Sizes /\ Types'
      /\ Holders /\ EntryTypes /\ Pointers /\ CacheTypes /\ RequestsFit /\ DeathsCounted
  BY NextInv DEF Inv, ListInv
<1>2. ASSUME NEW c \in Conns, Step(c)
      PROVE  ListInv'
  <2>1. Holders'
    BY <1>1, <1>2, StepHolders
  <2>2. EntryTypes'
    BY <1>1, <1>2, StepEntryTypes
  <2>3. Pointers'
    BY <1>1, <1>2, StepPointers
  <2>4. CacheTypes'
    BY <1>1, <1>2, StepCacheTypes
  <2>5. RequestsFit'
    BY <1>1, <1>2, StepRequestsFit
  <2>6. DeathsCounted'
    BY <1>1, <1>2, Alive DEF DeathsCounted
  <2> QED BY <2>1, <2>2, <2>3, <2>4, <2>5, <2>6 DEF ListInv
<1>3. CASE Crash
  BY <1>1, <1>3, CrashList
<1>4. CASE UNCHANGED vars
  BY <1>1, <1>4 DEF ListInv, Holders, EntryTypes, Pointers, CacheTypes, RequestsFit,
     DeathsCounted
<1> QED BY <1>2, <1>3, <1>4 DEF Next, Done, Step

\* The state of the access lists, their cache, their file and the requests keeps its type
\* where no name ends with another and no file is deleted, for any number of connections,
\* users, files and deaths of the server.
THEOREM AccessTypeCorrect ==
  ASSUME NamesApart, NoDeletes
  PROVE  Spec => []TypeOK
<1>1. Inv /\ ListInv => TypeOK
  <2> SUFFICES ASSUME Inv, ListInv PROVE TypeOK
    OBVIOUS
  <2>1. /\ Types /\ Sizes /\ Holders /\ EntryTypes /\ CacheTypes /\ RequestsFit
    BY DEF Inv, ListInv
  <2>2. DOMAIN list = 1 .. MaxEntries /\ count \in 0 .. MaxEntries /\ mlen \in 0 .. Len(mfile)
    BY <2>1 DEF Sizes
  <2>3. \A e \in FileMetadata \cup {Blank} : IsMetadata(e)
    BY DEF FileMetadata, IsMetadata
  <2>4. /\ \A i \in DOMAIN list : IsMetadata(list[i])
        /\ \A i \in DOMAIN mfile : IsMetadata(mfile[i])
        /\ stored \subseteq Files
    BY <2>1, <2>2, <2>3 DEF EntryTypes
  <2>5. \A k \in 0 .. CacheSize - 1 :
          cache[k] = NoEntry \/ cache[k] \in [key : Files \X Users, access : Access]
    BY <2>1 DEF CacheTypes, CacheEntry
  <2>6. metadata_mutex \in Conns \cup {NoConn} /\ ptr \in [Conns -> 0 .. MaxEntries]
        /\ Len(requests) <= MaxRequests
    BY <2>1 DEF Holders, RequestsFit
  <2>7. /\ pc \in [Conns -> PCs] /\ reply \in [Conns -> Replies]
        /\ written \in [Conns -> 0 .. MaxEntries]
        /\ job \in [Conns -> [file : Files, user : Users, access : Access]]
    BY <2>1 DEF Types
  <2> QED BY <2>2, <2>4, <2>5, <2>6, <2>7 DEF TypeOK
<1>2. Init => Inv /\ ListInv
  BY InitInv, InitList
<1>3. Inv /\ ListInv /\ [Next]_vars => Inv' /\ ListInv'
  BY NextInv, NextList
<1> QED BY <1>1, <1>2, <1>3, PTL DEF Spec

\* Nobody's access to a file is affected by requests about other users, for any number of
\* requests that overlap: DropAccess and AppendAccess keep every entry of another user.
THEOREM OthersKeepTheirAccess ==
  ASSUME NamesApart, NoDeletes
  PROVE  Spec => OthersKeepAccess
<1> DEFINE Stays(f, e) ==
             \/ \E j \in EntriesOf(f)' : e \in Range(list'[j].acl)
             \/ \E c \in Conns : /\ Changes(c) /\ metadata_mutex' = c
                                 /\ job[c].file = f /\ job[c].user = e.name
           Kept == \A f \in Files : \A i \in EntriesOf(f) : \A e \in Range(list[i].acl) :
                     EntriesOf(f)' # {} /\ crashes' = crashes => Stays(f, e)
<1>1. ASSUME Inv, ListInv, Next
      PROVE  Kept
  <2> SUFFICES ASSUME NEW f \in Files, NEW i \in EntriesOf(f), NEW e \in Range(list[i].acl),
                      crashes' = crashes
               PROVE  Stays(f, e)
    <3> HIDE DEF Stays
    <3> QED OBVIOUS
  <2>1. /\ Types /\ Places /\ Sizes /\ Holders /\ EntryTypes /\ Pointers /\ DeathsCounted
    BY <1>1 DEF Inv, ListInv
  <2>2. i \in 1 .. count /\ i \in 1 .. MaxEntries /\ list[i].filename = f
    BY <2>1 DEF EntriesOf, Sizes
  <2>3. CASE UNCHANGED <<list, count>>
    BY <2>3 DEF EntriesOf
  <2>4. ASSUME NEW c \in Conns, Step(c)
        PROVE  \/ \E j \in EntriesOf(f)' : e \in Range(list'[j].acl)
               \/ /\ Changes(c) /\ metadata_mutex' = c
                  /\ job[c].file = f /\ job[c].user = e.name
    <3>1. UNCHANGED <<list, count>> \/ EntryMade(c) \/ EntryChanged(c)
      BY <2>1, <2>4, ListMoves
    <3>2. i \in EntriesOf(f)'
      <4>1. i \in 1 .. count' /\ list'[i].filename = list[i].filename
        BY <2>1, <2>2, <3>1, NamesStay
      <4> QED BY <2>2, <4>1 DEF EntriesOf
    <3>3. CASE UNCHANGED <<list, count>>
      BY <3>2, <3>3
    <3>4. CASE EntryMade(c)
      <4>1. count \in Nat /\ count' = count + 1 /\ i # count'
        BY <2>1, <2>2, <3>4 DEF EntryMade, Sizes
      <4>2. list'[i] = list[i]
        BY <2>2, <3>4, <4>1 DEF EntryMade
      <4> QED BY <3>2, <4>2
    <3>5. CASE EntryChanged(c)
      <4>1. CASE i # ptr[c]
        BY <2>2, <3>2, <3>5, <4>1 DEF EntryChanged
      <4>2. CASE i = ptr[c]
        BY <2>2, <3>2, <3>5, <4>2 DEF EntryChanged
      <4> QED BY <4>1, <4>2
    <3> QED BY <3>1, <3>3, <3>4, <3>5
  <2>5. ~Crash
    <3>1. crashes + 1 # crashes
      BY <2>1 DEF DeathsCounted
    <3> QED BY <3>1 DEF Crash
  <2>6. CASE Done
    <3>1. UNCHANGED <<list, count>>
      BY <2>6 DEF Done
    <3> QED BY <2>3, <3>1
  <2> QED BY <1>1, <2>4, <2>5, <2>6 DEF Next, Step
<1>2. [][Kept]_vars => OthersKeepAccess
  BY PTL DEF OthersKeepAccess
<1>3. Init => Inv /\ ListInv
  BY InitInv, InitList
<1>4. Inv /\ ListInv /\ [Next]_vars => Inv' /\ ListInv'
  BY NextInv, NextList
<1> HIDE DEF Kept
<1>5. Inv /\ ListInv /\ [Next]_vars => [Kept]_vars
  BY <1>1
<1> QED BY <1>2, <1>3, <1>4, <1>5, PTL DEF Spec
-----------------------------------------------------------------------------
(***************************************************************************)
(* One entry for each file, and the cache.                                 *)
(***************************************************************************)

\* What an entry of the metadata file or of a death's leavings comes from has the name of
\* the list's entry there.
LEMMA KnownName ==
  ASSUME FileFollows, NEW e, NEW i, Known(e, i), e.filename # NoFile
  PROVE  i \in 1 .. count /\ e.filename = list[i].filename
BY DEF FileFollows, Known, Blank

LEMMA StepUnique ==
  ASSUME Types, Places, Sizes, ListInv, UniqueInv, NamesApart, NoDeletes, OneCreate,
         NEW c \in Conns, Step(c)
  PROVE  UniqueInv'
<1>1. /\ Holders /\ EntryTypes /\ Pointers /\ OneEntry /\ FileFollows /\ Fresh
      /\ count \in Nat /\ count <= MaxEntries
  BY DEF ListInv, UniqueInv, Sizes
<1>2. UNCHANGED <<list, count>> \/ EntryMade(c) \/ EntryChanged(c)
  BY <1>1, ListMoves
<1>3. \A i \in 1 .. count : i \in 1 .. count' /\ list'[i].filename = list[i].filename
  BY <1>1, <1>2, NamesStay
<1>4. ASSUME EntryMade(c)
      PROVE  /\ Op[c] = "CREATE" /\ job[c].file = FileOf[c] /\ EntriesOf(FileOf[c]) = {}
             /\ count' = count + 1 /\ list'[count'].filename = FileOf[c]
  BY <1>1, <1>4 DEF EntryMade, Holders, Fresh
<1>5. ~EntryMade(c) => count' = count
  BY <1>2 DEF EntryChanged
<1>6. OneEntry'
  <2> SUFFICES ASSUME NEW i \in 1 .. count', NEW j \in 1 .. count',
                      list'[i].filename # NoFile, list'[i].filename = list'[j].filename
               PROVE  i = j
    BY DEF OneEntry
  <2>1. CASE i \in 1 .. count /\ j \in 1 .. count
    BY <1>1, <1>3, <2>1 DEF OneEntry
  <2>2. CASE EntryMade(c)
    <3>1. \A x \in 1 .. count : list'[x].filename # FileOf[c]
      BY <1>3, <1>4, <2>2 DEF EntriesOf
    <3>2. \A x \in 1 .. count' : x \in 1 .. count \/ x = count'
      BY <1>1, <1>4, <2>2
    <3> QED BY <1>4, <2>1, <2>2, <3>1, <3>2
  <2> QED BY <1>5, <2>1, <2>2
<1>7. FileFollows'
  <2> SUFFICES ASSUME NEW i \in DOMAIN mfile', mfile'[i].filename # NoFile
               PROVE  i \in 1 .. count' /\ mfile'[i].filename = list'[i].filename
    BY DEF FileFollows
  <2>1. Known(mfile'[i], i)
    BY FileMoves DEF Known
  <2>2. i \in 1 .. count /\ mfile'[i].filename = list[i].filename
    BY <1>1, <2>1, KnownName
  <2> QED BY <1>3, <2>2
<1>8. Fresh'
  <2> SUFFICES ASSUME NEW d \in Conns, pc'[d] = "create", NEW i \in 1 .. count',
                      list'[i].filename = FileOf[d]
               PROVE  FALSE
    BY DEF Fresh, EntriesOf
  <2>1. CASE d = c
    <3>1. FindMetadata(c)
      <4>1. /\ \A label : Goto(c, label) => pc'[c] = label
            /\ \A answer : Finish(c, answer) => pc'[c] = "done"
        BY LabelIs, EndIs
      <4>2. CASE NameServerStep(c)
        <5>1. Goto(c, "find") \/ \E answer : Finish(c, answer)
          BY <4>2 DEF NameServerStep, Forward, RequestAccess, RefuseDecision, Approve, Reject,
             CallFails, CallLost
        <5> QED BY <2>1, <4>1, <5>1
      <4>3. CASE StorageStep(c) /\ ~FindMetadata(c)
        <5>1. \/ \E label : label # "create" /\ Goto(c, label)
              \/ \E answer : Finish(c, answer)
          BY <4>3 DEF StorageStep, CreateEntry, Unlink, RemoveEntry, SaveOpen, SaveWrite,
             SaveClose, DropAccess, AppendAccess, Invalidate, CheckOwner, Lookup, Rebuild, Relookup
        <5> QED BY <2>1, <4>1, <5>1
      <4> QED BY <4>2, <4>3 DEF Step
    <3>2. UNCHANGED <<list, count>> /\ Op[c] = "CREATE" /\ EntriesOf(job[c].file) = {}
      BY <1>1, <2>1, <3>1, FoundIs
    <3>3. job[c].file = FileOf[c]
      BY <1>1, <3>2 DEF Holders
    <3> QED BY <2>1, <3>2, <3>3 DEF EntriesOf
  <2>2. CASE d # c
    <3>1. pc[d] = "create" /\ Op[d] = "CREATE" /\ EntriesOf(FileOf[d]) = {}
      BY <1>1, <2>2, OthersStay DEF Fresh, Holders
    <3>2. i \notin 1 .. count
      BY <1>3, <3>1 DEF EntriesOf
    <3>3. EntryMade(c) /\ i = count'
      BY <1>1, <1>4, <1>5, <3>2
    <3>4. FileOf[c] = FileOf[d] /\ Op[c] = "CREATE"
      BY <1>4, <3>3
    <3> QED BY <2>2, <3>1, <3>4 DEF OneCreate
  <2> QED BY <2>1, <2>2
<1> QED BY <1>6, <1>7, <1>8 DEF UniqueInv

LEMMA CrashUnique ==
  ASSUME Sizes, UniqueInv, Crash
  PROVE  UniqueInv'
<1>1. PICK left \in Leavings :
        /\ mfile' = left /\ count' = Len(left)
        /\ list' = [i \in 1 .. MaxEntries |-> IF i <= Len(left) THEN left[i] ELSE Blank]
  BY DEF Crash
<1>2. PICK n \in Nat : n = Len(left) /\ n <= MaxEntries /\ DOMAIN left = 1 .. n
  BY LeavingsFit, LenProperties
<1>3. \A i \in 1 .. n : list'[i] = left[i]
  <2>1. \A i \in 1 .. n : i \in 1 .. MaxEntries /\ i <= n
    BY <1>2
  <2> QED BY <1>1, <1>2, <2>1
<1>4. \A i \in 1 .. n : left[i].filename # NoFile =>
        i \in 1 .. count /\ left[i].filename = list[i].filename
  BY <1>2, LeavingsKnown, KnownName DEF UniqueInv
<1>5. OneEntry'
  <2> SUFFICES ASSUME NEW i \in 1 .. count', NEW j \in 1 .. count',
                      list'[i].filename # NoFile, list'[i].filename = list'[j].filename
               PROVE  i = j
    BY DEF OneEntry
  <2>1. i \in 1 .. n /\ j \in 1 .. n
    BY <1>1, <1>2
  <2>2. /\ i \in 1 .. count /\ list'[i].filename = list[i].filename
        /\ j \in 1 .. count /\ list'[j].filename = list[j].filename
    BY <1>3, <1>4, <2>1
  <2> QED BY <2>2 DEF OneEntry, UniqueInv
<1>6. FileFollows'
  BY <1>1, <1>2, <1>3 DEF FileFollows
<1>7. Fresh'
  <2>1. \A c \in Conns : pc'[c] # "create"
    BY DEF Crash
  <2> QED BY <2>1 DEF Fresh
<1> QED BY <1>5, <1>6, <1>7 DEF UniqueInv

LEMMA InitUnique == Init => UniqueInv
<1> SUFFICES ASSUME Init PROVE UniqueInv
  OBVIOUS
<1>1. PICK n \in Nat : n = Len(InitialList) /\ DOMAIN InitialList = 1 .. n /\ n <= MaxEntries
  BY LenProperties
<1>2. /\ mfile = InitialList /\ count = n
      /\ list = [i \in 1 .. MaxEntries |-> IF i <= n THEN InitialList[i] ELSE Blank]
  BY <1>1 DEF Init
<1>3. \A i \in 1 .. n : list[i] = InitialList[i]
  <2>1. \A i \in 1 .. n : i \in 1 .. MaxEntries /\ i <= n
    BY <1>1
  <2> QED BY <1>2, <2>1
<1>4. OneEntry
  <2>1. \A i, j \in 1 .. n : InitialList[i].filename = InitialList[j].filename => i = j
    BY <1>1, MetadataAssumption
  <2> QED BY ONLY <1>2, <1>3, <2>1 DEF OneEntry
<1>5. FileFollows
  BY <1>1, <1>2, <1>3 DEF FileFollows
<1>6. Fresh
  <2>1. \A c \in Conns : pc[c] # "create"
    BY DEF Init, FirstStep
  <2> QED BY <2>1 DEF Fresh
<1> QED BY <1>4, <1>5, <1>6 DEF UniqueInv

\* A thread that changes an access list keeps the job it has.
LEMMA HolderKeeps ==
  ASSUME Types, Holders, NEW c \in Conns, Step(c), metadata_mutex # NoConn
  PROVE  job'[metadata_mutex] = job[metadata_mutex]
<1>1. metadata_mutex \in Conns /\ pc[metadata_mutex] \in Locking
  BY DEF Holders
<1>2. pc[metadata_mutex] # "start"
  BY <1>1 DEF Locking
<1> QED BY <1>1, <1>2, LocalsStay

LEMMA StepCache ==
  ASSUME Types, Places, Sizes, ListInv, UniqueInv, CacheInv, NamesApart, NoDeletes,
         NEW c \in Conns, Step(c)
  PROVE  CacheInv'
<1>1. /\ Holders /\ EntryTypes /\ Pointers /\ CacheTypes /\ OneEntry /\ Fresh
      /\ CachedExists /\ CacheSound /\ count \in Nat /\ count <= MaxEntries
  BY DEF ListInv, UniqueInv, CacheInv, Sizes
<1>2. CacheTypes' /\ DOMAIN cache = Slots /\ DOMAIN cache' = Slots
  BY <1>1, StepCacheTypes DEF CacheTypes, Slots
<1>3. UNCHANGED <<list, count>> \/ EntryMade(c) \/ EntryChanged(c)
  BY <1>1, ListMoves
<1> DEFINE Entries2(f) == {i \in 1 .. count' : list'[i].filename = f}
           Changed2(f) == metadata_mutex' # NoConn /\ job'[metadata_mutex'].file = f
<1>4. \A f : EntriesOf(f) \subseteq Entries2(f)
  <2>1. \A i \in 1 .. count : i \in 1 .. count' /\ list'[i].filename = list[i].filename
    BY <1>1, <1>3, NamesStay
  <2> QED BY <2>1 DEF EntriesOf
<1> DEFINE Backed(e) == \A i \in EntriesOf(e.key[1]) :
                          [name |-> e.key[2], type |-> e.access] \in Range(list[i].acl)
           Backed2(e) == \A i \in Entries2(e.key[1]) :
                          [name |-> e.key[2], type |-> e.access] \in Range(list'[i].acl)
<1>5. ASSUME NEW k \in Slots, cache[k] # NoEntry
      PROVE  /\ EntriesOf(cache[k].key[1]) # {} /\ Entries2(cache[k].key[1]) # {}
             /\ BeingChanged(cache[k].key[1]) \/ Backed(cache[k])
  <2>1. EntriesOf(cache[k].key[1]) # {}
    BY <1>1, <1>2, <1>5 DEF CachedExists
  <2>2. Entries2(cache[k].key[1]) # {}
    BY <1>4, <2>1
  <2>3. BeingChanged(cache[k].key[1]) \/ Backed(cache[k])
    BY <1>1, <1>2, <1>5 DEF CacheSound
  <2> QED BY <2>1, <2>2, <2>3
<1>6. ASSUME \A k \in Slots : cache'[k] # NoEntry =>
               /\ Entries2(cache'[k].key[1]) # {}
               /\ Changed2(cache'[k].key[1]) \/ Backed2(cache'[k])
      PROVE  CacheInv'
  <2>1. CachedExists'
    BY <1>2, <1>6 DEF CachedExists, EntriesOf
  <2>2. CacheSound'
    BY <1>2, <1>6 DEF CacheSound, EntriesOf, BeingChanged
  <2> QED BY <2>1, <2>2 DEF CacheInv
<1>7. CASE UNCHANGED <<list, count, metadata_mutex>>
  <2>1. /\ \A f : Entries2(f) = EntriesOf(f)
        /\ \A f : BeingChanged(f) => Changed2(f)
    BY <1>1, <1>7, HolderKeeps DEF EntriesOf, BeingChanged
  <2>2. \A e : Backed(e) => Backed2(e)
    BY <1>7, <2>1
  <2>3. CASE Rebuild(c)
    <3>1. /\ ptr[c] \in EntriesOf(FileOf[c]) /\ FileOf[c] # NoFile
          /\ \A k \in Slots : \/ cache'[k] = cache[k]
                              \/ cache'[k] \in Cacheable(FileOf[c], list[ptr[c]].acl)
      BY <1>1, <2>3, RebuildIs
    <3>2. EntriesOf(FileOf[c]) = {ptr[c]}
      BY <1>1, <3>1 DEF OneEntry, EntriesOf
    <3>3. ASSUME NEW e \in Cacheable(FileOf[c], list[ptr[c]].acl)
          PROVE  EntriesOf(e.key[1]) # {} /\ Backed(e)
      <4>1. PICK x \in Range(list[ptr[c]].acl) :
              e = [key |-> <<FileOf[c], x.name>>, access |-> x.type]
        BY DEF Cacheable
      <4>2. e.key[1] = FileOf[c] /\ e.key[2] = x.name /\ e.access = x.type
        BY <4>1
      <4>3. [name |-> x.name, type |-> x.type] = x
        <5>1. ptr[c] \in 1 .. MaxEntries /\ list[ptr[c]].filename = FileOf[c] /\ FileOf[c] # NoFile
          BY <1>1, <3>1 DEF EntriesOf
        <5>2. list[ptr[c]] \in FileMetadata
          BY <1>1, <5>1 DEF EntryTypes, Blank
        <5>3. PICK acl : acl = list[ptr[c]].acl /\ acl \in Seq(AclEntry)
          BY <5>2 DEF FileMetadata
        <5>4. x \in AclEntry
          BY <4>1, <5>3 DEF Range
        <5> QED BY <5>4 DEF AclEntry
      <4>4. [name |-> e.key[2], type |-> e.access] = x
        BY <4>2, <4>3
      <4> QED BY <3>2, <4>1, <4>2, <4>4
    <3> HIDE DEF Backed, Backed2, Entries2, Changed2
    <3> QED BY <1>5, <1>6, <2>1, <2>2, <3>1, <3>3
  <2>4. CASE ~Rebuild(c)
    <3>1. ~Invalidate(c)
      <4>1. Invalidate(c) => metadata_mutex = c /\ metadata_mutex' = NoConn
        BY <1>1 DEF Invalidate, Holders, Locking
      <4> QED BY <1>7, <4>1
    <3>2. UNCHANGED cache
      BY <2>4, <3>1, CacheStays
    <3> HIDE DEF Backed, Backed2, Entries2, Changed2
    <3> QED BY <1>5, <1>6, <2>1, <2>2, <3>2
  <2> QED BY <2>3, <2>4
<1>8. CASE EntryMade(c)
  <2>1. /\ UNCHANGED <<cache, metadata_mutex, job>> /\ metadata_mutex = NoConn
        /\ Op[c] = "CREATE" /\ job[c].file = FileOf[c] /\ EntriesOf(FileOf[c]) = {}
        /\ count' = count + 1 /\ list'[count'].filename = FileOf[c]
        /\ \A i \in 1 .. MaxEntries : i # count' => list'[i] = list[i]
    BY <1>1, <1>8 DEF EntryMade, Holders, Fresh
  <2>2. \A x \in 1 .. count' : x = count' \/ (x \in 1 .. count /\ x \in 1 .. MaxEntries /\ x # count')
    BY <1>1, <2>1
  <2>3. ASSUME NEW k \in Slots, cache[k] # NoEntry
        PROVE  Backed2(cache[k])
    <3>1. cache[k].key[1] # FileOf[c] /\ Backed(cache[k])
      BY <1>5, <2>1, <2>3 DEF BeingChanged
    <3>2. \A i \in Entries2(cache[k].key[1]) : i \in EntriesOf(cache[k].key[1]) /\ list'[i] = list[i]
      BY <2>1, <2>2, <3>1 DEF EntriesOf
    <3> QED BY <3>1, <3>2
  <2> HIDE DEF Backed, Backed2, Entries2, Changed2
  <2> QED BY <1>5, <1>6, <2>1, <2>3
<1>9. CASE EntryChanged(c)
  <2>1. /\ UNCHANGED <<count, cache, job>> /\ metadata_mutex \in {NoConn, c} /\ metadata_mutex' = c
        /\ list[ptr[c]].filename = job[c].file /\ list'[ptr[c]].filename = job[c].file
        /\ \A i \in 1 .. MaxEntries : i # ptr[c] => list'[i] = list[i]
    BY <1>9 DEF EntryChanged
  <2>2. ASSUME NEW k \in Slots, cache[k] # NoEntry
        PROVE  Changed2(cache[k].key[1]) \/ Backed2(cache[k])
    <3>1. CASE cache[k].key[1] = job[c].file
      BY <2>1, <3>1 DEF BeingChanged
    <3>2. CASE cache[k].key[1] # job[c].file
      <4>1. Backed(cache[k])
        BY <1>5, <2>1, <2>2, <3>2 DEF BeingChanged
      <4>2. \A i \in Entries2(cache[k].key[1]) : i \in EntriesOf(cache[k].key[1]) /\ list'[i] = list[i]
        <5>1. \A i \in 1 .. count : i \in 1 .. MaxEntries
          BY <1>1
        <5> QED BY <2>1, <3>2, <5>1 DEF EntriesOf
      <4> QED BY <4>1, <4>2
    <3> QED BY <3>1, <3>2
  <2> HIDE DEF Backed, Backed2, Entries2, Changed2
  <2> QED BY <1>5, <1>6, <2>1, <2>2
<1>10. CASE Invalidate(c)
  <2>1. /\ metadata_mutex = c /\ metadata_mutex' = NoConn /\ UNCHANGED <<list, count, job>>
        /\ cache' = Invalidated(job[c].file)
    BY <1>1, <1>10 DEF Invalidate, Holders, Locking
  <2>2. \A k \in Slots : cache'[k] # NoEntry =>
          cache'[k] = cache[k] /\ cache[k] # NoEntry /\ cache[k].key[1] # job[c].file
    BY <1>2, <2>1 DEF Invalidated
  <2>3. \A f : f # job[c].file => ~BeingChanged(f)
    BY <2>1 DEF BeingChanged
  <2>4. \A e : Backed(e) => Backed2(e)
    BY <2>1 DEF EntriesOf
  <2> HIDE DEF Backed, Backed2, Entries2, Changed2
  <2>5. \A k \in Slots : cache'[k] # NoEntry =>
          Entries2(cache'[k].key[1]) # {} /\ Backed2(cache'[k])
    BY <1>5, <2>2, <2>3, <2>4
  <2> QED BY <1>6, <2>5
<1>11. UNCHANGED metadata_mutex \/ EntryChanged(c) \/ Invalidate(c)
  <2>1. CASE NameServerStep(c)
    BY <2>1 DEF NameServerStep, Forward, RequestAccess, RefuseDecision, Approve, Reject,
       CallFails, CallLost
  <2>2. CASE StorageStep(c) /\ ~DropAccess(c) /\ ~Invalidate(c)
    BY <2>2 DEF StorageStep, FindMetadata, CreateEntry, Unlink, RemoveEntry, SaveOpen, SaveWrite,
       SaveClose, AppendAccess, CheckOwner, Lookup, Rebuild, Relookup
  <2>3. CASE DropAccess(c)
    BY <1>1, <2>3, ListMoves
  <2> QED BY <2>1, <2>2, <2>3 DEF Step
<1> QED BY <1>3, <1>7, <1>8, <1>9, <1>10, <1>11

\* All that the theorems about the cache rest on.
AccessInv == Inv /\ ListInv /\ UniqueInv /\ CacheInv

LEMMA AccessInvHolds ==
  ASSUME NamesApart, NoDeletes, OneCreate
  PROVE  (Init => AccessInv) /\ (AccessInv /\ [Next]_vars => AccessInv')
<1>1. Init => AccessInv
  <2>1. Init => CacheInv
    BY DEF Init, CacheInv, CachedExists, CacheSound
  <2> QED BY <2>1, InitInv, InitList, InitUnique DEF AccessInv
<1>2. ASSUME AccessInv, [Next]_vars
      PROVE  AccessInv'
  <2>1. /\ Inv /\ ListInv /\ UniqueInv /\ CacheInv /\ Types /\ Places /\ Sizes
    BY <1>2 DEF AccessInv, Inv
  <2>2. Inv' /\ ListInv'
    BY <1>2, <2>1, NextInv, NextList
  <2>3. ASSUME NEW c \in Conns, Step(c)
        PROVE  UniqueInv' /\ CacheInv'
    BY <2>1, <2>3, StepUnique, StepCache
  <2>4. CASE Crash
    <3>1. \A k \in DOMAIN cache' : cache'[k] = NoEntry
      BY <2>4 DEF Crash
    <3>2. CacheInv'
      BY <3>1 DEF CacheInv, CachedExists, CacheSound
    <3> QED BY <2>1, <2>2, <2>4, <3>2, CrashUnique DEF AccessInv
  <2>5. CASE UNCHANGED vars
    <3>1. UniqueInv'
      BY <2>1, <2>5 DEF UniqueInv, OneEntry, FileFollows, Fresh, EntriesOf
    <3>2. CacheInv'
      BY <2>1, <2>5 DEF CacheInv, CachedExists, CacheSound, EntriesOf, BeingChanged
    <3> QED BY <2>2, <3>1, <3>2 DEF AccessInv
  <2> QED BY <1>2, <2>2, <2>3, <2>4, <2>5 DEF AccessInv, Next, Done, Step
<1> QED BY <1>1, <1>2

\* access_cache never knows more than the access lists, for any number of checks, changes,
\* creations and deaths that overlap, any hash function and any size of the table: where a
\* check caches an entry of a list that is being changed, the change has yet to invalidate
\* the cache.
THEOREM CacheStaysSound ==
  ASSUME NamesApart, NoDeletes, OneCreate
  PROVE  Spec => []CacheSound
<1>1. AccessInv => CacheSound
  BY DEF AccessInv, CacheInv
<1> QED BY <1>1, AccessInvHolds, PTL DEF Spec

\* The probe ends at a slot of the table.
LEMMA ProbeIs ==
  ASSUME NEW table, NEW key \in Files \X Users
  PROVE  Probe(table, key) = NoSlot \/ Probe(table, key) \in Slots
<1> DEFINE At(i) == (Hash[key] + i) % CacheSize
           stops == {i \in 0 .. CacheSize - 1 : \/ table[At(i)].key = key
                                                \/ i > 0 /\ table[At(i)] = NoEntry}
<1>1. \A i \in Int : At(i) \in Slots
  <2>1. Hash[key] \in Int /\ CacheSize \in Nat \ {0}
    OBVIOUS
  <2>2. \A x \in Int : x % CacheSize \in 0 .. CacheSize - 1
    BY <2>1
  <2>3. \A i \in Int : Hash[key] + i \in Int
    BY <2>1
  <2> QED BY ONLY <2>2, <2>3 DEF Slots
<1>2. Probe(table, key) = IF stops = {} THEN NoSlot ELSE At(Min(stops))
  BY DEF Probe
<1>3. stops \in SUBSET Nat
  OBVIOUS
<1> HIDE DEF stops, At
<1>4. stops # {} => Min(stops) \in Int
  <2>1. PICK S \in SUBSET Nat : S = stops
    BY <1>3
  <2>2. S # {} => Min(S) \in S
    BY MinIsLeast
  <2>3. PICK m : m = Min(S)
    OBVIOUS
  <2>4. m \in S => m \in Int
    BY ONLY S \in SUBSET Nat
  <2> QED BY <2>1, <2>2, <2>3, <2>4
<1> QED BY <1>1, <1>2, <1>4

\* What lookup_access_cache grants is in the list, unless the list is being changed.
LEMMA HitIsListed ==
  ASSUME AccessInv, NEW c \in Conns, pc[c] \in Checking, Hit(c)
  PROVE  MayAccess(c) \/ BeingChanged(FileOf[c])
<1>1. /\ Types /\ Holders /\ Pointers /\ CacheTypes /\ CacheSound
  BY DEF AccessInv, Inv, ListInv, CacheInv
<1>2. PICK key, k : key = <<FileOf[c], UserOf[c]>> /\ k = Probe(cache, key)
  OBVIOUS
<1>3. k # NoSlot /\ cache[k].key = key /\ Suffices(cache[k].access, Op[c])
  BY <1>2 DEF Hit
<1>4. key \in Files \X Users /\ key # <<>> /\ key[1] = FileOf[c] /\ key[2] = UserOf[c]
  BY <1>2
<1>5. k \in Slots
  BY <1>2, <1>3, <1>4, ProbeIs
<1>6. cache[k] # NoEntry
  BY <1>3, <1>4 DEF NoEntry
<1>7. cache[k].access \in Access /\ k \in DOMAIN cache
  BY <1>1, <1>5, <1>6 DEF CacheTypes, CacheEntry, Slots
<1>8. ptr[c] \in EntriesOf(FileOf[c])
  <2>1. Checks(c) /\ ptr[c] \in 1 .. count /\ list[ptr[c]].filename = job[c].file
    BY <1>1 DEF Holders, Pointers, Pointing
  <2>2. job[c].file = FileOf[c]
    BY <1>1, <2>1 DEF Holders, Checks
  <2> QED BY <2>1, <2>2 DEF EntriesOf
<1>9. PICK e : e = [name |-> UserOf[c], type |-> cache[k].access]
  OBVIOUS
<1>10. BeingChanged(FileOf[c]) \/ e \in Range(list[ptr[c]].acl)
  BY <1>1, <1>3, <1>4, <1>6, <1>7, <1>8, <1>9 DEF CacheSound
<1>11. /\ e.name = UserOf[c] /\ e.type \in Access
       /\ Op[c] = "WRITE" => e.type = "RW"
  BY <1>3, <1>7, <1>9 DEF Suffices
<1> QED BY <1>8, <1>10, <1>11 DEF MayAccess

\* has_read_access_ll and has_write_access_ll let in nobody who is not the owner and not in
\* the list at that moment, unless the list is being changed just then, whatever is in the
\* cache and whoever else checks, changes or creates.
THEOREM GrantedOnlyListed ==
  ASSUME NamesApart, NoDeletes, OneCreate
  PROVE  Spec => GrantedIsListed
<1> DEFINE Lawful ==
      \A c \in Conns : reply[c] # "granted" /\ reply'[c] = "granted" =>
        MayAccess(c) \/ BeingChanged(FileOf[c])
<1>1. ASSUME AccessInv, Next
      PROVE  Lawful
  <2> SUFFICES ASSUME NEW c \in Conns, reply[c] # "granted", reply'[c] = "granted"
               PROVE  MayAccess(c) \/ BeingChanged(FileOf[c])
    OBVIOUS
  <2>1. Types /\ Holders /\ Pointers /\ Places
    BY <1>1 DEF AccessInv, Inv, ListInv
  <2>2. ~Crash /\ ~Done
    BY <2>1 DEF Crash, Done
  <2>3. Step(c)
    <3>1. PICK d \in Conns : Step(d)
      BY <1>1, <2>2 DEF Next, Step
    <3>2. \A x \in Conns \ {d} : reply'[x] = reply[x]
      BY <2>1, <3>1, OthersStay
    <3> QED BY <3>1, <3>2
  <2>4. /\ \A label : ~Goto(c, label)
        /\ \A answer : Finish(c, answer) => answer = "granted"
    BY <2>1 DEF Goto, Finish, Types
  <2>5. CASE CheckOwner(c)
    <3>1. pc[c] = "owner" /\ list[ptr[c]].owner = UserOf[c]
      BY <2>4, <2>5 DEF CheckOwner
    <3>2. Checks(c) /\ ptr[c] \in 1 .. count /\ list[ptr[c]].filename = job[c].file
      BY <2>1, <3>1 DEF Holders, Pointers, Pointing, Checking
    <3>3. job[c].file = FileOf[c]
      BY <2>1, <3>2 DEF Holders, Checks
    <3> QED BY <3>1, <3>2, <3>3 DEF MayAccess, EntriesOf
  <2>6. CASE Lookup(c) \/ Relookup(c)
    <3>1. pc[c] \in Checking /\ Hit(c)
      BY <2>4, <2>6 DEF Lookup, Relookup, Checking
    <3> QED BY <1>1, <3>1, HitIsListed
  <2>7. CASE NameServerStep(c)
    <3>1. RequestAnswer(c) # "granted" /\ \A i : DecisionAnswer(c, i) # "granted"
      BY DEF RequestAnswer, DecisionAnswer
    <3>2. (\E label : Goto(c, label)) \/ \E answer : answer # "granted" /\ Finish(c, answer)
      BY <2>7, <3>1 DEF NameServerStep, Forward, RequestAccess, RefuseDecision, Approve, Reject,
         CallFails, CallLost
    <3> QED BY <2>4, <3>2
  <2>8. CASE StorageStep(c) /\ ~CheckOwner(c) /\ ~Lookup(c) /\ ~Relookup(c)
    <3>1. (\E label : Goto(c, label)) \/ \E answer : answer # "granted" /\ Finish(c, answer)
      BY <2>8 DEF StorageStep, FindMetadata, CreateEntry, Unlink, RemoveEntry, SaveOpen, SaveWrite,
         SaveClose, DropAccess, AppendAccess, Invalidate, Rebuild
    <3> QED BY <2>4, <3>1
  <2> QED BY <2>3, <2>5, <2>6, <2>7, <2>8 DEF Step
<1>2. [][Lawful]_vars => GrantedIsListed
  BY PTL DEF GrantedIsListed
<1> HIDE DEF Lawful
<1>3. AccessInv /\ [Next]_vars => [Lawful]_vars
  BY <1>1
<1> QED BY <1>2, <1>3, AccessInvHolds, PTL DEF Spec

-----------------------------------------------------------------------------
(***************************************************************************)
(* Approved requests.                                                      *)
(***************************************************************************)

\* Nobody asks twice for access to the same file.  (Two requests of a user, both approved,
\* may be carried out in either order, and the one carried out last decides.)
AskedOnce ==
  \A c \in Conns, d \in Conns :
    Op[c] = "REQUESTACCESS" /\ Op[d] = "REQUESTACCESS" /\ FileOf[c] = FileOf[d]
      /\ UserOf[c] = UserOf[d] => c = d

\* The storage server knows the files that the name server lists.
ListedAreStored ==
  \A f \in DOMAIN OwnerOf : \E i \in DOMAIN InitialList : InitialList[i].filename = f

\* A request of the table was made by a connection that is done, about a listed file, and
\* no two are for the same user and file.
Asked ==
  \A i \in DOMAIN requests :
    /\ requests[i].filename \in DOMAIN OwnerOf
    /\ \E c \in Conns : /\ Op[c] = "REQUESTACCESS" /\ pc[c] = "done"
                        /\ FileOf[c] = requests[i].filename /\ UserOf[c] = requests[i].requester
AskedApart ==
  \A i \in DOMAIN requests, j \in DOMAIN requests :
    requests[i].filename = requests[j].filename /\ requests[i].requester = requests[j].requester
      => i = j

\* handle_approverequest has recorded the approval, and the access is not in the list yet.
Granting(d) == Op[d] = "APPROVE" /\ pc[d] \in {"find", "change", "append"}
JobFor(r) == [file |-> r.filename, user |-> r.requester, access |-> r.access_type]

\* What a thread that grants works on is an approved request; the others work on what they
\* were sent.
Jobs ==
  /\ \A d \in Conns : Granting(d) =>
       \E i \in DOMAIN requests : requests[i].status = "approved" /\ job[d] = JobFor(requests[i])
  /\ \A d \in Conns : Op[d] # "APPROVE" => job[d].user = TargetOf[d]

\* Another change for the user of a request was asked for.
OtherChange(r) ==
  \E c \in Conns : /\ Op[c] \in {"ADDACCESS", "REMACCESS"}
                   /\ FileOf[c] = r.filename /\ TargetOf[c] = r.requester

\* The access list gives what was asked for.
Given(r) ==
  \E i \in EntriesOf(r.filename) :
    [name |-> r.requester, type |-> r.access_type] \in Range(list[i].acl)

\* While calls succeed and the server lives, an approved request is granted, or its grant is
\* under way, or another change was asked for.
OnTheWay ==
  failures = 0 /\ crashes = 0 =>
    \A i \in DOMAIN requests : requests[i].status = "approved" =>
      \/ OtherChange(requests[i])
      \/ \E d \in Conns : Granting(d) /\ job[d] = JobFor(requests[i])
      \/ Given(requests[i])

\* Listed files have an entry until a death.
StillStored == crashes = 0 => \A f \in DOMAIN OwnerOf : EntriesOf(f) # {}

GrantInv == Asked /\ AskedApart /\ Jobs /\ OnTheWay /\ StillStored /\ failures \in Nat

-----------------------------------------------------------------------------
\* What a step does to the table of requests: nothing, or it adds one, or it decides one.
Added(c) ==
  \E r \in Request :
    /\ requests' = Append(requests, r) /\ r.status = "pending"
    /\ Op[c] = "REQUESTACCESS" /\ pc[c] = "start" /\ pc'[c] = "done"
    /\ FileOf[c] \in DOMAIN OwnerOf /\ r.filename = FileOf[c] /\ r.requester = UserOf[c]
DecidedAs(c, i, status) ==
  /\ requests[i].status = "pending"
  /\ requests' = [requests EXCEPT ![i].status = status]
  /\ status = "approved" =>
       /\ Op[c] = "APPROVE" /\ pc'[c] = "find" /\ job'[c] = JobFor(requests[i])

LEMMA TableMoves ==
  ASSUME Types, NEW c \in Conns, Step(c)
  PROVE  \/ UNCHANGED requests
         \/ Added(c)
         \/ \E i \in DOMAIN requests, status \in {"approved", "rejected"} : DecidedAs(c, i, status)
<1>1. /\ pc \in [Conns -> PCs] /\ requests \in Seq(Request)
      /\ job \in [Conns -> [file : Files, user : Users, access : Access]]
  BY DEF Types
<1>2. ASSUME NEW t \in 0 .. MaxTime, RequestAccess(c, t)
      PROVE  UNCHANGED requests \/ Added(c)
  <2>1. CASE RequestAnswer(c) # "SUCCESS"
    BY <1>2, <2>1 DEF RequestAccess
  <2>2. CASE RequestAnswer(c) = "SUCCESS"
    <3> DEFINE r == [request_id |-> <<FileOf[c], UserOf[c], t>>,
                     filename |-> FileOf[c], requester |-> UserOf[c],
                     owner |-> OwnerOf[FileOf[c]], access_type |-> AccessOf[c],
                     request_time |-> t, status |-> "pending"]
    <3>1. FileOf[c] \in DOMAIN OwnerOf
      BY <2>2 DEF RequestAnswer, Listed
    <3>2. r \in Request /\ r.status = "pending" /\ r.filename = FileOf[c] /\ r.requester = UserOf[c]
      BY <3>1 DEF Request
    <3>3. requests' = Append(requests, r) /\ Op[c] = "REQUESTACCESS" /\ pc[c] = "start"
      BY <1>2, <2>2 DEF RequestAccess
    <3>4. pc'[c] = "done"
      BY <1>2, EndIs DEF RequestAccess
    <3> HIDE DEF r
    <3> QED BY <3>1, <3>2, <3>3, <3>4 DEF Added
  <2> QED BY <2>1, <2>2
<1>3. ASSUME NEW id, Approve(c, id)
      PROVE  \E i \in DOMAIN requests : DecidedAs(c, i, "approved")
  <2>1. PICK i : i = FoundRequest(id)
    OBVIOUS
  <2>2. /\ i \in DOMAIN requests /\ requests' = [requests EXCEPT ![i].status = "approved"]
        /\ requests[i].status = "pending"
        /\ job' = [job EXCEPT ![c] = JobFor(requests[i])] /\ Goto(c, "find") /\ Op[c] = "APPROVE"
    BY <1>3, <2>1, FoundTypes DEF Approve, JobFor
  <2>3. job'[c] = JobFor(requests[i]) /\ pc'[c] = "find"
    BY <1>1, <2>2, LabelIs
  <2> QED BY <2>2, <2>3 DEF DecidedAs
<1>4. ASSUME NEW id, Reject(c, id)
      PROVE  \E i \in DOMAIN requests : DecidedAs(c, i, "rejected")
  <2>1. PICK i : i = FoundRequest(id)
    OBVIOUS
  <2>2. /\ i \in DOMAIN requests /\ requests' = [requests EXCEPT ![i].status = "rejected"]
        /\ requests[i].status = "pending"
    BY <1>4, <2>1, FoundTypes DEF Reject
  <2> QED BY <2>2 DEF DecidedAs
<1>5. CASE Forward(c) \/ (\E id : RefuseDecision(c, id)) \/ CallFails(c) \/ CallLost(c)
  BY <1>5 DEF Forward, RefuseDecision, CallFails, CallLost
<1>6. CASE StorageStep(c)
  BY <1>6 DEF StorageStep, FindMetadata, CreateEntry, Unlink, RemoveEntry, SaveOpen, SaveWrite,
     SaveClose, DropAccess, AppendAccess, Invalidate, CheckOwner, Lookup, Rebuild, Relookup
<1> QED BY <1>2, <1>3, <1>4, <1>5, <1>6 DEF Step, NameServerStep

\* A request of the table keeps its place and its contents; a new one is pending.
Keeps(i) ==
  /\ requests'[i].filename = requests[i].filename
  /\ requests'[i].requester = requests[i].requester
  /\ requests'[i].access_type = requests[i].access_type

LEMMA TableKeeps ==
  ASSUME Types, NEW c \in Conns, Step(c)
  PROVE  /\ \A i \in DOMAIN requests : i \in DOMAIN requests' /\ Keeps(i)
         /\ \A i \in DOMAIN requests : requests[i].status = "approved" =>
              requests'[i].status = "approved"
         /\ \A i \in DOMAIN requests' : requests'[i].status = "approved" =>
              /\ i \in DOMAIN requests
              /\ requests[i].status = "approved" \/ DecidedAs(c, i, "approved")
<1>1. requests \in Seq(Request)
  BY DEF Types
<1>2. CASE UNCHANGED requests
  BY <1>2 DEF Keeps
<1>3. CASE Added(c)
  <2>1. PICK r \in Request : requests' = Append(requests, r) /\ r.status = "pending"
    BY <1>3 DEF Added
  <2>2. PICK n \in Nat : n = Len(requests) /\ DOMAIN requests = 1 .. n
    BY <1>1, LenProperties
  <2>3. /\ DOMAIN requests' = 1 .. n + 1 /\ requests'[n + 1] = r
        /\ \A i \in 1 .. n : requests'[i] = requests[i]
    BY <1>1, <2>1, <2>2, AppendProperties
  <2>4. (\A i \in 1 .. n : i \in 1 .. n + 1) /\ (\A i \in 1 .. n + 1 : i \in 1 .. n \/ i = n + 1)
    BY ONLY n \in Nat
  <2> QED BY <2>1, <2>2, <2>3, <2>4 DEF Keeps
<1>4. ASSUME NEW i \in DOMAIN requests, NEW status \in {"approved", "rejected"}, DecidedAs(c, i, status)
      PROVE  /\ DOMAIN requests' = DOMAIN requests /\ Keeps(i) /\ requests'[i].status = status
             /\ \A j \in DOMAIN requests \ {i} : requests'[j] = requests[j]
  BY <1>4, Decided DEF DecidedAs, Keeps
<1>5. CASE \E i \in DOMAIN requests, status \in {"approved", "rejected"} : DecidedAs(c, i, status)
  <2>1. PICK i \in DOMAIN requests, status \in {"approved", "rejected"} : DecidedAs(c, i, status)
    BY <1>5
  <2>2. /\ DOMAIN requests' = DOMAIN requests /\ Keeps(i) /\ requests'[i].status = status
        /\ \A j \in DOMAIN requests \ {i} : requests'[j] = requests[j]
    BY <1>4, <2>1
  <2>3. \A j \in DOMAIN requests \ {i} : Keeps(j)
    BY <2>2 DEF Keeps
  <2>4. requests[i].status = "pending"
    BY <2>1 DEF DecidedAs
  <2> QED BY <2>1, <2>2, <2>3, <2>4
<1> QED BY <1>2, <1>3, <1>5, TableMoves

LEMMA StepAsked ==
  ASSUME Types, Places, Asked, AskedApart, AskedOnce, NEW c \in Conns, Step(c)
  PROVE  Asked' /\ AskedApart'
<1>1. requests \in Seq(Request) /\ pc \in [Conns -> PCs]
  BY DEF Types
<1>2. ASSUME NEW d \in Conns, Op[d] = "REQUESTACCESS", pc[d] = "done"
      PROVE  pc'[d] = "done"
  <2>1. ~Step(d)
    BY <1>2 DEF Step, NameServerStep, StorageStep, Forward, RequestAccess, RefuseDecision, Approve,
       Reject, CallFails, CallLost, FindMetadata, CreateEntry, Unlink, RemoveEntry, SaveOpen,
       SaveWrite, SaveClose, DropAccess, AppendAccess, Invalidate, CheckOwner, Lookup, Rebuild,
       Relookup
  <2> QED BY <1>2, <2>1, OthersStay
<1>3. \A i \in DOMAIN requests : i \in DOMAIN requests' /\ Keeps(i)
  BY TableKeeps
<1>4. ASSUME NEW i \in DOMAIN requests
      PROVE  /\ requests'[i].filename \in DOMAIN OwnerOf
             /\ \E d \in Conns : /\ Op[d] = "REQUESTACCESS" /\ pc'[d] = "done"
                                 /\ FileOf[d] = requests'[i].filename
                                 /\ UserOf[d] = requests'[i].requester
  <2>1. PICK d \in Conns : /\ Op[d] = "REQUESTACCESS" /\ pc[d] = "done"
                           /\ FileOf[d] = requests[i].filename /\ UserOf[d] = requests[i].requester
    BY DEF Asked
  <2>2. pc'[d] = "done"
    BY <1>2, <2>1
  <2>3. requests[i].filename \in DOMAIN OwnerOf /\ Keeps(i)
    BY <1>3 DEF Asked
  <2> QED BY <2>1, <2>2, <2>3 DEF Keeps
<1>5. CASE DOMAIN requests' = DOMAIN requests
  <2>1. Asked'
    BY <1>4, <1>5 DEF Asked
  <2>2. AskedApart'
    BY <1>3, <1>5 DEF AskedApart, Keeps
  <2> QED BY <2>1, <2>2
<1>6. CASE Added(c)
  <2>1. PICK r \in Request :
          /\ requests' = Append(requests, r) /\ Op[c] = "REQUESTACCESS" /\ pc[c] = "start"
          /\ pc'[c] = "done" /\ FileOf[c] \in DOMAIN OwnerOf
          /\ r.filename = FileOf[c] /\ r.requester = UserOf[c]
    BY <1>6 DEF Added
  <2>2. PICK n \in Nat : n = Len(requests) /\ DOMAIN requests = 1 .. n
    BY <1>1, LenProperties
  <2>3. DOMAIN requests' = 1 .. n + 1 /\ requests'[n + 1] = r
    BY <1>1, <2>1, <2>2, AppendProperties
  <2>4. \A i \in 1 .. n + 1 : i \in 1 .. n \/ i = n + 1
    BY ONLY n \in Nat
  <2>5. Asked'
    <3>1. /\ requests'[n + 1].filename \in DOMAIN OwnerOf
          /\ FileOf[c] = requests'[n + 1].filename /\ UserOf[c] = requests'[n + 1].requester
      BY <2>1, <2>3
    <3>2. ASSUME NEW i \in DOMAIN requests'
          PROVE  /\ requests'[i].filename \in DOMAIN OwnerOf
                 /\ \E d \in Conns : /\ Op[d] = "REQUESTACCESS" /\ pc'[d] = "done"
                                     /\ FileOf[d] = requests'[i].filename
                                     /\ UserOf[d] = requests'[i].requester
      <4>1. CASE i = n + 1
        BY <2>1, <3>1, <4>1
      <4>2. CASE i \in 1 .. n
        BY <1>4, <2>2, <4>2
      <4> QED BY <2>3, <2>4, <4>1, <4>2
    <3> QED BY <3>2 DEF Asked
  <2>6. ASSUME NEW i \in DOMAIN requests, requests'[i].filename = r.filename,
               requests'[i].requester = r.requester
        PROVE  FALSE
    <3>1. PICK d \in Conns : /\ Op[d] = "REQUESTACCESS" /\ pc[d] = "done"
                             /\ FileOf[d] = requests[i].filename
                             /\ UserOf[d] = requests[i].requester
      BY DEF Asked
    <3>2. FileOf[d] = FileOf[c] /\ UserOf[d] = UserOf[c]
      BY <1>3, <2>1, <2>6, <3>1 DEF Keeps
    <3>3. d = c
      BY <2>1, <3>1, <3>2 DEF AskedOnce
    <3> QED BY <2>1, <3>1, <3>3
  <2>7. AskedApart'
    <3>1. \A i \in 1 .. n, j \in 1 .. n :
            requests'[i].filename = requests'[j].filename
              /\ requests'[i].requester = requests'[j].requester => i = j
      BY <1>3, <2>2 DEF AskedApart, Keeps
    <3>2. \A i \in 1 .. n : ~(requests'[i].filename = requests'[n + 1].filename
                              /\ requests'[i].requester = requests'[n + 1].requester)
      BY <2>2, <2>3, <2>6
    <3> QED BY <2>3, <2>4, <3>1, <3>2 DEF AskedApart
  <2> QED BY <2>5, <2>7
<1>7. UNCHANGED requests \/ Added(c) \/ DOMAIN requests' = DOMAIN requests
  <2>1. ASSUME NEW i \in DOMAIN requests, NEW status \in {"approved", "rejected"},
               DecidedAs(c, i, status)
        PROVE  DOMAIN requests' = DOMAIN requests
    BY <2>1, Decided DEF DecidedAs
  <2> QED BY <2>1, TableMoves
<1> QED BY <1>5, <1>6, <1>7

\* A thread that grants goes on with its job until it has appended the access, where calls
\* succeed and the file has an entry; and nobody starts to grant but by an approval.
LEMMA GrantMoves ==
  ASSUME Types, Places, Sizes, Holders, NEW c \in Conns, Step(c)
  PROVE  /\ Granting(c) => \/ failures' = failures + 1
                           \/ Granting(c)' /\ job'[c] = job[c]
                           \/ AppendAccess(c)
                           \/ EntriesOf(job[c].file) = {}
         /\ Granting(c)' => \/ Granting(c) /\ job'[c] = job[c]
                            \/ \E i \in DOMAIN requests : DecidedAs(c, i, "approved")
<1>1. /\ \A label : Goto(c, label) => pc'[c] = label
      /\ \A answer : Finish(c, answer) => pc'[c] = "done"
  BY LabelIs, EndIs
<1>2. CASE Op[c] # "APPROVE"
  BY <1>2 DEF Granting
<1>3. CASE Op[c] = "APPROVE" /\ pc[c] = "start"
  <2>1. ASSUME NEW id, Approve(c, id)
        PROVE  \E i \in DOMAIN requests : DecidedAs(c, i, "approved")
    <3>1. PICK i : i = FoundRequest(id)
      OBVIOUS
    <3>2. /\ i \in DOMAIN requests /\ requests' = [requests EXCEPT ![i].status = "approved"]
          /\ requests[i].status = "pending"
          /\ job' = [job EXCEPT ![c] = JobFor(requests[i])] /\ Goto(c, "find")
      BY <2>1, <3>1, FoundTypes DEF Approve, JobFor
    <3>3. job'[c] = JobFor(requests[i])
      BY <3>2 DEF Types
    <3> QED BY <1>1, <1>3, <3>2, <3>3 DEF DecidedAs
  <2>2. (\E id : Approve(c, id)) \/ \E answer : Finish(c, answer)
    BY <1>3 DEF Step, NameServerStep, StorageStep, Forward, RequestAccess, RefuseDecision,
       Reject, CallFails, CallLost, FindMetadata, CreateEntry, Unlink, RemoveEntry, SaveOpen,
       SaveWrite, SaveClose, DropAccess, AppendAccess, Invalidate, CheckOwner, Lookup, Rebuild,
       Relookup
  <2> QED BY <1>1, <1>3, <2>1, <2>2 DEF Granting
<1>4. CASE Op[c] = "APPROVE" /\ pc[c] # "start"
  <2>1. job'[c] = job[c]
    BY <1>4, LocalsStay
  <2>2. CASE pc[c] \notin {"find", "change", "append"}
    <3>1. pc[c] \in Changing
      BY <1>4 DEF Places
    <3>2. pc'[c] \in {"save_open", "save_write", "save_close", "done"}
      BY <1>1, <1>4, <2>2, <3>1 DEF Changing, Step, NameServerStep, StorageStep, Forward,
         RequestAccess, RefuseDecision, Approve, Reject, CallFails, CallLost, FindMetadata,
         CreateEntry, Unlink, RemoveEntry, SaveOpen, SaveWrite, SaveClose, DropAccess,
         AppendAccess, Invalidate, CheckOwner, Lookup, Rebuild, Relookup
    <3> QED BY <2>2, <3>2 DEF Granting
  <2>3. CASE pc[c] = "find"
    <3>1. CallFails(c) \/ CallLost(c) \/ FindMetadata(c)
      BY <1>4, <2>3 DEF Step, NameServerStep, StorageStep, Forward, RequestAccess, RefuseDecision,
         Approve, Reject, CreateEntry, Unlink, RemoveEntry, SaveOpen, SaveWrite, SaveClose,
         DropAccess, AppendAccess, Invalidate, CheckOwner, Lookup, Rebuild, Relookup
    <3>2. CallFails(c) \/ CallLost(c) => failures' = failures + 1
      BY DEF CallFails, CallLost
    <3>3. FindMetadata(c) /\ EntriesOf(job[c].file) # {} => Goto(c, "change")
      BY <1>4 DEF FindMetadata, EntriesOf, Changes, Checks
    <3> QED BY <1>1, <1>4, <2>1, <2>3, <3>1, <3>2, <3>3 DEF Granting
  <2>4. CASE pc[c] = "change"
    <3>1. DropAccess(c)
      BY <1>4, <2>4 DEF Step, NameServerStep, StorageStep, Forward, RequestAccess, RefuseDecision,
         Approve, Reject, CallFails, CallLost, FindMetadata, CreateEntry, Unlink, RemoveEntry,
         SaveOpen, SaveWrite, SaveClose, AppendAccess, Invalidate, CheckOwner, Lookup, Rebuild,
         Relookup
    <3>2. Goto(c, "append")
      BY <1>4, <3>1 DEF DropAccess
    <3> QED BY <1>1, <1>4, <2>1, <2>4, <3>2 DEF Granting
  <2>5. CASE pc[c] = "append"
    <3>1. AppendAccess(c)
      BY <1>4, <2>5 DEF Step, NameServerStep, StorageStep, Forward, RequestAccess, RefuseDecision,
         Approve, Reject, CallFails, CallLost, FindMetadata, CreateEntry, Unlink, RemoveEntry,
         SaveOpen, SaveWrite, SaveClose, DropAccess, Invalidate, CheckOwner, Lookup, Rebuild,
         Relookup
    <3> QED BY <1>4, <2>1, <2>5, <3>1 DEF Granting
  <2> QED BY <2>2, <2>3, <2>4, <2>5
<1> QED BY <1>2, <1>3, <1>4

\* AppendAccess puts the access of the job into an access list of its file.
LEMMA AppendGives ==
  ASSUME Types, Sizes, Holders, EntryTypes, Pointers, NEW c \in Conns, AppendAccess(c)
  PROVE  /\ ptr[c] \in 1 .. count' /\ list'[ptr[c]].filename = job[c].file
         /\ [name |-> job[c].user, type |-> job[c].access] \in Range(list'[ptr[c]].acl)
<1>1. PICK p, old, acl : p = ptr[c] /\ old = list[p].acl
                         /\ acl = WithAccess(old, job[c].user, job[c].access)
  OBVIOUS
<1>2. pc[c] = "append" /\ UNCHANGED count /\ list' = [list EXCEPT ![p].acl = acl]
  BY <1>1 DEF AppendAccess
<1>3. p \in 1 .. count /\ list[p].filename = job[c].file
  BY <1>1, <1>2 DEF Pointers, Pointing, Locking
<1>4. p \in 1 .. MaxEntries
  BY <1>3 DEF Sizes
<1>5. job[c].file \in Files /\ job[c].user \in Users /\ job[c].access \in Access
  BY DEF Types
<1>6. list[p] \in FileMetadata
  BY <1>3, <1>4, <1>5 DEF EntryTypes, Blank
<1>7. old \in Seq(AclEntry)
  BY <1>1, <1>6 DEF FileMetadata
<1>8. acl \in Seq(AclEntry)
  BY <1>1, <1>5, <1>7, WithAccessIs
<1>9. list'[p].filename = list[p].filename /\ list'[p].acl = acl
  BY <1>2, <1>4, <1>6, <1>8, AclChanged
<1>10. PICK e : e = [name |-> job[c].user, type |-> job[c].access]
  OBVIOUS
<1>11. e \in Range(acl)
  <2>1. acl = Append(old, e)
    BY <1>1, <1>10 DEF WithAccess
  <2>2. PICK n \in Nat : n = Len(old)
    BY <1>7, LenProperties
  <2>3. e \in AclEntry
    BY <1>5, <1>10 DEF AclEntry
  <2>4. DOMAIN acl = 1 .. n + 1 /\ acl[n + 1] = e
    BY <1>7, <2>1, <2>2, <2>3, AppendProperties
  <2>5. n + 1 \in 1 .. n + 1
    BY ONLY n \in Nat
  <2> QED BY <2>4, <2>5 DEF Range
<1> QED BY <1>1, <1>2, <1>3, <1>9, <1>10, <1>11

LEMMA StepJobs ==
  ASSUME Types, Places, Sizes, Holders, Jobs, NEW c \in Conns, Step(c)
  PROVE  Jobs'
<1>1. /\ \A i \in DOMAIN requests : i \in DOMAIN requests' /\ Keeps(i)
      /\ \A i \in DOMAIN requests : requests[i].status = "approved" => requests'[i].status = "approved"
  BY TableKeeps
<1>2. ASSUME NEW d \in Conns, Granting(d), job'[d] = job[d]
      PROVE  \E i \in DOMAIN requests' : requests'[i].status = "approved" /\ job'[d] = JobFor(requests'[i])
  <2>1. PICK i \in DOMAIN requests : requests[i].status = "approved" /\ job[d] = JobFor(requests[i])
    BY <1>2 DEF Jobs
  <2>2. JobFor(requests'[i]) = JobFor(requests[i])
    BY <1>1 DEF Keeps, JobFor
  <2> QED BY <1>1, <1>2, <2>1, <2>2
<1>3. ASSUME NEW i \in DOMAIN requests, DecidedAs(c, i, "approved")
      PROVE  \E k \in DOMAIN requests' : requests'[k].status = "approved" /\ job'[c] = JobFor(requests'[k])
  <2>1. requests'[i].status = "approved" /\ job'[c] = JobFor(requests[i])
    BY <1>3, Decided DEF DecidedAs
  <2>2. JobFor(requests'[i]) = JobFor(requests[i])
    BY <1>1 DEF Keeps, JobFor
  <2> QED BY <1>1, <2>1, <2>2
<1>4. \A d \in Conns \ {c} : pc'[d] = pc[d] /\ job'[d] = job[d]
  BY OthersStay, LocalsStay
<1>5. ASSUME NEW d \in Conns, Granting(d)'
      PROVE  \E i \in DOMAIN requests' : requests'[i].status = "approved" /\ job'[d] = JobFor(requests'[i])
  <2>1. CASE d = c
    <3>1. \/ Granting(c) /\ job'[c] = job[c]
          \/ \E i \in DOMAIN requests : DecidedAs(c, i, "approved")
      BY <1>5, <2>1, GrantMoves
    <3> QED BY <1>2, <1>3, <2>1, <3>1
  <2>2. CASE d # c
    <3>1. Granting(d) /\ job'[d] = job[d]
      BY <1>4, <1>5, <2>2 DEF Granting
    <3> QED BY <1>2, <3>1
  <2> QED BY <2>1, <2>2
<1>6. ASSUME NEW d \in Conns, Op[d] # "APPROVE"
      PROVE  job'[d].user = TargetOf[d]
  <2>1. job'[d] = job[d]
    BY <1>4, <1>6, LocalsStay
  <2> QED BY <1>6, <2>1 DEF Jobs
<1> QED BY <1>5, <1>6 DEF Jobs, JobFor

LEMMA FailuresCounted ==
  ASSUME NEW c \in Conns, Step(c)
  PROVE  failures' = failures \/ failures' = failures + 1
<1>1. CASE NameServerStep(c)
  BY <1>1 DEF NameServerStep, Forward, RequestAccess, RefuseDecision, Approve, Reject,
     CallFails, CallLost
<1>2. CASE StorageStep(c)
  BY <1>2 DEF StorageStep, FindMetadata, CreateEntry, Unlink, RemoveEntry, SaveOpen, SaveWrite,
     SaveClose, DropAccess, AppendAccess, Invalidate, CheckOwner, Lookup, Rebuild, Relookup
<1> QED BY <1>1, <1>2 DEF Step

LEMMA StepOnTheWay ==
  ASSUME Types, Places, Sizes, Holders, EntryTypes, Pointers, NamesApart, NoDeletes, GrantInv,
         DeathsCounted, NEW c \in Conns, Step(c)
  PROVE  OnTheWay'
<1> SUFFICES ASSUME failures' = 0, crashes' = 0, NEW i \in DOMAIN requests',
                    requests'[i].status = "approved"
             PROVE  \/ OtherChange(requests'[i])
                    \/ \E d \in Conns : Granting(d)' /\ job'[d] = JobFor(requests'[i])
                    \/ \E k \in 1 .. count' :
                         /\ list'[k].filename = requests'[i].filename
                         /\ [name |-> requests'[i].requester, type |-> requests'[i].access_type]
                              \in Range(list'[k].acl)
  BY DEF OnTheWay, OtherChange, Given, JobFor, EntriesOf
<1> DEFINE r == requests[i]
           e == [name |-> r.requester, type |-> r.access_type]
<1>1. /\ Asked /\ AskedApart /\ Jobs /\ OnTheWay /\ StillStored /\ failures \in Nat
  BY DEF GrantInv
<1>2. /\ i \in DOMAIN requests /\ Keeps(i)
      /\ r.status = "approved" \/ DecidedAs(c, i, "approved")
  BY TableKeeps
<1>3. /\ crashes = 0 /\ failures = 0 /\ failures' # failures + 1
  <2>1. failures' = failures \/ failures' = failures + 1
    BY FailuresCounted
  <2>2. failures' # failures + 1
    BY <1>1
  <2> QED BY <2>1, <2>2, Alive
<1>4. /\ requests'[i].filename = r.filename /\ requests'[i].requester = r.requester
      /\ requests'[i].access_type = r.access_type /\ JobFor(requests'[i]) = JobFor(r)
      /\ OtherChange(requests'[i]) <=> OtherChange(r)
  BY <1>2 DEF Keeps, JobFor, OtherChange
<1> SUFFICES \/ OtherChange(r)
             \/ \E d \in Conns : Granting(d)' /\ job'[d] = JobFor(r)
             \/ \E k \in 1 .. count' : list'[k].filename = r.filename /\ e \in Range(list'[k].acl)
  BY <1>4
<1>5. CASE DecidedAs(c, i, "approved")
  BY <1>5 DEF DecidedAs, Granting
<1>6. ASSUME Granting(c), job[c] = JobFor(r)
      PROVE  \/ \E d \in Conns : Granting(d)' /\ job'[d] = JobFor(r)
             \/ \E k \in 1 .. count' : list'[k].filename = r.filename /\ e \in Range(list'[k].acl)
  <2>1. job[c].file = r.filename /\ job[c].user = r.requester /\ job[c].access = r.access_type
    BY <1>6 DEF JobFor
  <2>2. EntriesOf(job[c].file) # {}
    BY <1>1, <1>2, <1>3, <2>1 DEF Asked, StillStored
  <2>3. CASE AppendAccess(c)
    BY <2>1, <2>3, AppendGives
  <2>4. CASE Granting(c)' /\ job'[c] = job[c]
    BY <1>6, <2>4
  <2> QED BY <1>3, <1>6, <2>2, <2>3, <2>4, GrantMoves
<1>7. ASSUME NEW d \in Conns \ {c}, Granting(d), job[d] = JobFor(r)
      PROVE  Granting(d)' /\ job'[d] = JobFor(r)
  BY <1>7, OthersStay, LocalsStay DEF Granting
<1>8. ASSUME NEW k \in EntriesOf(r.filename), e \in Range(list[k].acl)
      PROVE  \/ OtherChange(r)
             \/ \E d \in Conns : Granting(d)' /\ job'[d] = JobFor(r)
             \/ \E x \in 1 .. count' : list'[x].filename = r.filename /\ e \in Range(list'[x].acl)
  <2>1. k \in 1 .. count /\ k \in 1 .. MaxEntries /\ list[k].filename = r.filename
    BY DEF EntriesOf, Sizes
  <2>2. UNCHANGED <<list, count>> \/ EntryMade(c) \/ EntryChanged(c)
    BY ListMoves
  <2>3. k \in 1 .. count' /\ list'[k].filename = r.filename
    BY <2>1, <2>2, NamesStay
  <2>4. CASE UNCHANGED <<list, count>>
    BY <1>8, <2>1, <2>4
  <2>5. CASE EntryMade(c)
    <3>1. count \in Nat /\ count' = count + 1 /\ k # count'
      BY <2>1, <2>5 DEF EntryMade, Sizes
    <3> QED BY <1>8, <2>1, <2>3, <2>5, <3>1 DEF EntryMade
  <2>6. CASE EntryChanged(c) /\ ~UNCHANGED <<list, count>>
    <3>1. CASE e \in Range(list'[k].acl)
      BY <2>3, <3>1
    <3>2. CASE e \notin Range(list'[k].acl)
      <4>1. k = ptr[c]
        BY <1>8, <2>1, <2>6, <3>2 DEF EntryChanged
      <4>2. job[c].file = r.filename /\ job[c].user = r.requester /\ Changes(c)
        BY <1>8, <2>1, <2>6, <3>2, <4>1 DEF EntryChanged
      <4>3. CASE Op[c] # "APPROVE"
        <5>1. FileOf[c] = r.filename /\ TargetOf[c] = r.requester
          BY <1>1, <4>2, <4>3 DEF Holders, Jobs
        <5> QED BY <4>2, <4>3, <5>1 DEF OtherChange, Changes
      <4>4. CASE Op[c] = "APPROVE"
        <5>1. Granting(c)
          <6>1. DropAccess(c) \/ AppendAccess(c)
            BY <2>6, <4>4 DEF Step, NameServerStep, StorageStep, Forward, RequestAccess,
               RefuseDecision, Approve, Reject, CallFails, CallLost, FindMetadata, CreateEntry,
               Unlink, RemoveEntry, SaveOpen, SaveWrite, SaveClose, Invalidate, CheckOwner,
               Lookup, Rebuild, Relookup, Places, Changing
          <6> QED BY <4>4, <6>1 DEF DropAccess, AppendAccess, Granting
        <5>2. PICK j \in DOMAIN requests : job[c] = JobFor(requests[j])
          BY <1>1, <5>1 DEF Jobs
        <5>3. j = i
          <6>1. requests[j].filename = r.filename /\ requests[j].requester = r.requester
            BY <4>2, <5>2 DEF JobFor
          <6> QED BY <1>1, <1>2, <6>1 DEF AskedApart
        <5> QED BY <1>6, <5>1, <5>2, <5>3
      <4> QED BY <4>3, <4>4
    <3> QED BY <3>1, <3>2
  <2> QED BY <2>2, <2>4, <2>5, <2>6
<1>9. CASE r.status = "approved"
  <2>1. \/ OtherChange(r)
        \/ \E d \in Conns : Granting(d) /\ job[d] = JobFor(r)
        \/ \E k \in EntriesOf(r.filename) : e \in Range(list[k].acl)
    BY <1>1, <1>2, <1>3, <1>9 DEF OnTheWay, Given
  <2> HIDE DEF r, e
  <2> QED BY <1>6, <1>7, <1>8, <2>1
<1> QED BY <1>2, <1>5, <1>9

LEMMA StepStored ==
  ASSUME Types, Places, Sizes, Holders, EntryTypes, Pointers, NamesApart, NoDeletes, StillStored,
         NEW c \in Conns, Step(c)
  PROVE  StillStored'
<1>1. \A i \in 1 .. count : i \in 1 .. count' /\ list'[i].filename = list[i].filename
  BY ListMoves, NamesStay
<1>2. UNCHANGED crashes
  BY Alive
<1> QED BY <1>1, <1>2 DEF StillStored, EntriesOf

LEMMA GrantInvHolds ==
  ASSUME NamesApart, NoDeletes, AskedOnce, ListedAreStored
  PROVE  /\ Init => GrantInv
         /\ Inv /\ ListInv /\ GrantInv /\ [Next]_vars => GrantInv'
<1>1. ASSUME Init PROVE GrantInv
  <2>1. DOMAIN requests = {}
    BY <1>1 DEF Init
  <2>2. Asked /\ AskedApart /\ OnTheWay
    BY <2>1 DEF Asked, AskedApart, OnTheWay
  <2>3. Jobs
    <3>1. \A d \in Conns : ~Granting(d)
      BY <1>1 DEF Init, Granting, FirstStep
    <3>2. \A d \in Conns : job[d].user = TargetOf[d]
      BY <1>1 DEF Init
    <3> QED BY <3>1, <3>2 DEF Jobs
  <2>4. StillStored
    <3>1. PICK n \in Nat : n = Len(InitialList) /\ DOMAIN InitialList = 1 .. n
      BY LenProperties
    <3>2. count = n /\ n <= MaxEntries
          /\ list = [i \in 1 .. MaxEntries |-> IF i <= n THEN InitialList[i] ELSE Blank]
      BY <1>1, <3>1 DEF Init
    <3>3. \A i \in 1 .. n : list[i] = InitialList[i]
      BY <3>2
    <3> QED BY <3>1, <3>2, <3>3 DEF StillStored, EntriesOf, ListedAreStored
  <2> QED BY <1>1, <2>2, <2>3, <2>4 DEF GrantInv, Init
<1>2. ASSUME Inv, ListInv, GrantInv, [Next]_vars
      PROVE  GrantInv'
  <2>1. /\ Types /\ Places /\ Sizes /\ Holders /\ EntryTypes /\ Pointers /\ DeathsCounted
        /\ Asked /\ AskedApart /\ Jobs /\ OnTheWay /\ StillStored /\ failures \in Nat
    BY <1>2 DEF Inv, ListInv, GrantInv
  <2>2. ASSUME NEW c \in Conns, Step(c)
        PROVE  GrantInv'
    <3>1. Asked' /\ AskedApart'
      BY <2>1, <2>2, StepAsked
    <3>2. Jobs'
      BY <2>1, <2>2, StepJobs
    <3>3. OnTheWay'
      BY <1>2, <2>1, <2>2, StepOnTheWay
    <3>4. StillStored'
      BY <2>1, <2>2, StepStored
    <3>5. failures' = failures \/ failures' = failures + 1
      BY <2>2, FailuresCounted
    <3> QED BY <2>1, <3>1, <3>2, <3>3, <3>4, <3>5 DEF GrantInv
  <2>3. CASE Crash
    <3>1. /\ crashes' # 0 /\ UNCHANGED <<requests, job, failures>>
          /\ \A d \in Conns : pc'[d] \in {pc[d], "done"}
      BY <2>1, <2>3 DEF Crash, DeathsCounted
    <3>2. \A d \in Conns : Granting(d)' => Granting(d)
      BY <3>1 DEF Granting
    <3>3. Asked' /\ AskedApart'
      <4>1. \A d \in Conns : pc[d] = "done" => pc'[d] = "done"
        BY <3>1
      <4> QED BY <2>1, <3>1, <4>1 DEF Asked, AskedApart
    <3>4. Jobs'
      BY <2>1, <3>1, <3>2 DEF Jobs, JobFor
    <3>5. OnTheWay' /\ StillStored'
      BY <3>1 DEF OnTheWay, StillStored
    <3> QED BY <2>1, <3>1, <3>3, <3>4, <3>5 DEF GrantInv
  <2>4. CASE UNCHANGED vars
    <3>1. UNCHANGED <<requests, job, pc, list, count, failures, crashes>>
      BY <2>4
    <3>2. Asked' /\ AskedApart'
      BY <2>1, <3>1 DEF Asked, AskedApart
    <3>3. Jobs'
      BY <2>1, <3>1 DEF Jobs, Granting, JobFor
    <3>4. OnTheWay'
      BY <2>1, <3>1 DEF OnTheWay, OtherChange, Granting, JobFor, Given, EntriesOf
    <3>5. StillStored'
      BY <2>1, <3>1 DEF StillStored, EntriesOf
    <3> QED BY <2>1, <3>1, <3>2, <3>3, <3>4, <3>5 DEF GrantInv
  <2> QED BY <1>2, <2>2, <2>3, <2>4 DEF Next, Done, Step
<1> QED BY <1>1, <1>2

\* An approved request gives the access asked for once everybody is done, where no call to
\* the storage server failed, it lived, and no other change for this user was asked for:
\* handle_approverequest records the approval first, and what it then asks for is carried
\* out on the entry of that file and undone by nobody, for any number of requests, approvals,
\* changes, checks and creations that overlap.
THEOREM ApprovedStaysGranted ==
  ASSUME NamesApart, NoDeletes, AskedOnce, ListedAreStored
  PROVE  Spec => []ApprovedIsGranted
<1>1. Inv /\ GrantInv => ApprovedIsGranted
  <2> SUFFICES ASSUME Inv, GrantInv, \A c \in Conns : pc[c] = "done", failures = 0, crashes = 0,
                      NEW r \in Range(requests), r.status = "approved"
               PROVE  OtherChange(r) \/ Given(r)
    BY DEF ApprovedIsGranted, OtherChange, Given
  <2>1. PICK i \in DOMAIN requests : r = requests[i]
    BY DEF Range
  <2>2. OnTheWay /\ \A d \in Conns : ~Granting(d)
    BY DEF GrantInv, Granting
  <2> QED BY <2>1, <2>2 DEF OnTheWay
<1>2. Init => Inv /\ ListInv /\ GrantInv
  BY InitInv, InitList, GrantInvHolds
<1>3. Inv /\ ListInv /\ GrantInv /\ [Next]_vars => Inv' /\ ListInv' /\ GrantInv'
  BY NextInv, NextList, GrantInvHolds
<1> QED BY <1>1, <1>2, <1>3, PTL DEF Spec
=============================================================================
