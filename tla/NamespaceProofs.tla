-------------------------- MODULE NamespaceProofs ---------------------------
(***************************************************************************)
(* More proofs about NameServer: the types of its state, the agreement of  *)
(* its lists with the storage servers' disks and with the hash table, the  *)
(* spread of new files, and the locations that are cached and sent to      *)
(* clients, for any number of servers, clients and files.                  *)
(***************************************************************************)
EXTENDS NameServerProofs, ListLemmas

Creates(c) == Op[c] \in {"CREATE", "CREATEFOLDER"}

\* All storage servers registered before the first request.
AllRegistered == \A s \in Servers : s \in ToSet(InitialServers)

\* No file is created while a server registers.  (register_storage_server counts the
\* file that it has written without a lock, whatever the count has become.)
NoCreateMeanwhile == AllRegistered \/ \A c \in Early : ~Creates(c)

Complete == registering = {} /\ ToSet(ss_list) = Servers

\* The slots that have been used once.
Live == {p \in Pointer : Deref(p) \in FileInfo}
Node == [filename : Paths, file_ptr : Live]

Threads ==
  /\ pc \in [Conns -> PCs] /\ reply \in [Conns -> Replies] /\ ss_reply \in [Conns -> Replies]
  /\ ptr \in [Conns -> Live \cup {NoPtr}]
  /\ ss_id \in [Conns -> Servers \cup {NoServer}]
  /\ failures \in 0 .. MaxFailures

\* What a thread has found out before it gets to a place.
Places ==
  \A c \in Conns :
    /\ pc[c] \in {"assign", "select"} => Creates(c)
    /\ pc[c] = "add" => Op[c] = "CREATE"
    /\ pc[c] \in {"rename", "insert"} => Op[c] = "MOVE"
    /\ pc[c] \in {"owner", "cache", "locate", "rename", "insert"} => ptr[c] # NoPtr
    /\ pc[c] \in {"remote", "answer"} /\ ~Creates(c) => ptr[c] # NoPtr
    /\ pc[c] \in {"select", "add", "remote", "answer"} => ss_id[c] \in Servers

\* The files in use, and the nodes, which point to slots that have been used.
Lists ==
  /\ slots \in [Servers -> [1 .. MaxFiles -> FileInfo \cup {Unused}]]
  /\ file_count \in [Servers -> 0 .. MaxFiles]
  /\ \A s \in Servers : \A i \in 1 .. file_count[s] : slots[s][i] \in FileInfo
  /\ nodes \in Seq(Node)

\* One server registers at a time, and the file it has written fits into its list.
Registers ==
  /\ ss_list \in Seq(Servers) /\ next_ss_index \in Nat
  /\ to_list \in Seq(Listing) /\ written \in BOOLEAN
  /\ registering = {} \/ \E s \in Servers : registering = {s}
  /\ written => \E s \in Servers : /\ registering = {s} /\ to_list # <<>>
                                   /\ file_count[s] + 1 \in 1 .. MaxFiles
                                   /\ slots[s][file_count[s] + 1] \in FileInfo
  /\ AllRegistered => Complete
  /\ Complete \/ \A c \in Conns : Creates(c) => Idle(c)

Stores ==
  /\ meta \in [Servers -> [Paths -> Users \cup {NoUser}]]
  /\ path \in [Servers -> [Paths -> {"none", "file", "dir"}]]
  /\ entries \in [CacheSlots -> [filename : Paths, ss_id : Servers, expired : BOOLEAN]
                                  \cup {NoEntry}]

TypeInv == Threads /\ Places /\ Lists /\ Registers /\ Stores
-----------------------------------------------------------------------------
USE NameServerAssumption DEF table, registration, storage, locals

\* The slot found for a name is the first one in use that holds it.
LEMMA SlotIs ==
  ASSUME NEW s, file_count[s] \in Nat, NEW n
  PROVE  \/ SlotOf(s, n) = 0
         \/ SlotOf(s, n) \in 1 .. file_count[s] /\ slots[s][SlotOf(s, n)].filename = n
<1> DEFINE Found == {i \in 1 .. file_count[s] : slots[s][i].filename = n}
           First(i) == slots[s][i].filename = n /\ \A j \in 1 .. i - 1 : slots[s][j].filename # n
<1>1. CASE Found = {}
  BY <1>1 DEF SlotOf
<1>2. CASE Found # {}
  <2>1. PICK i \in Found : \A j \in Found : i <= j
    <3>1. Found \in SUBSET Nat
      OBVIOUS
    <3> HIDE DEF Found
    <3> QED BY <1>2, <3>1, LeastExists
  <2>2. i \in 1 .. file_count[s] /\ First(i)
    <3>1. \A j \in 1 .. i - 1 : j \in 1 .. file_count[s] /\ j < i
      OBVIOUS
    <3> QED BY <2>1, <3>1
  <2>3. SlotOf(s, n) = CHOOSE k \in 1 .. file_count[s] : First(k)
    BY <1>2 DEF SlotOf
  <2>4. SlotOf(s, n) \in 1 .. file_count[s] /\ First(SlotOf(s, n))
    <3> HIDE DEF First
    <3> QED BY <2>2, <2>3
  <2> QED BY <2>4
<1> QED BY <1>1, <1>2

\* find_file gives nothing or the pointer of a node with that name.
LEMMA FoundNode ==
  ASSUME NEW n, nodes \in Seq(Node)
  PROVE  \/ find_file(n) = NoPtr
         \/ \E i \in DOMAIN nodes : /\ nodes[i].filename = n /\ nodes[i].file_ptr = find_file(n)
                                    /\ nodes[i].file_ptr \in Live
<1> DEFINE I == {i \in 1 .. Len(nodes) : nodes[i].filename = n}
           m == Min(I)
<1>1. CASE I = {}
  BY <1>1 DEF find_file, SelectInSeq
<1>2. CASE I # {}
  <2>1. I \in SUBSET Nat
    OBVIOUS
  <2>2. m \in I
    <3> HIDE DEF I
    <3> QED BY <1>2, <2>1, MinIsLeast
  <2>3. SelectInSeq(nodes, LAMBDA node : node.filename = n) = m
    BY <1>2 DEF SelectInSeq
  <2>4. m \in 1 .. Len(nodes) /\ m # 0 /\ nodes[m].filename = n
    <3> HIDE DEF m
    <3> QED BY <2>2
  <2> HIDE DEF m, I
  <2>5. find_file(n) = nodes[m].file_ptr
    BY <2>3, <2>4 DEF find_file
  <2>6. m \in DOMAIN nodes /\ nodes[m] \in Node
    BY <2>4
  <2> QED BY <2>4, <2>5, <2>6 DEF Node
<1> QED BY <1>1, <1>2

\* Nodes stay nodes as long as used slots stay used.
LEMMA NodesStay ==
  ASSUME Live \subseteq Live', nodes \in Seq(Node)
  PROVE  nodes \in Seq(Node')
<1>1. PICK a, b : a = Node /\ b = Node'
  OBVIOUS
<1>2. a \subseteq b
  BY <1>1 DEF Node
<1>3. nodes \in Seq(b)
  BY <1>1, <1>2, SeqMonotonic
<1> QED BY <1>1, <1>3

\* hash_remove_file takes away one node, or nothing.
LEMMA NodesLeft ==
  ASSUME NEW T, nodes \in Seq(T), NEW n
  PROVE  hash_remove_file(n) \in Seq(T)
<1>1. CASE \E i \in 1 .. Len(nodes) : nodes[i].filename = n
  <2>1. PICK i \in 1 .. Len(nodes) : hash_remove_file(n) = RemoveAt(nodes, i)
    BY <1>1, RemoveNamedProperties DEF hash_remove_file
  <2> QED BY <2>1, RemoveAtProperties
<1>2. CASE ~ \E i \in 1 .. Len(nodes) : nodes[i].filename = n
  BY <1>2 DEF hash_remove_file, RemoveFirstMatch
<1> QED BY <1>1, <1>2

\* A new node comes first.
LEMMA NodeAdded ==
  ASSUME NEW T, nodes \in Seq(T), NEW n, NEW p, [filename |-> n, file_ptr |-> p] \in T
  PROVE  /\ Inserted(n, p) \in Seq(T) /\ Len(Inserted(n, p)) = Len(nodes) + 1
         /\ Inserted(n, p)[1] = [filename |-> n, file_ptr |-> p]
         /\ \A i \in 1 .. Len(nodes) : Inserted(n, p)[i + 1] = nodes[i]
<1>1. PICK r \in T : r = [filename |-> n, file_ptr |-> p]
  OBVIOUS
<1>2. Inserted(n, p) = <<r>> \o nodes
  BY <1>1 DEF Inserted
<1>3. <<r>> \in Seq(T) /\ Len(<<r>>) = 1 /\ <<r>>[1] = r
  OBVIOUS
<1>4. PICK one : one = <<r>>
  OBVIOUS
<1>5. /\ one \o nodes \in Seq(T) /\ Len(one \o nodes) = 1 + Len(nodes)
      /\ \A i \in 1 .. 1 + Len(nodes) :
           (one \o nodes)[i] = IF i <= 1 THEN one[i] ELSE nodes[i - 1]
  BY <1>3, <1>4, ConcatProperties
<1>6. Len(nodes) \in Nat
  BY LenProperties
<1>7. \A i \in 1 .. Len(nodes) : i + 1 \in 1 .. 1 + Len(nodes) /\ ~(i + 1 <= 1) /\ (i + 1) - 1 = i
  BY <1>6
<1>8. \A i \in 1 .. Len(nodes) : (one \o nodes)[i + 1] = nodes[i]
  BY <1>5, <1>7
<1>9. (one \o nodes)[1] = one[1] /\ 1 + Len(nodes) = Len(nodes) + 1
  BY <1>5, <1>6
<1> QED BY <1>1, <1>2, <1>3, <1>4, <1>5, <1>8, <1>9

\* Removing a file: used slots stay used, and no list grows.
LEMMA RemoveLists ==
  ASSUME Lists, NEW s \in Servers, NEW n, remove_file_from_server(s, n)
  PROVE  /\ Lists' /\ Live \subseteq Live'
         /\ \A t \in Servers : file_count'[t] <= file_count[t]
<1>1. /\ slots \in [Servers -> [1 .. MaxFiles -> FileInfo \cup {Unused}]]
      /\ file_count \in [Servers -> 0 .. MaxFiles] /\ MaxFiles \in Nat
      /\ \A t \in Servers : \A i \in 1 .. file_count[t] : slots[t][i] \in FileInfo
      /\ nodes \in Seq(Node)
      /\ \A t \in Servers : file_count[t] \in Nat /\ file_count[t] <= MaxFiles
  BY DEF Lists
<1>2. CASE SlotOf(s, n) = 0
  <2>1. UNCHANGED <<slots, file_count, nodes>>
    BY <1>2 DEF remove_file_from_server
  <2>2. Live' = Live
    BY <2>1 DEF Live, Deref
  <2>3. Node' = Node
    BY <2>2 DEF Node
  <2> QED BY <1>1, <2>1, <2>2, <2>3 DEF Lists
<1>3. CASE SlotOf(s, n) # 0
  <2>1. PICK k, count : k = SlotOf(s, n) /\ count = file_count[s]
    OBVIOUS
  <2>2. k \in 1 .. count /\ count \in Nat /\ count <= MaxFiles
    BY <1>1, <1>3, <2>1, SlotIs
  <2>3. /\ slots' = [slots EXCEPT ![s] = Shifted(slots[s], k, count)]
        /\ file_count' = [file_count EXCEPT ![s] = count - 1]
        /\ nodes' = hash_remove_file(n)
    BY <1>3, <2>1 DEF remove_file_from_server
  <2>4. \A t \in Servers : t # s => slots'[t] = slots[t] /\ file_count'[t] = file_count[t]
    BY <1>1, <2>3
  <2>5. /\ file_count'[s] = count - 1 /\ DOMAIN slots'[s] = 1 .. MaxFiles
        /\ \A j \in 1 .. MaxFiles :
             slots'[s][j] = IF k <= j /\ j < count THEN slots[s][j + 1] ELSE slots[s][j]
    BY <1>1, <2>3 DEF Shifted
  <2>6. \A j \in 1 .. MaxFiles :
          /\ slots[s][j] \in FileInfo => slots'[s][j] \in FileInfo
          /\ slots'[s][j] \in FileInfo \cup {Unused}
    <3> SUFFICES ASSUME NEW j \in 1 .. MaxFiles
                 PROVE  /\ slots[s][j] \in FileInfo => slots'[s][j] \in FileInfo
                        /\ slots'[s][j] \in FileInfo \cup {Unused}
      OBVIOUS
    <3>1. CASE k <= j /\ j < count
      <4>1. j + 1 \in 1 .. file_count[s] /\ slots'[s][j] = slots[s][j + 1]
        BY <1>1, <2>1, <2>2, <2>5, <3>1
      <4> QED BY <1>1, <4>1
    <3>2. CASE ~(k <= j /\ j < count)
      BY <1>1, <2>5, <3>2
    <3> QED BY <3>1, <3>2
  <2>7. slots' \in [Servers -> [1 .. MaxFiles -> FileInfo \cup {Unused}]]
    <3>1. Shifted(slots[s], k, count) \in [1 .. MaxFiles -> FileInfo \cup {Unused}]
      <4>1. slots'[s] = Shifted(slots[s], k, count)
        BY <1>1, <2>3
      <4>2. Shifted(slots[s], k, count) = [j \in 1 .. MaxFiles |-> slots'[s][j]]
        BY <4>1 DEF Shifted
      <4> QED BY <2>6, <4>2
    <3> QED BY <1>1, <2>3, <3>1
  <2>8. count - 1 \in 0 .. MaxFiles /\ count - 1 <= count
    BY <1>1, <2>2
  <2>9. file_count' \in [Servers -> 0 .. MaxFiles]
    BY <1>1, <2>3, <2>8
  <2>10. \A t \in Servers : \A i \in 1 .. file_count'[t] : slots'[t][i] \in FileInfo
    <3> SUFFICES ASSUME NEW t \in Servers, NEW i \in 1 .. file_count'[t]
                 PROVE  slots'[t][i] \in FileInfo
      OBVIOUS
    <3>1. CASE t = s
      <4>1. i \in 1 .. count /\ i \in 1 .. MaxFiles
        BY <1>1, <2>2, <2>5, <3>1
      <4> QED BY <1>1, <2>1, <2>6, <3>1, <4>1
    <3>2. CASE t # s
      BY <1>1, <2>4, <3>2
    <3> QED BY <3>1, <3>2
  <2>11. Live \subseteq Live'
    <3> SUFFICES ASSUME NEW p \in Live PROVE slots'[p.ss][p.slot] \in FileInfo
      BY DEF Live, Deref
    <3>1. p.ss \in Servers /\ p.slot \in 1 .. MaxFiles /\ slots[p.ss][p.slot] \in FileInfo
      BY DEF Live, Deref, Pointer
    <3> QED BY <2>4, <2>6, <3>1
  <2>12. nodes' \in Seq(Node')
    <3>1. PICK T : T = Node'
      OBVIOUS
    <3>2. nodes \in Seq(T)
      BY <1>1, <2>11, <3>1, NodesStay
    <3> QED BY <2>3, <3>1, <3>2, NodesLeft
  <2>13. \A t \in Servers : file_count'[t] <= file_count[t]
    <3> SUFFICES ASSUME NEW t \in Servers PROVE file_count'[t] <= file_count[t]
      OBVIOUS
    <3>1. CASE t = s
      BY <2>1, <2>5, <2>8, <3>1
    <3>2. CASE t # s
      BY <1>1, <2>4, <3>2
    <3> QED BY <3>1, <3>2
  <2> QED BY <2>7, <2>9, <2>10, <2>11, <2>12, <2>13 DEF Lists
<1> QED BY <1>2, <1>3

\* Writing the slot behind the last one in use and making a node for it, counted or not.
LEMMA WriteSlot ==
  ASSUME Lists, NEW s \in Servers, NEW n \in Paths, NEW u \in Users,
         NEW k, k = file_count[s] + 1, k \in 1 .. MaxFiles,
         slots' = [slots EXCEPT ![s][k] = [filename |-> n, owner |-> u, ss_id |-> s]],
         file_count' = file_count \/ file_count' = [file_count EXCEPT ![s] = k],
         nodes' = Inserted(n, [ss |-> s, slot |-> k])
  PROVE  Lists' /\ Live \subseteq Live' /\ slots'[s][k] \in FileInfo
<1>1. /\ slots \in [Servers -> [1 .. MaxFiles -> FileInfo \cup {Unused}]]
      /\ file_count \in [Servers -> 0 .. MaxFiles] /\ MaxFiles \in Nat
      /\ \A t \in Servers : \A i \in 1 .. file_count[t] : slots[t][i] \in FileInfo
      /\ nodes \in Seq(Node)
      /\ file_count[s] \in Nat
  BY DEF Lists
<1>2. PICK new \in FileInfo : new = [filename |-> n, owner |-> u, ss_id |-> s]
  BY DEF FileInfo
<1>3. slots' = [slots EXCEPT ![s][k] = new]
  BY <1>2
<1>4. /\ slots' \in [Servers -> [1 .. MaxFiles -> FileInfo \cup {Unused}]]
      /\ \A t \in Servers : \A i \in 1 .. MaxFiles :
           slots'[t][i] = IF t = s /\ i = k THEN new ELSE slots[t][i]
  BY <1>1, <1>3
<1>5. file_count' \in [Servers -> 0 .. MaxFiles]
  BY <1>1
<1>6. \A t \in Servers : \A i \in 1 .. file_count'[t] : slots'[t][i] \in FileInfo
  <2> SUFFICES ASSUME NEW t \in Servers, NEW i \in 1 .. file_count'[t]
               PROVE  slots'[t][i] \in FileInfo
    OBVIOUS
  <2>1. i \in 1 .. MaxFiles
    BY <1>1, <1>5
  <2>2. i \in 1 .. file_count[t] \/ (t = s /\ i = k)
    BY <1>1
  <2> QED BY <1>1, <1>4, <2>1, <2>2
<1>7. Live \subseteq Live'
  <2> SUFFICES ASSUME NEW p \in Live PROVE slots'[p.ss][p.slot] \in FileInfo
    BY DEF Live, Deref
  <2>1. p.ss \in Servers /\ p.slot \in 1 .. MaxFiles /\ slots[p.ss][p.slot] \in FileInfo
    BY DEF Live, Deref, Pointer
  <2> QED BY <1>4, <2>1
<1>8. slots'[s][k] = new
  BY <1>4
<1>9. nodes' \in Seq(Node')
  <2>1. PICK p : p = [ss |-> s, slot |-> k]
    OBVIOUS
  <2>2. p \in Pointer /\ p.ss = s /\ p.slot = k
    BY <2>1 DEF Pointer
  <2>3. p \in Live'
    BY <1>8, <2>2 DEF Live, Deref
  <2>4. PICK T : T = Node'
    OBVIOUS
  <2>5. [filename |-> n, file_ptr |-> p] \in T
    BY <2>3, <2>4 DEF Node
  <2>6. nodes \in Seq(T)
    BY <1>1, <1>7, <2>4, NodesStay
  <2> QED BY <2>1, <2>4, <2>5, <2>6, NodeAdded
<1> QED BY <1>4, <1>5, <1>6, <1>7, <1>8, <1>9 DEF Lists

LEMMA AddLists ==
  ASSUME Lists, NEW s \in Servers, NEW n \in Paths, NEW u \in Users, add_file_to_server(s, n, u)
  PROVE  Lists' /\ Live \subseteq Live'
<1>1. CASE AddResult(s, n) # "SUCCESS"
  <2>1. UNCHANGED <<slots, file_count, nodes>>
    BY <1>1 DEF add_file_to_server
  <2>2. Live' = Live
    BY <2>1 DEF Live, Deref
  <2>3. Node' = Node
    BY <2>2 DEF Node
  <2> QED BY <2>1, <2>2, <2>3 DEF Lists
<1>2. CASE AddResult(s, n) = "SUCCESS"
  <2>1. PICK k : k = file_count[s] + 1
    OBVIOUS
  <2>2. k \in 1 .. MaxFiles
    BY <1>2, <2>1 DEF AddResult, Lists
  <2>3. /\ slots' = [slots EXCEPT ![s][k] = [filename |-> n, owner |-> u, ss_id |-> s]]
        /\ file_count' = [file_count EXCEPT ![s] = k]
        /\ nodes' = Inserted(n, [ss |-> s, slot |-> k])
    BY <1>2, <2>1 DEF add_file_to_server
  <2> QED BY <2>1, <2>2, <2>3, WriteSlot
<1> QED BY <1>1, <1>2
-----------------------------------------------------------------------------
LEMMA SameLists ==
  ASSUME Lists, UNCHANGED <<slots, file_count, nodes>>
  PROVE  Lists' /\ Live' = Live
<1>1. Live' = Live
  BY DEF Live, Deref
<1>2. Node' = Node
  BY <1>1 DEF Node
<1> QED BY <1>1, <1>2 DEF Lists

\* What a request does to the lists: used slots stay used, and while a server has a file
\* written and not counted no list grows.
LEMMA ServeLists ==
  ASSUME Threads, Places, Lists, Registers, NEW c \in Conns, Serve(c)
  PROVE  /\ Lists' /\ Live \subseteq Live'
         /\ written => \A s \in Servers : file_count'[s] <= file_count[s]
<1>1. /\ file_count \in [Servers -> 0 .. MaxFiles] /\ MaxFiles \in Nat
      /\ slots \in [Servers -> [1 .. MaxFiles -> FileInfo \cup {Unused}]]
      /\ \A s \in Servers : file_count[s] \in Nat /\ file_count[s] <= file_count[s]
      /\ nodes \in Seq(Node)
  BY DEF Lists
<1>2. NameOf[c] \in Paths /\ UserOf[c] \in Users /\ TargetOf[c] \in Names
  OBVIOUS
<1>3. CASE UNCHANGED <<slots, file_count, nodes>>
  BY <1>1, <1>3, SameLists
<1>4. ASSUME NEW s \in Servers, Creates(c), ~Idle(c), add_file_to_server(s, NameOf[c], UserOf[c])
      PROVE  Lists' /\ Live \subseteq Live' /\ ~written
  <2>1. Complete
    BY <1>4 DEF Registers
  <2>2. ~written
    BY <2>1 DEF Registers, Complete
  <2> QED BY <1>2, <1>4, <2>2, AddLists
<1>5. CASE RecordFile(c)
  <2>1. /\ add_file_to_server(ss_id[c], NameOf[c], UserOf[c]) /\ pc[c] = "add"
    BY <1>5 DEF RecordFile
  <2>2. ss_id[c] \in Servers /\ Creates(c) /\ ~Idle(c)
    BY <2>1 DEF Places, Creates, Idle
  <2> QED BY <1>4, <2>1, <2>2
<1>6. CASE FinishCreateFolder(c)
  <2>1. CASE ss_reply[c] = "CONNECTION_FAILED"
    BY <1>3, <1>6, <2>1 DEF FinishCreateFolder
  <2>2. CASE ss_reply[c] # "CONNECTION_FAILED"
    <3>1. /\ add_file_to_server(ss_id[c], NameOf[c], UserOf[c]) /\ pc[c] = "answer"
          /\ Op[c] = "CREATEFOLDER"
      BY <1>6, <2>2 DEF FinishCreateFolder
    <3>2. ss_id[c] \in Servers /\ Creates(c) /\ ~Idle(c)
      BY <3>1 DEF Places, Creates, Idle
    <3> QED BY <1>4, <3>1, <3>2
  <2> QED BY <2>1, <2>2
<1>7. CASE FinishCreate(c) \/ FinishDelete(c)
  <2>1. pc[c] = "answer" /\ (\/ UNCHANGED <<slots, file_count, nodes>>
                             \/ remove_file_from_server(ss_id[c], NameOf[c]))
    BY <1>7 DEF FinishCreate, FinishDelete, RollBack
  <2>2. ss_id[c] \in Servers
    BY <2>1 DEF Places
  <2> QED BY <1>3, <2>1, <2>2, RemoveLists
<1>8. CASE FinishMove(c)
  <2>1. UNCHANGED <<slots, file_count>> /\ (nodes' = nodes \/ nodes' = hash_remove_file(NameOf[c]))
    BY <1>8 DEF FinishMove
  <2>2. Live' = Live
    BY <2>1 DEF Live, Deref
  <2>3. Node' = Node
    BY <2>2 DEF Node
  <2>4. nodes' \in Seq(Node)
    <3>1. PICK T : T = Node
      OBVIOUS
    <3>2. hash_remove_file(NameOf[c]) \in Seq(T)
      BY <1>1, <3>1, NodesLeft
    <3> QED BY <1>1, <2>1, <3>1, <3>2
  <2> QED BY <1>1, <2>1, <2>2, <2>3, <2>4 DEF Lists
<1>9. CASE RenameFile(c)
  <2>1. PICK s, i : s = ptr[c].ss /\ i = ptr[c].slot
    OBVIOUS
  <2>2. /\ slots' = [slots EXCEPT ![s][i].filename = <<TargetOf[c], NameOf[c]>>]
        /\ UNCHANGED <<file_count, nodes>> /\ pc[c] = "rename"
    BY <1>9, <2>1 DEF RenameFile
  <2>3. ptr[c] \in Live
    BY <2>2 DEF Places, Threads
  <2>4. s \in Servers /\ i \in 1 .. MaxFiles /\ slots[s][i] \in FileInfo
    BY <2>1, <2>3 DEF Live, Deref, Pointer
  <2>5. <<TargetOf[c], NameOf[c]>> \in Paths
    BY <2>2 DEF Places, Paths
  <2>6. PICK new : new = [slots[s][i] EXCEPT !.filename = <<TargetOf[c], NameOf[c]>>]
    OBVIOUS
  <2>7. new \in FileInfo
    BY <2>4, <2>5, <2>6 DEF FileInfo
  <2>8. slots' = [slots EXCEPT ![s][i] = new]
    BY <1>1, <2>2, <2>4, <2>6
  <2>9. /\ slots' \in [Servers -> [1 .. MaxFiles -> FileInfo \cup {Unused}]]
        /\ \A t \in Servers : \A j \in 1 .. MaxFiles :
             slots'[t][j] = IF t = s /\ j = i THEN new ELSE slots[t][j]
    BY <1>1, <2>4, <2>7, <2>8
  <2>10. Live \subseteq Live'
    <3> SUFFICES ASSUME NEW p \in Live PROVE slots'[p.ss][p.slot] \in FileInfo
      BY DEF Live, Deref
    <3>1. p.ss \in Servers /\ p.slot \in 1 .. MaxFiles /\ slots[p.ss][p.slot] \in FileInfo
      BY DEF Live, Deref, Pointer
    <3> QED BY <2>7, <2>9, <3>1
  <2>11. \A t \in Servers : \A j \in 1 .. file_count[t] : slots'[t][j] \in FileInfo
    <3> SUFFICES ASSUME NEW t \in Servers, NEW j \in 1 .. file_count[t]
                 PROVE  slots'[t][j] \in FileInfo
      OBVIOUS
    <3>1. j \in 1 .. MaxFiles /\ slots[t][j] \in FileInfo
      BY <1>1 DEF Lists
    <3> QED BY <2>7, <2>9, <3>1
  <2>12. nodes \in Seq(Node')
    BY <1>1, <2>10, NodesStay
  <2> QED BY <1>1, <2>2, <2>9, <2>10, <2>11, <2>12 DEF Lists
<1>10. CASE InsertMoved(c)
  <2>1. /\ nodes' = Inserted(Deref(ptr[c]).filename, ptr[c])
        /\ UNCHANGED <<slots, file_count>> /\ pc[c] = "insert"
    BY <1>10 DEF InsertMoved
  <2>2. PICK p, n, T : p = ptr[c] /\ n = Deref(ptr[c]).filename /\ T = Node
    OBVIOUS
  <2>3. p \in Live
    BY <2>1, <2>2 DEF Places, Threads
  <2>4. n \in Paths
    BY <2>2, <2>3 DEF Live, FileInfo
  <2>5. [filename |-> n, file_ptr |-> p] \in T
    BY <2>2, <2>3, <2>4 DEF Node
  <2>6. nodes' \in Seq(T)
    BY <1>1, <2>1, <2>2, <2>5, NodeAdded
  <2>7. Live' = Live
    BY <2>1 DEF Live, Deref
  <2>8. Node' = Node
    BY <2>7 DEF Node
  <2> QED BY <1>1, <2>1, <2>2, <2>6, <2>7, <2>8 DEF Lists
<1>11. CASE \/ CheckNew(c)
            \/ AssignServer(c)
            \/ AdvanceIndex(c)
            \/ FindTarget(c)
            \/ CheckOwner(c)
            \/ CallFails(c)
            \/ ForgetLocation(c)
            \/ ForgetAll(c)
            \/ LookupCache(c)
            \/ FindFile(c)
            \/ CacheLocation(c)
            \/ AnswerLocation(c)
  BY <1>3, <1>11 DEF CheckNew, AssignServer, AdvanceIndex, FindTarget, CheckOwner, CallFails, ForgetLocation,
     ForgetAll, LookupCache, FindFile, CacheLocation, AnswerLocation
<1>12. CASE RemoteCreate(c) \/ RemoteCreateFolder(c) \/ RemoteDelete(c) \/ RemoteMove(c)
  BY <1>3, <1>12 DEF RemoteCreate, RemoteCreateFolder, RemoteDelete, RemoteMove, Answer
<1> QED BY <1>5, <1>6, <1>7, <1>8, <1>9, <1>10, <1>11, <1>12 DEF Serve

\* A step of c, which goes to a place with what is needed there.
LEMMA ThreadMoves ==
  ASSUME Threads, Places, Live \subseteq Live', NEW c \in Conns,
         NEW label \in PCs \ {"start"}, NEW answer \in Replies, NEW code \in Replies,
         NEW p \in Live' \cup {NoPtr}, NEW s \in Servers \cup {NoServer},
         pc' = [pc EXCEPT ![c] = label], reply' = [reply EXCEPT ![c] = answer],
         ss_reply' = [ss_reply EXCEPT ![c] = code], ptr' = [ptr EXCEPT ![c] = p],
         ss_id' = [ss_id EXCEPT ![c] = s], failures' \in 0 .. MaxFailures,
         label \in {"assign", "select"} => Creates(c), label = "add" => Op[c] = "CREATE",
         label \in {"rename", "insert"} => Op[c] = "MOVE",
         label \in {"owner", "cache", "locate", "rename", "insert"} => p # NoPtr,
         label \in {"remote", "answer"} /\ ~Creates(c) => p # NoPtr,
         label \in {"select", "add", "remote", "answer"} => s \in Servers
  PROVE  Threads' /\ Places' /\ \A d \in Conns \ {c} : pc'[d] = pc[d]
<1>1. /\ pc \in [Conns -> PCs] /\ reply \in [Conns -> Replies] /\ ss_reply \in [Conns -> Replies]
      /\ ss_id \in [Conns -> Servers \cup {NoServer}]
  BY DEF Threads
<1>2. ptr \in [Conns -> Live' \cup {NoPtr}]
  BY DEF Threads
<1>3. Threads'
  BY <1>1, <1>2 DEF Threads
<1>4. /\ pc'[c] = label /\ ptr'[c] = p /\ ss_id'[c] = s
      /\ \A d \in Conns \ {c} : pc'[d] = pc[d] /\ ptr'[d] = ptr[d] /\ ss_id'[d] = ss_id[d]
  BY <1>1, <1>2
<1>5. Places'
  BY <1>4 DEF Places, Creates
<1> QED BY <1>3, <1>4, <1>5

LEMMA ServeThreads ==
  ASSUME Threads, Places, Lists, Registers, Stores, Live \subseteq Live', NEW c \in Conns, Serve(c)
  PROVE  Threads' /\ Places' /\ \A d \in Conns \ {c} : pc'[d] = pc[d]
<1> DEFINE Q == Threads' /\ Places' /\ \A d \in Conns \ {c} : pc'[d] = pc[d]
<1>1. /\ pc[c] \in PCs /\ reply[c] \in Replies /\ ss_reply[c] \in Replies
      /\ ptr[c] \in Live' \cup {NoPtr} /\ ss_id[c] \in Servers \cup {NoServer}
      /\ failures \in 0 .. MaxFailures
      /\ pc = [pc EXCEPT ![c] = pc[c]] /\ reply = [reply EXCEPT ![c] = reply[c]]
      /\ ss_reply = [ss_reply EXCEPT ![c] = ss_reply[c]]
      /\ ptr = [ptr EXCEPT ![c] = ptr[c]] /\ ss_id = [ss_id EXCEPT ![c] = ss_id[c]]
  BY DEF Threads
<1>2. ASSUME NEW answer \in Replies, Finish(c, answer), UNCHANGED <<ss_reply, ptr, failures>>,
             NEW s \in Servers \cup {NoServer}, ss_id' = [ss_id EXCEPT ![c] = s]
      PROVE  Q
  <2>1. "done" \in PCs \ {"start"}
    BY DEF PCs
  <2>2. /\ pc' = [pc EXCEPT ![c] = "done"] /\ reply' = [reply EXCEPT ![c] = answer]
        /\ ss_reply' = [ss_reply EXCEPT ![c] = ss_reply[c]]
        /\ ptr' = [ptr EXCEPT ![c] = ptr[c]] /\ failures' \in 0 .. MaxFailures
    BY <1>1, <1>2 DEF Finish
  <2> QED BY <1>1, <1>2, <2>1, <2>2, ThreadMoves
<1>3. ASSUME NEW label \in PCs \ {"start"}, Goto(c, label), NEW code \in Replies,
             ss_reply' = [ss_reply EXCEPT ![c] = code],
             NEW p \in Live' \cup {NoPtr}, ptr' = [ptr EXCEPT ![c] = p],
             NEW s \in Servers \cup {NoServer}, ss_id' = [ss_id EXCEPT ![c] = s],
             failures' \in 0 .. MaxFailures,
             label \in {"assign", "select"} => Creates(c), label = "add" => Op[c] = "CREATE",
             label \in {"rename", "insert"} => Op[c] = "MOVE",
             label \in {"owner", "cache", "locate", "rename", "insert"} => p # NoPtr,
             label \in {"remote", "answer"} /\ ~Creates(c) => p # NoPtr,
             label \in {"select", "add", "remote", "answer"} => s \in Servers
      PROVE  Q
  <2>1. pc' = [pc EXCEPT ![c] = label] /\ reply' = [reply EXCEPT ![c] = reply[c]]
    BY <1>1, <1>3 DEF Goto
  <2> QED BY <1>1, <1>3, <2>1, ThreadMoves
<1> SUFFICES Q
  OBVIOUS
<1> HIDE DEF Q
<1>4. ASSUME NEW answer \in Replies, Finish(c, answer), UNCHANGED <<ss_reply, ptr, failures, ss_id>>
      PROVE  Q
  BY <1>1, <1>2, <1>4
<1>5. ASSUME NEW label \in PCs \ {"start"}, Goto(c, label), UNCHANGED <<ss_reply, ptr, failures, ss_id>>,
             label \in {"assign", "select"} => Creates(c), label = "add" => Op[c] = "CREATE",
             label \in {"rename", "insert"} => Op[c] = "MOVE",
             label \in {"owner", "cache", "locate", "rename", "insert"} => ptr[c] # NoPtr,
             label \in {"remote", "answer"} /\ ~Creates(c) => ptr[c] # NoPtr,
             label \in {"select", "add", "remote", "answer"} => ss_id[c] \in Servers
      PROVE  Q
  BY <1>1, <1>3, <1>5
<1>6. {"SUCCESS", "FILE_EXISTS", "FILE_NOT_FOUND", "SERVER_ERROR", "NOT_OWNER", "CONNECTION_FAILED"}
        \subseteq Replies
  BY DEF Replies
<1>7. PCs \ {"start"} = {"assign", "select", "add", "owner", "remote", "answer", "invalidate",
        "rename", "insert", "clear", "find", "cache", "locate", "done"}
  BY DEF PCs
<1>8. ASSUME NEW label \in {"select", "add", "remote", "answer"}, Goto(c, label), NEW code \in Replies,
              ss_reply' = [ss_reply EXCEPT ![c] = code], UNCHANGED ptr,
              NEW s \in Servers, ss_id' = [ss_id EXCEPT ![c] = s], failures' \in 0 .. MaxFailures,
              label = "select" => Creates(c), label = "add" => Op[c] = "CREATE",
              Creates(c) \/ ptr[c] # NoPtr
       PROVE  Q
  <2>1. /\ label \in PCs \ {"start"}
        /\ label \notin {"assign", "rename", "insert", "owner", "cache", "locate"}
    BY <1>7
  <2>2. ptr' = [ptr EXCEPT ![c] = ptr[c]]
    BY <1>1, <1>8
  <2>3. s \in Servers \cup {NoServer}
    OBVIOUS
  <2> QED BY <1>1, <1>3, <1>8, <2>1, <2>2, <2>3
<1>9. CASE CheckNew(c)
  <2>1. /\ UNCHANGED <<ss_reply, ptr, failures, ss_id>> /\ Creates(c)
        /\ Finish(c, "FILE_EXISTS") \/ Goto(c, "assign")
    BY <1>9 DEF CheckNew, Creates
  <2> QED BY <1>4, <1>5, <1>6, <1>7, <2>1
<1>10. CASE AssignServer(c)
  <2>1. CASE ss_list = <<>>
    <3>1. Finish(c, "SERVER_ERROR") /\ UNCHANGED <<ss_reply, ptr, failures, ss_id>>
      BY <1>10, <2>1 DEF AssignServer
    <3> QED BY <1>4, <1>6, <3>1
  <2>2. CASE ss_list # <<>>
    <3>1. PICK current, s : current = next_ss_index % Len(ss_list) /\ s = ss_list[current + 1]
      OBVIOUS
    <3>2. ss_list \in Seq(Servers) /\ Len(ss_list) \in Nat \ {0} /\ next_ss_index \in Nat
      <4>1. ss_list \in Seq(Servers) /\ next_ss_index \in Nat
        BY DEF Registers
      <4> QED BY <2>2, <4>1, LenProperties, EmptySeq
    <3>3. current + 1 \in 1 .. Len(ss_list)
      BY <3>1, <3>2
    <3>4. s \in Servers
      BY <3>1, <3>2, <3>3
    <3>5. /\ ss_id' = [ss_id EXCEPT ![c] = s] /\ UNCHANGED <<ss_reply, ptr, failures>>
          /\ pc[c] = "assign" /\ Goto(c, "select")
      BY <1>10, <2>2, <3>1 DEF AssignServer
    <3>6. /\ Creates(c) /\ failures' \in 0 .. MaxFailures
          /\ ss_reply' = [ss_reply EXCEPT ![c] = ss_reply[c]]
      BY <1>1, <3>5 DEF Places
    <3> QED BY <1>1, <1>8, <3>4, <3>5, <3>6
  <2> QED BY <2>1, <2>2
<1>10a. CASE AdvanceIndex(c)
  <2>1. /\ UNCHANGED <<ss_reply, ptr, failures, ss_id>> /\ pc[c] = "select"
        /\ (Op[c] = "CREATE" /\ Goto(c, "add")) \/ Goto(c, "remote")
    BY <1>10a DEF AdvanceIndex
  <2>2. ss_id[c] \in Servers /\ Creates(c)
    BY <2>1 DEF Places
  <2> QED BY <1>5, <1>7, <2>1, <2>2
<1>11. CASE RecordFile(c)
  <2>1. /\ UNCHANGED <<ss_reply, ptr, failures, ss_id>> /\ pc[c] = "add"
        /\ \/ Goto(c, "remote")
           \/ Finish(c, "SERVER_ERROR")
           \/ Finish(c, "FILE_EXISTS")
    BY <1>11 DEF RecordFile, AddResult
  <2>2. ss_id[c] \in Servers /\ Creates(c)
    BY <2>1 DEF Places, Creates
  <2> QED BY <1>4, <1>5, <1>6, <1>7, <2>1, <2>2
<1>12. ASSUME NEW label \in {"owner", "cache"}, UNCHANGED <<ss_id, ss_reply, failures>>,
              \/ Finish(c, "FILE_NOT_FOUND") /\ UNCHANGED ptr
              \/ /\ find_file(NameOf[c]) # NoPtr /\ Goto(c, label)
                 /\ ptr' = [ptr EXCEPT ![c] = find_file(NameOf[c])]
       PROVE  Q
  <2>1. CASE Finish(c, "FILE_NOT_FOUND") /\ UNCHANGED ptr
    BY <1>4, <1>6, <1>12, <2>1
  <2>2. CASE /\ find_file(NameOf[c]) # NoPtr /\ Goto(c, label)
             /\ ptr' = [ptr EXCEPT ![c] = find_file(NameOf[c])]
    <3>1. PICK p : p = find_file(NameOf[c])
      OBVIOUS
    <3>2. p \in Live /\ p # NoPtr
      BY <2>2, <3>1, FoundNode DEF Lists
    <3>3. p \in Live' \cup {NoPtr} /\ ptr' = [ptr EXCEPT ![c] = p]
      BY <2>2, <3>1, <3>2
    <3>4. label \in PCs \ {"start"} /\ label \notin {"assign", "select", "add", "rename", "insert", "remote", "answer"}
      BY <1>7
    <3>5. /\ ss_reply' = [ss_reply EXCEPT ![c] = ss_reply[c]] /\ ss_id' = [ss_id EXCEPT ![c] = ss_id[c]]
          /\ failures' \in 0 .. MaxFailures
      BY <1>1, <1>12
    <3> QED BY <1>1, <1>3, <2>2, <3>2, <3>3, <3>4, <3>5
  <2> QED BY <1>12, <2>1, <2>2
<1>13. CASE FindTarget(c)
  <2>1. /\ UNCHANGED <<ss_id, ss_reply, failures>>
        /\ \/ Finish(c, "FILE_NOT_FOUND") /\ UNCHANGED ptr
           \/ /\ find_file(NameOf[c]) # NoPtr /\ Goto(c, "owner")
              /\ ptr' = [ptr EXCEPT ![c] = find_file(NameOf[c])]
    BY <1>13 DEF FindTarget
  <2> QED BY <1>12, <2>1
<1>14. CASE FindFile(c)
  <2>1. /\ UNCHANGED <<ss_id, ss_reply, failures>>
        /\ \/ Finish(c, "FILE_NOT_FOUND") /\ UNCHANGED ptr
           \/ /\ find_file(NameOf[c]) # NoPtr /\ Goto(c, "cache")
              /\ ptr' = [ptr EXCEPT ![c] = find_file(NameOf[c])]
    BY <1>14 DEF FindFile
  <2> QED BY <1>12, <2>1
<1>15. ASSUME ptr[c] # NoPtr
       PROVE  ptr[c] \in Live /\ Deref(ptr[c]).ss_id \in Servers
  BY <1>15 DEF Threads, Live, FileInfo
<1>16. CASE CheckOwner(c)
  <2>1. /\ UNCHANGED <<ss_reply, ptr, failures>> /\ pc[c] = "owner"
        /\ \/ Goto(c, "remote") /\ ss_id' = [ss_id EXCEPT ![c] = Deref(ptr[c]).ss_id]
           \/ Finish(c, "NOT_OWNER") /\ UNCHANGED ss_id
    BY <1>16 DEF CheckOwner
  <2>2. ptr[c] # NoPtr
    BY <2>1 DEF Places
  <2>3. PICK s \in Servers : s = Deref(ptr[c]).ss_id
    BY <1>15, <2>2
  <2>4. CASE Goto(c, "remote") /\ ss_id' = [ss_id EXCEPT ![c] = s]
    <3>1. ss_reply' = [ss_reply EXCEPT ![c] = ss_reply[c]] /\ ptr' = [ptr EXCEPT ![c] = ptr[c]]
          /\ failures' \in 0 .. MaxFailures /\ "remote" \in PCs \ {"start"}
      BY <1>1, <1>7, <2>1
    <3> QED BY ZenonT(60), <1>1, <1>3, <2>2, <2>4, <3>1
  <2> QED BY <1>4, <1>6, <2>1, <2>3, <2>4
<1>17. CASE RemoteCreate(c) \/ RemoteCreateFolder(c) \/ RemoteDelete(c) \/ RemoteMove(c)
  <2>1. /\ UNCHANGED <<ptr, failures, ss_id>> /\ pc[c] = "remote"
        /\ Goto(c, "answer")
    BY <1>17 DEF RemoteCreate, RemoteCreateFolder, RemoteDelete, RemoteMove, Answer
  <2>2. PICK code \in Replies : ss_reply' = [ss_reply EXCEPT ![c] = code]
    BY <1>6, <1>17 DEF RemoteCreate, RemoteCreateFolder, RemoteDelete, RemoteMove, Answer
  <2>3. ss_id[c] \in Servers /\ (~Creates(c) => ptr[c] # NoPtr)
    BY <2>1 DEF Places
  <2>4. ss_id' = [ss_id EXCEPT ![c] = ss_id[c]] /\ ptr' = [ptr EXCEPT ![c] = ptr[c]]
        /\ failures' \in 0 .. MaxFailures /\ "answer" \in PCs \ {"start"}
    BY <1>1, <1>7, <2>1
  <2> QED BY <1>8, <2>1, <2>2, <2>3, <2>4
<1>18. CASE CallFails(c)
  <2>1. /\ UNCHANGED <<ptr, ss_id>> /\ pc[c] \in {"remote", "answer"}
        /\ Goto(c, "answer") /\ ss_reply' = [ss_reply EXCEPT ![c] = "CONNECTION_FAILED"]
        /\ failures' = failures + 1 /\ failures < MaxFailures
    BY <1>18 DEF CallFails
  <2>2. ss_id[c] \in Servers /\ (~Creates(c) => ptr[c] # NoPtr)
    BY <2>1 DEF Places
  <2>3. failures' \in 0 .. MaxFailures
    BY <1>1, <2>1
  <2>4. ss_id' = [ss_id EXCEPT ![c] = ss_id[c]] /\ ptr' = [ptr EXCEPT ![c] = ptr[c]]
        /\ "answer" \in PCs \ {"start"} /\ "CONNECTION_FAILED" \in Replies
    BY <1>1, <1>6, <1>7, <2>1
  <2> QED BY <1>1, <1>3, <2>1, <2>2, <2>3, <2>4
<1>19. CASE FinishCreate(c) \/ FinishCreateFolder(c) \/ FinishDelete(c) \/ FinishMove(c)
  <2>1. /\ UNCHANGED <<ss_reply, ptr, failures, ss_id>> /\ pc[c] = "answer"
        /\ \/ Finish(c, ss_reply[c])
           \/ Finish(c, "SUCCESS")
           \/ Finish(c, "CONNECTION_FAILED")
           \/ Goto(c, "invalidate")
           \/ Goto(c, "rename") /\ Op[c] = "MOVE"
    BY <1>19 DEF FinishCreate, FinishCreateFolder, FinishDelete, FinishMove
  <2>2. ss_reply[c] \in Replies /\ (Op[c] = "MOVE" => ptr[c] # NoPtr)
    BY <1>1, <2>1 DEF Places, Creates
  <2> QED BY <1>4, <1>5, <1>6, <1>7, <2>1, <2>2
<1>20. CASE ForgetLocation(c) \/ ForgetAll(c)
  <2>1. UNCHANGED <<ss_reply, ptr, failures, ss_id>> /\ Finish(c, "SUCCESS")
    BY <1>20 DEF ForgetLocation, ForgetAll
  <2> QED BY <1>4, <1>6, <2>1
<1>21. CASE RenameFile(c) \/ InsertMoved(c)
  <2>1. /\ UNCHANGED <<ss_reply, ptr, failures, ss_id>> /\ pc[c] \in {"rename", "insert"}
        /\ Goto(c, "insert") \/ Goto(c, "clear")
    BY <1>21 DEF RenameFile, InsertMoved
  <2>2. ptr[c] # NoPtr /\ Op[c] = "MOVE"
    BY <2>1 DEF Places
  <2> QED BY <1>5, <1>7, <2>1, <2>2
<1>22. CASE LookupCache(c)
  <2>1. /\ UNCHANGED <<ss_reply, ptr, failures>>
        /\ \/ /\ EntryMatches(NameOf[c]) /\ Finish(c, "SUCCESS")
              /\ ss_id' = [ss_id EXCEPT ![c] = entries[CacheSlot[NameOf[c]]].ss_id]
           \/ Goto(c, "find") /\ UNCHANGED ss_id
    BY <1>22 DEF LookupCache
  <2>2. CASE Goto(c, "find") /\ UNCHANGED ss_id
    BY <1>5, <1>7, <2>1, <2>2
  <2>3. CASE /\ EntryMatches(NameOf[c]) /\ Finish(c, "SUCCESS")
             /\ ss_id' = [ss_id EXCEPT ![c] = entries[CacheSlot[NameOf[c]]].ss_id]
    <3>1. PICK e : e = entries[CacheSlot[NameOf[c]]]
      OBVIOUS
    <3>2. e.filename \in Paths /\ e # NoEntry
      BY <2>3, <3>1 DEF EntryMatches, NoEntry
    <3>3. e \in [filename : Paths, ss_id : Servers, expired : BOOLEAN] \cup {NoEntry}
      BY <3>1 DEF Stores
    <3>4. e.ss_id \in Servers
      BY <3>2, <3>3
    <3> QED BY <1>2, <1>6, <2>1, <2>3, <3>1, <3>4
  <2> QED BY <2>1, <2>2, <2>3
<1>23. CASE CacheLocation(c)
  <2>1. UNCHANGED <<ss_reply, ptr, failures, ss_id>> /\ pc[c] = "cache" /\ Goto(c, "locate")
    BY <1>23 DEF CacheLocation
  <2>2. ptr[c] # NoPtr
    BY <2>1 DEF Places
  <2> QED BY <1>5, <1>7, <2>1, <2>2
<1>24. CASE AnswerLocation(c)
  <2>1. /\ UNCHANGED <<ss_reply, ptr, failures>> /\ pc[c] = "locate" /\ Finish(c, "SUCCESS")
        /\ ss_id' = [ss_id EXCEPT ![c] = Deref(ptr[c]).ss_id]
    BY <1>24 DEF AnswerLocation
  <2>2. ptr[c] # NoPtr
    BY <2>1 DEF Places
  <2>3. PICK s \in Servers : s = Deref(ptr[c]).ss_id
    BY <1>15, <2>2
  <2> QED BY <1>2, <1>6, <2>1, <2>3
<1> QED
  BY <1>9, <1>10, <1>10a, <1>11, <1>13, <1>14, <1>16, <1>17, <1>18, <1>19, <1>20, <1>21, <1>22, <1>23, <1>24
     DEF Serve

\* A thread acts on a request that it serves, or that may start.
LEMMA ServedOrStarts ==
  ASSUME NEW c \in Conns, Serve(c)
  PROVE  ~Idle(c) \/ Starts(c)
BY DEF Serve, CheckNew, AssignServer, AdvanceIndex, RecordFile, FindTarget, CheckOwner, RemoteCreate,
   RemoteCreateFolder, RemoteDelete, RemoteMove, CallFails, FinishCreate, FinishCreateFolder,
   FinishDelete, ForgetLocation, FinishMove, RenameFile, InsertMoved, ForgetAll, LookupCache,
   FindFile, CacheLocation, AnswerLocation, Idle

\* A request leaves registrations alone.
LEMMA ServeLeaves ==
  ASSUME NEW c \in Conns, Serve(c)
  PROVE  UNCHANGED <<ss_list, registering, to_list, written>>
BY DEF Serve, CheckNew, AssignServer, AdvanceIndex, RecordFile, FindTarget, CheckOwner, RemoteCreate,
   RemoteCreateFolder, RemoteDelete, RemoteMove, CallFails, FinishCreate, FinishCreateFolder,
   FinishDelete, ForgetLocation, FinishMove, RenameFile, InsertMoved, ForgetAll, LookupCache,
   FindFile, CacheLocation, AnswerLocation, Answer

\* Only get_available_storage_server moves the round-robin position.
LEMMA ServePosition ==
  ASSUME NEW c \in Conns, Serve(c), ss_list \in Seq(Servers), next_ss_index \in Nat
  PROVE  next_ss_index' \in Nat
<1>1. CASE AdvanceIndex(c)
  <2>1. PICK i \in DOMAIN ss_list : next_ss_index' = i % Len(ss_list)
    BY <1>1 DEF AdvanceIndex
  <2>2. Len(ss_list) \in Nat \ {0} /\ i \in Nat
    BY LenProperties
  <2> QED BY <2>1, <2>2
<1>2. CASE ~AdvanceIndex(c)
  <2>1. next_ss_index' = next_ss_index
    BY <1>2 DEF Serve, CheckNew, AssignServer, RecordFile, FindTarget, CheckOwner, RemoteCreate,
       RemoteCreateFolder, RemoteDelete, RemoteMove, CallFails, FinishCreate, FinishCreateFolder,
       FinishDelete, ForgetLocation, FinishMove, RenameFile, InsertMoved, ForgetAll, LookupCache,
       FindFile, CacheLocation, AnswerLocation, Answer
  <2> QED BY <2>1
<1> QED BY <1>1, <1>2

LEMMA ServeRegisters ==
  ASSUME NoCreateMeanwhile, Lists, Registers, NEW c \in Conns, Serve(c), Lists', Live \subseteq Live',
         written => \A s \in Servers : file_count'[s] <= file_count[s],
         \A d \in Conns \ {c} : pc'[d] = pc[d]
  PROVE  Registers'
<1>1. UNCHANGED <<ss_list, registering, to_list, written>>
  BY ServeLeaves
<1>2. /\ ss_list \in Seq(Servers) /\ next_ss_index \in Nat /\ to_list \in Seq(Listing)
      /\ written \in BOOLEAN
      /\ registering = {} \/ \E s \in Servers : registering = {s}
      /\ AllRegistered => Complete
  BY DEF Registers
<1>3. next_ss_index' \in Nat
  BY <1>2, ServePosition
<1>4. Complete' = Complete
  BY <1>1 DEF Complete
<1>5. Complete' \/ \A d \in Conns : Creates(d) => (Idle(d))'
  <2> SUFFICES ASSUME ~Complete, NEW d \in Conns, Creates(d)
               PROVE  pc'[d] \in {"start", "done"}
    BY <1>4 DEF Idle
  <2>1. pc[d] \in {"start", "done"}
    BY DEF Registers, Idle
  <2>2. CASE d = c
    <3>1. Starts(c)
      BY <2>1, <2>2, ServedOrStarts DEF Idle
    <3>2. c \in Early
      BY <3>1 DEF Starts, Complete
    <3>3. AllRegistered
      BY <2>2, <3>2 DEF NoCreateMeanwhile
    <3> QED BY <1>2, <3>3
  <2> QED BY <2>1, <2>2
<1>6. ASSUME written
      PROVE  \E s \in Servers : /\ registering = {s} /\ to_list # <<>>
                                /\ file_count'[s] + 1 \in 1 .. MaxFiles
                                /\ slots'[s][file_count'[s] + 1] \in FileInfo
  <2>1. PICK s \in Servers : /\ registering = {s} /\ to_list # <<>>
                             /\ file_count[s] + 1 \in 1 .. MaxFiles
                             /\ slots[s][file_count[s] + 1] \in FileInfo
    BY <1>6 DEF Registers
  <2>2. PICK i, j : i = file_count'[s] + 1 /\ j = file_count[s] + 1
    OBVIOUS
  <2>3. /\ file_count[s] \in Nat /\ file_count'[s] \in Nat /\ file_count'[s] <= file_count[s]
        /\ MaxFiles \in Nat
    BY <1>6 DEF Lists
  <2>4. i \in 1 .. MaxFiles
    BY <2>1, <2>2, <2>3
  <2>5. slots[s][i] \in FileInfo
    <3>1. i = j \/ i \in 1 .. file_count[s]
      BY <2>2, <2>3
    <3> QED BY <2>1, <2>2, <3>1 DEF Lists
  <2>6. PICK p : p = [ss |-> s, slot |-> i]
    OBVIOUS
  <2>7. p \in Live
    BY <2>4, <2>5, <2>6 DEF Live, Deref, Pointer
  <2>8. p \in Live'
    BY <2>7
  <2>9. slots'[s][i] \in FileInfo
    BY <2>6, <2>8 DEF Live, Deref
  <2> QED BY <2>1, <2>2, <2>4, <2>9
<1>7. written' => \E s \in Servers : /\ registering' = {s} /\ to_list' # <<>>
                                     /\ file_count'[s] + 1 \in 1 .. MaxFiles
                                     /\ slots'[s][file_count'[s] + 1] \in FileInfo
  BY <1>1, <1>6
<1>8. AllRegistered' => Complete'
  BY <1>2, <1>4 DEF AllRegistered
<1>9. Complete' \/ \A d \in Conns : (Creates(d) => Idle(d))'
  BY <1>5 DEF Creates
<1> QED BY <1>1, <1>2, <1>3, <1>7, <1>8, <1>9 DEF Registers
-----------------------------------------------------------------------------
Entry == [filename : Paths, ss_id : Servers, expired : BOOLEAN]

LEMMA ServeEntries ==
  ASSUME Threads, Places, Stores, NEW c \in Conns, Serve(c)
  PROVE  entries' \in [CacheSlots -> Entry \cup {NoEntry}]
<1>1. entries \in [CacheSlots -> Entry \cup {NoEntry}]
  BY DEF Stores, Entry
<1>2. NameOf[c] \in Paths /\ CacheSlot[NameOf[c]] \in CacheSlots
  OBVIOUS
<1>3. cache_invalidate(NameOf[c]) \in [CacheSlots -> Entry \cup {NoEntry}]
  BY <1>1, <1>2 DEF cache_invalidate
<1>4. CASE ForgetLocation(c) \/ LookupCache(c)
  <2>1. entries' = entries \/ entries' = cache_invalidate(NameOf[c])
    BY <1>4 DEF ForgetLocation, LookupCache
  <2> QED BY <1>1, <1>3, <2>1
<1>5. CASE ForgetAll(c)
  BY <1>5 DEF ForgetAll, cache_clear
<1>6. CASE CacheLocation(c)
  <2>1. pc[c] = "cache" /\ entries' = cache_insert(NameOf[c], Deref(ptr[c]).ss_id)
    BY <1>6 DEF CacheLocation
  <2>2. ptr[c] \in Live
    BY <2>1 DEF Threads, Places
  <2>3. PICK s \in Servers : s = Deref(ptr[c]).ss_id
    BY <2>2 DEF Live, FileInfo
  <2>4. PICK e : e = [filename |-> NameOf[c], ss_id |-> s, expired |-> FALSE]
    OBVIOUS
  <2>5. e \in Entry
    BY <1>2, <2>4 DEF Entry
  <2>6. entries' = [entries EXCEPT ![CacheSlot[NameOf[c]]] = e]
    BY <2>1, <2>3, <2>4 DEF cache_insert
  <2> QED BY <1>1, <2>5, <2>6
<1>7. CASE ~(\/ ForgetLocation(c)
             \/ LookupCache(c)
             \/ ForgetAll(c)
             \/ CacheLocation(c))
  <2>1. entries' = entries
    BY <1>7 DEF Serve, CheckNew, AssignServer, AdvanceIndex, RecordFile, FindTarget, CheckOwner, RemoteCreate,
       RemoteCreateFolder, RemoteDelete, RemoteMove, CallFails, FinishCreate, FinishCreateFolder,
       FinishDelete, FinishMove, RenameFile, InsertMoved, FindFile, AnswerLocation, Answer
  <2> QED BY <1>1, <2>1
<1> QED BY <1>4, <1>5, <1>6, <1>7

Kinds == {"none", "file", "dir"}

\* What a request changes on the disks.
LEMMA ServeDisks ==
  ASSUME Places, Stores, NEW c \in Conns, Serve(c)
  PROVE  /\ meta' \in [Servers -> [Paths -> Users \cup {NoUser}]]
         /\ path' \in [Servers -> [Paths -> Kinds]]
<1>1. /\ meta \in [Servers -> [Paths -> Users \cup {NoUser}]]
      /\ path \in [Servers -> [Paths -> Kinds]]
  BY DEF Stores, Kinds
<1>2. NameOf[c] \in Paths /\ UserOf[c] \in Users
  OBVIOUS
<1>3. "none" \in Kinds /\ "file" \in Kinds /\ "dir" \in Kinds
  BY DEF Kinds
<1>4. CASE RemoteCreate(c) \/ RemoteCreateFolder(c) \/ RemoteDelete(c)
  <2>1. pc[c] = "remote" /\ ss_id[c] \in Servers
    BY <1>4 DEF RemoteCreate, RemoteCreateFolder, RemoteDelete, Places
  <2>2. PICK s, n : s = ss_id[c] /\ n = NameOf[c]
    OBVIOUS
  <2>3. /\ \/ meta' = meta
           \/ meta' = [meta EXCEPT ![s][n] = UserOf[c]]
           \/ meta' = [meta EXCEPT ![s][n] = NoUser]
        /\ \/ path' = path
           \/ path' = [path EXCEPT ![s][n] = "file"]
           \/ path' = [path EXCEPT ![s][n] = "dir"]
           \/ path' = [path EXCEPT ![s][n] = "none"]
    BY <1>4, <2>2 DEF RemoteCreate, RemoteCreateFolder, RemoteDelete
  <2>4. s \in Servers /\ n \in Paths
    BY <1>2, <2>1, <2>2
  <2>5. path' \in [Servers -> [Paths -> Kinds]]
    <3>1. ASSUME NEW k \in Kinds, path' = [path EXCEPT ![s][n] = k]
          PROVE  path' \in [Servers -> [Paths -> Kinds]]
      BY <1>1, <2>4, <3>1
    <3> QED BY <1>1, <1>3, <2>3, <3>1
  <2>6. meta' \in [Servers -> [Paths -> Users \cup {NoUser}]]
    <3>1. UserOf[c] \in Users \cup {NoUser} /\ NoUser \in Users \cup {NoUser}
      BY <1>2
    <3>2. ASSUME NEW u \in Users \cup {NoUser}, meta' = [meta EXCEPT ![s][n] = u]
          PROVE  meta' \in [Servers -> [Paths -> Users \cup {NoUser}]]
      BY <1>1, <2>4, <3>2
    <3> QED BY <1>1, <2>3, <3>1, <3>2
  <2> QED BY <2>5, <2>6
<1>5. CASE RemoteMove(c)
  <2>1. PICK s, n, new : s = ss_id[c] /\ n = NameOf[c] /\ new = <<TargetOf[c], NameOf[c]>>
    OBVIOUS
  <2>2. pc[c] = "remote" /\ Op[c] = "MOVE" /\ ss_id[c] \in Servers
    BY <1>5 DEF RemoteMove, Places
  <2>3. n \in Paths /\ new \in Paths
    BY <2>1, <2>2 DEF Paths
  <2>4. /\ meta' = meta
        /\ \/ path' = path
           \/ path' = [path EXCEPT ![s][new] = path[s][n], ![s][n] = "none"]
    BY <1>5, <2>1 DEF RemoteMove
  <2>5. path[s][n] \in Kinds
    BY <1>1, <2>1, <2>2, <2>3
  <2>6. PICK k \in Kinds : k = path[s][n]
    BY <2>5
  <2>7. PICK q : q = [path EXCEPT ![s][new] = k]
    OBVIOUS
  <2>8. s \in Servers
    BY <2>1, <2>2
  <2>9. q \in [Servers -> [Paths -> Kinds]]
    BY <1>1, <2>3, <2>7, <2>8
  <2>10. path' = path \/ path' = [q EXCEPT ![s][n] = "none"]
    BY <2>4, <2>6, <2>7
  <2>11. CASE path' = [q EXCEPT ![s][n] = "none"]
    BY <1>1, <1>3, <2>3, <2>4, <2>8, <2>9, <2>11
  <2> QED BY <1>1, <2>4, <2>10, <2>11
<1>6. CASE ~(\/ RemoteCreate(c)
             \/ RemoteCreateFolder(c)
             \/ RemoteDelete(c)
             \/ RemoteMove(c))
  <2>1. UNCHANGED <<meta, path>>
    BY <1>6 DEF Serve, CheckNew, AssignServer, AdvanceIndex, RecordFile, FindTarget, CheckOwner, CallFails,
       FinishCreate, FinishCreateFolder, FinishDelete, ForgetLocation, FinishMove, RenameFile,
       InsertMoved, ForgetAll, LookupCache, FindFile, CacheLocation, AnswerLocation
  <2> QED BY <1>1, <2>1
<1> QED BY <1>4, <1>5, <1>6

LEMMA ServeTypes ==
  ASSUME NoCreateMeanwhile, TypeInv, NEW c \in Conns, Serve(c)
  PROVE  TypeInv' /\ Live \subseteq Live'
<1>1. Threads /\ Places /\ Lists /\ Registers /\ Stores
  BY DEF TypeInv
<1>2. /\ Lists' /\ Live \subseteq Live'
      /\ written => \A s \in Servers : file_count'[s] <= file_count[s]
  BY <1>1, ServeLists
<1>3. Threads' /\ Places' /\ \A d \in Conns \ {c} : pc'[d] = pc[d]
  BY <1>1, <1>2, ServeThreads
<1>4. Registers'
  BY <1>1, <1>2, <1>3, ServeRegisters
<1>5. entries' \in [CacheSlots -> Entry \cup {NoEntry}]
  BY <1>1, ServeEntries
<1>6. /\ meta' \in [Servers -> [Paths -> Users \cup {NoUser}]]
      /\ path' \in [Servers -> [Paths -> Kinds]]
  BY <1>1, ServeDisks
<1>7. Stores'
  BY <1>5, <1>6 DEF Stores, Entry, Kinds
<1> QED BY <1>2, <1>3, <1>4, <1>7 DEF TypeInv

LEMMA SameThreads ==
  ASSUME Threads, Places, Live \subseteq Live', UNCHANGED <<pc, locals, reply, failures>>
  PROVE  Threads' /\ Places'
<1>1. ptr' \in [Conns -> Live' \cup {NoPtr}]
  BY DEF Threads
<1>2. Threads'
  BY <1>1 DEF Threads
<1>3. Places'
  BY DEF Places, Creates
<1> QED BY <1>2, <1>3

\* A step of register_storage_server.
LEMMA RegisterTypes ==
  ASSUME TypeInv, NEW s \in Servers, Register(s)
  PROVE  TypeInv' /\ Live \subseteq Live'
<1>1. Threads /\ Places /\ Lists /\ Registers /\ Stores
  BY DEF TypeInv
<1>2. UNCHANGED <<pc, locals, reply, failures, entries, meta, path, next_ss_index>>
  BY DEF Register, RegisterServer, ListFile, CountFile, EndRegistration
<1>3. Stores'
  BY <1>1, <1>2 DEF Stores
<1>4. ASSUME Lists', Live \subseteq Live', Registers' PROVE TypeInv' /\ Live \subseteq Live'
  BY <1>1, <1>2, <1>3, <1>4, SameThreads DEF TypeInv
<1>5. /\ ss_list \in Seq(Servers) /\ next_ss_index' \in Nat /\ to_list \in Seq(Listing)
      /\ FileList[s] \in Seq(Listing) /\ MaxFiles \in Nat
      /\ file_count \in [Servers -> 0 .. MaxFiles]
  BY <1>1, <1>2 DEF Registers, Lists
<1>6. ~Complete
  BY DEF Register, RegisterServer, ListFile, CountFile, EndRegistration, Complete
<1>7. ~AllRegistered' /\ \A c \in Conns : (Creates(c) => Idle(c))'
  <2>1. ~AllRegistered /\ \A c \in Conns : Creates(c) => Idle(c)
    BY <1>1, <1>6 DEF Registers
  <2> QED BY <1>2, <2>1 DEF AllRegistered, Creates, Idle
<1>8. CASE RegisterServer(s)
  <2>1. /\ registering = {} /\ registering' = {s} /\ to_list' = FileList[s]
        /\ ss_list' = Append(ss_list, s) /\ file_count' = [file_count EXCEPT ![s] = 0]
        /\ UNCHANGED <<slots, nodes, written>>
    BY <1>8 DEF RegisterServer
  <2>2. Live' = Live
    BY <2>1 DEF Live, Deref
  <2>3. Node' = Node
    BY <2>2 DEF Node
  <2>4. /\ file_count' \in [Servers -> 0 .. MaxFiles]
        /\ \A t \in Servers : file_count'[t] = 0 \/ file_count'[t] = file_count[t]
    BY <1>5, <2>1
  <2>5. \A t \in Servers : \A i \in 1 .. file_count'[t] : slots'[t][i] \in FileInfo
    <3> SUFFICES ASSUME NEW t \in Servers, NEW i \in 1 .. file_count'[t]
                 PROVE  slots[t][i] \in FileInfo
      BY <2>1
    <3>1. file_count'[t] # 0
      OBVIOUS
    <3> QED BY <1>1, <2>4, <3>1 DEF Lists
  <2>6. Lists'
    BY <1>1, <2>1, <2>3, <2>4, <2>5 DEF Lists
  <2>7. written' = FALSE
    BY <1>1, <2>1 DEF Registers
  <2>8. ss_list' \in Seq(Servers)
    BY <1>5, <2>1, AppendProperties
  <2>9. Registers'
    BY <1>5, <1>7, <2>1, <2>7, <2>8 DEF Registers
  <2> QED BY <1>4, <2>2, <2>6, <2>9
<1>9. CASE ListFile(s)
  <2>1. PICK k, l : k = file_count[s] + 1 /\ l = Head(to_list)
    OBVIOUS
  <2>2. /\ registering = {s} /\ to_list # <<>> /\ file_count[s] < MaxFiles /\ written' = TRUE
        /\ slots' = [slots EXCEPT ![s][k] =
                       [filename |-> l.filename, owner |-> l.owner, ss_id |-> s]]
        /\ nodes' = Inserted(l.filename, [ss |-> s, slot |-> k])
        /\ UNCHANGED <<ss_list, file_count, registering, to_list>>
    BY <1>9, <2>1 DEF ListFile, RoomFor
  <2>3. k \in 1 .. MaxFiles
    BY <1>5, <2>1, <2>2
  <2>4. l.filename \in Paths /\ l.owner \in Users
    <3>1. Head(to_list) \in Listing
      BY <1>5, <2>2
    <3> QED BY <2>1, <3>1 DEF Listing
  <2>5. Lists' /\ Live \subseteq Live' /\ slots'[s][k] \in FileInfo
    BY <1>1, <2>1, <2>2, <2>3, <2>4, WriteSlot
  <2>6. Registers'
    BY <1>1, <1>5, <1>7, <2>1, <2>2, <2>3, <2>5 DEF Registers
  <2> QED BY <1>4, <2>5, <2>6
<1>10. CASE CountFile(s)
  <2>1. PICK k : k = file_count[s] + 1
    OBVIOUS
  <2>2. /\ registering = {s} /\ written /\ to_list' = Tail(to_list) /\ written' = FALSE
        /\ file_count' = [file_count EXCEPT ![s] = k]
        /\ UNCHANGED <<ss_list, slots, nodes, registering>>
    BY <1>10, <2>1 DEF CountFile
  <2>3. to_list # <<>> /\ k \in 1 .. MaxFiles /\ slots[s][k] \in FileInfo
    <3>1. PICK t \in Servers : /\ registering = {t} /\ to_list # <<>>
                               /\ file_count[t] + 1 \in 1 .. MaxFiles
                               /\ slots[t][file_count[t] + 1] \in FileInfo
      BY <1>1, <2>2 DEF Registers
    <3>2. t = s
      BY <2>2, <3>1
    <3> QED BY <2>1, <3>1, <3>2
  <2>4. Live' = Live
    BY <2>2 DEF Live, Deref
  <2>5. Node' = Node
    BY <2>4 DEF Node
  <2>6. file_count' \in [Servers -> 0 .. MaxFiles]
    BY <1>5, <2>2, <2>3
  <2>7. \A t \in Servers : \A i \in 1 .. file_count'[t] : slots'[t][i] \in FileInfo
    <3> SUFFICES ASSUME NEW t \in Servers, NEW i \in 1 .. file_count'[t]
                 PROVE  slots[t][i] \in FileInfo
      BY <2>2
    <3>1. i \in 1 .. file_count[t] \/ (t = s /\ i = k)
      BY <1>5, <2>1, <2>2
    <3> QED BY <1>1, <2>3, <3>1 DEF Lists
  <2>8. Lists'
    BY <1>1, <2>2, <2>5, <2>6, <2>7 DEF Lists
  <2>9. to_list' \in Seq(Listing)
    BY <1>5, <2>2, <2>3
  <2>10. Registers'
    BY <1>1, <1>5, <1>7, <2>2, <2>9 DEF Registers
  <2> QED BY <1>4, <2>4, <2>8, <2>10
<1>11. CASE EndRegistration(s)
  <2>1. /\ registering' = {} /\ ~written
        /\ UNCHANGED <<ss_list, slots, file_count, nodes, to_list, written>>
    BY <1>11 DEF EndRegistration
  <2>2. Lists' /\ Live' = Live
    BY <1>1, <2>1, SameLists
  <2>3. written' = FALSE
    BY <1>1, <2>1 DEF Registers
  <2>4. Registers'
    BY <1>5, <1>7, <2>1, <2>3 DEF Registers
  <2> QED BY <1>4, <2>2, <2>4
<1> QED BY <1>8, <1>9, <1>10, <1>11 DEF Register

\* A step that leaves all but the cache alone.
LEMMA OtherTypes ==
  ASSUME TypeInv,
         UNCHANGED <<table, registration, storage, pc, locals, reply, failures>>,
         entries' \in [CacheSlots -> Entry \cup {NoEntry}]
  PROVE  TypeInv' /\ Live \subseteq Live'
<1>1. Threads /\ Places /\ Lists /\ Registers /\ Stores
  BY DEF TypeInv
<1>2. Lists' /\ Live' = Live
  BY <1>1, SameLists
<1>3. Threads' /\ Places'
  BY <1>1, <1>2, SameThreads
<1>4. Complete' = Complete /\ AllRegistered' = AllRegistered
  BY DEF Complete, AllRegistered
<1>5. Registers'
  BY <1>1, <1>4 DEF Registers, Creates, Idle
<1>6. Stores'
  BY <1>1 DEF Stores, Entry
<1> QED BY <1>2, <1>3, <1>5, <1>6 DEF TypeInv

LEMMA NextTypes ==
  ASSUME NoCreateMeanwhile, TypeInv, [Next]_vars
  PROVE  TypeInv' /\ Live \subseteq Live'
<1>1. entries \in [CacheSlots -> Entry \cup {NoEntry}]
  BY DEF TypeInv, Stores, Entry
<1>2. ASSUME NEW s \in Servers, Register(s) PROVE TypeInv' /\ Live \subseteq Live'
  BY <1>2, RegisterTypes
<1>3. ASSUME NEW c \in Conns, Serve(c) PROVE TypeInv' /\ Live \subseteq Live'
  BY <1>3, ServeTypes
<1>4. ASSUME NEW k \in CacheSlots, Expire(k) PROVE TypeInv' /\ Live \subseteq Live'
  <2>1. /\ UNCHANGED <<table, registration, storage, pc, locals, reply, failures>>
        /\ entries[k] # NoEntry /\ entries' = [entries EXCEPT ![k].expired = TRUE]
    BY <1>4 DEF Expire
  <2>2. entries[k] \in Entry
    BY <1>1, <2>1
  <2>3. [entries[k] EXCEPT !.expired = TRUE] \in Entry
    BY <2>2 DEF Entry
  <2>4. entries' \in [CacheSlots -> Entry \cup {NoEntry}]
    BY <1>1, <2>1, <2>3
  <2> QED BY <2>1, <2>4, OtherTypes
<1>5. CASE UNCHANGED vars
  BY <1>1, <1>5, OtherTypes DEF vars
<1> QED BY <1>2, <1>3, <1>4, <1>5 DEF Next, Done
-----------------------------------------------------------------------------
LEMMA ReverseType ==
  ASSUME NEW T, NEW s \in Seq(T)
  PROVE  Reverse(s) \in Seq(T)
<1>1. PICK n \in Nat : n = Len(s)
  BY LenProperties
<1>2. \A i \in 1 .. n : n - i + 1 \in 1 .. n
  BY <1>1
<1>3. \A i \in 1 .. n : s[n - i + 1] \in T
  BY <1>1, <1>2
<1>4. Reverse(s) \in [1 .. n -> T]
  BY <1>1, <1>3 DEF Reverse
<1> QED BY <1>4, SeqDef

LEMMA InitTypes == Init => TypeInv
<1> SUFFICES ASSUME Init PROVE TypeInv
  OBVIOUS
<1>1. Threads
  BY DEF Init, Threads, PCs, Replies
<1>2. Places
  BY DEF Init, Places
<1>3. \A s \in ToSet(InitialServers) : s \in Servers /\ Len(FileList[s]) <= MaxFiles
  <2>1. InitialServers \in Seq(Servers)
    OBVIOUS
  <2> QED BY <2>1 DEF ToSet
<1>4. \A s \in Servers : FileList[s] \in Seq(Listing) /\ Len(FileList[s]) \in Nat
  BY LenProperties
<1>5. ASSUME NEW s \in ToSet(InitialServers), NEW i \in 1 .. Len(FileList[s])
      PROVE  i \in 1 .. MaxFiles /\ slots[s][i] \in FileInfo
  <2>1. s \in Servers /\ i \in 1 .. MaxFiles
    BY <1>3, <1>4
  <2>2. FileList[s][i] \in Listing
    BY <1>4, <2>1
  <2>3. slots[s][i] = [filename |-> FileList[s][i].filename,
                       owner    |-> FileList[s][i].owner, ss_id |-> s]
    BY <2>1 DEF Init, ListedSlots
  <2> QED BY <2>1, <2>2, <2>3 DEF FileInfo, Listing
<1>6. slots \in [Servers -> [1 .. MaxFiles -> FileInfo \cup {Unused}]]
  <2> SUFFICES ASSUME NEW s \in Servers
               PROVE  ListedSlots(s) \in [1 .. MaxFiles -> FileInfo \cup {Unused}]
    BY DEF Init
  <2>1. slots[s] = ListedSlots(s)
    BY DEF Init
  <2>2. \A i \in 1 .. MaxFiles : ListedSlots(s)[i] \in FileInfo \cup {Unused}
    <3> SUFFICES ASSUME NEW i \in 1 .. MaxFiles PROVE ListedSlots(s)[i] \in FileInfo \cup {Unused}
      OBVIOUS
    <3>1. CASE s \in ToSet(InitialServers) /\ i <= Len(FileList[s])
      BY <1>4, <1>5, <2>1, <3>1
    <3>2. CASE ~(s \in ToSet(InitialServers) /\ i <= Len(FileList[s]))
      BY <3>2 DEF ListedSlots
    <3> QED BY <3>1, <3>2
  <2>3. ListedSlots(s) = [i \in 1 .. MaxFiles |-> ListedSlots(s)[i]]
    BY DEF ListedSlots
  <2> QED BY <2>2, <2>3
<1>7. file_count \in [Servers -> 0 .. MaxFiles]
  BY <1>3, <1>4 DEF Init
<1>8. \A s \in Servers : \A i \in 1 .. file_count[s] : slots[s][i] \in FileInfo
  <2> SUFFICES ASSUME NEW s \in Servers, NEW i \in 1 .. file_count[s] PROVE slots[s][i] \in FileInfo
    OBVIOUS
  <2>1. file_count[s] = IF s \in ToSet(InitialServers) THEN Len(FileList[s]) ELSE 0
    BY DEF Init
  <2>2. s \in ToSet(InitialServers) /\ i \in 1 .. Len(FileList[s])
    BY <2>1
  <2> QED BY <1>5, <2>2
<1>9. nodes \in Seq(Node)
  <2>1. PICK T : T = Node
    OBVIOUS
  <2>2. ASSUME NEW s \in ToSet(InitialServers)
        PROVE  ListedNodes(s) \in Seq(T)
    <3>1. PICK n \in Nat : n = Len(FileList[s]) /\ DOMAIN FileList[s] = 1 .. n
      BY <1>3, <1>4
    <3>2. \A i \in 1 .. n : [filename |-> FileList[s][i].filename,
                             file_ptr |-> [ss |-> s, slot |-> i]] \in T
      <4> SUFFICES ASSUME NEW i \in 1 .. n
                   PROVE  [filename |-> FileList[s][i].filename,
                           file_ptr |-> [ss |-> s, slot |-> i]] \in T
        OBVIOUS
      <4>1. i \in 1 .. MaxFiles /\ slots[s][i] \in FileInfo /\ s \in Servers
        BY <1>3, <1>5, <3>1
      <4>2. FileList[s][i] \in Listing
        BY <1>4, <3>1, <4>1
      <4>3. PICK p : p = [ss |-> s, slot |-> i]
        OBVIOUS
      <4>4. p \in Live
        BY <4>1, <4>3 DEF Live, Deref, Pointer
      <4> QED BY <2>1, <4>2, <4>3, <4>4 DEF Node, Listing
    <3>3. ListedNodes(s) \in [1 .. n -> T]
      BY <3>1, <3>2 DEF ListedNodes
    <3> QED BY <3>3, SeqDef
  <2>3. PICK n \in Nat : n = Len(InitialServers) /\ DOMAIN InitialServers = 1 .. n
    BY LenProperties
  <2>4. \A k \in 1 .. n : ListedNodes(InitialServers[k]) \in Seq(T)
    <3>1. \A k \in 1 .. n : InitialServers[k] \in ToSet(InitialServers)
      BY <2>3 DEF ToSet
    <3> QED BY <2>2, <3>1
  <2>5. PICK lists : lists = [k \in DOMAIN InitialServers |-> ListedNodes(InitialServers[k])]
    OBVIOUS
  <2>6. lists \in [1 .. n -> Seq(T)]
    BY <2>3, <2>4, <2>5
  <2>7. lists \in Seq(Seq(T))
    BY <2>6, SeqDef
  <2>8. FlattenSeq(lists) \in Seq(T)
    BY <2>7, FlattenType
  <2>9. nodes = Reverse(FlattenSeq(lists))
    BY <2>5 DEF Init
  <2> QED BY <2>1, <2>8, <2>9, ReverseType
<1>10. Lists
  BY <1>6, <1>7, <1>8, <1>9 DEF Lists
<1>11. Registers
  <2>1. /\ ss_list \in Seq(Servers) /\ next_ss_index \in Nat /\ to_list = <<>> /\ written = FALSE
        /\ registering = {} /\ ss_list = InitialServers
    BY DEF Init
  <2>2. to_list \in Seq(Listing)
    BY <2>1, EmptySeq
  <2>3. AllRegistered => Complete
    BY <1>3, <2>1 DEF AllRegistered, Complete
  <2>4. \A c \in Conns : Idle(c)
    BY DEF Init, Idle
  <2> QED BY <2>1, <2>2, <2>3, <2>4 DEF Registers
<1>12. Stores
  <2>1. \A s \in Servers : \A n \in Paths : OwnerAtFirst(s, n) \in Users \cup {NoUser}
    <3> SUFFICES ASSUME NEW s \in Servers, NEW n \in Paths,
                        \E i \in DOMAIN FileList[s] : FileList[s][i].filename = n
                 PROVE  (CHOOSE l \in ToSet(FileList[s]) : l.filename = n).owner \in Users
      BY DEF OwnerAtFirst
    <3>1. \E l \in ToSet(FileList[s]) : l.filename = n
      BY DEF ToSet
    <3>2. PICK l : l = CHOOSE x \in ToSet(FileList[s]) : x.filename = n
      OBVIOUS
    <3>3. l \in ToSet(FileList[s])
      BY <3>1, <3>2
    <3>4. l \in Listing
      BY <1>4, <3>3 DEF ToSet
    <3> QED BY <3>2, <3>4 DEF Listing
  <2>2. meta \in [Servers -> [Paths -> Users \cup {NoUser}]]
    BY <2>1 DEF Init
  <2>3. path \in [Servers -> [Paths -> {"none", "file", "dir"}]]
    BY DEF Init
  <2>4. entries \in [CacheSlots -> [filename : Paths, ss_id : Servers, expired : BOOLEAN]
                                     \cup {NoEntry}]
    BY DEF Init
  <2> QED BY <2>2, <2>3, <2>4 DEF Stores
<1> QED BY <1>1, <1>2, <1>10, <1>11, <1>12 DEF TypeInv

LEMMA TypeInvHolds == NoCreateMeanwhile /\ Spec => []TypeInv
<1> SUFFICES ASSUME NoCreateMeanwhile PROVE Spec => []TypeInv
  OBVIOUS
<1>1. TypeInv /\ [Next]_vars => TypeInv'
  BY NextTypes
<1> QED BY <1>1, InitTypes, PTL DEF Spec

LEMMA InvIsTyped == TypeInv => TypeOK
<1> SUFFICES ASSUME TypeInv PROVE TypeOK
  OBVIOUS
<1>1. ptr \in [Conns -> Pointer \cup {NoPtr}]
  BY DEF TypeInv, Threads, Live
<1>2. nodes \in Seq([filename : Paths, file_ptr : Pointer])
  <2>1. PICK a, b : a = Node /\ b = [filename : Paths, file_ptr : Pointer]
    OBVIOUS
  <2>2. a \subseteq b
    BY <2>1 DEF Node, Live
  <2>3. nodes \in Seq(a)
    BY <2>1 DEF TypeInv, Lists
  <2>4. nodes \in Seq(b)
    BY <2>2, <2>3, SeqMonotonic
  <2> QED BY <2>1, <2>4
<1>3. registering \in SUBSET Servers
  BY DEF TypeInv, Registers
<1> QED BY <1>1, <1>2, <1>3 DEF TypeInv, Threads, Lists, Registers, Stores, TypeOK

\* Every variable of the name server keeps its type: no count and no pointer ever leaves the
\* files array of a server, although nodes and threads keep pointers to slots that
\* remove_file_from_server shifts, and every slot behind a pointer has been written once.
\* (No file is created while a server registers: its registration counts, without a lock,
\* a file that add_file_to_server may have found room for.)
THEOREM NamespaceTypeCorrect == NoCreateMeanwhile /\ Spec => []TypeOK
BY TypeInvHolds, InvIsTyped, PTL
-----------------------------------------------------------------------------
(***************************************************************************)
(* The spread of new files.                                                *)
(***************************************************************************)
AssignedTo(s) == {c \in Conns : Creates(c) /\ ss_id[c] = s}

\* A request that creates has its server from get_available_storage_server, once.
Unassigned ==
  \A c \in Conns : /\ Creates(c) /\ pc[c] \in {"start", "assign"} => ss_id[c] = NoServer
                   /\ pc[c] \in {"owner", "find", "cache", "locate"} => ~Creates(c)

\* assignment_mutex is held by at most one thread, which has the server at the position.
OneSelects == \A c, d \in Conns : pc[c] = "select" /\ pc[d] = "select" => c = d
Selected == \A c \in Conns : pc[c] = "select" => ss_list # <<>> /\ ss_id[c] = ss_list[next_ss_index + 1]

\* The round-robin position, as it will be when the mutex is released.
Turn == IF \E c \in Conns : pc[c] = "select" THEN (next_ss_index + 1) % Len(ss_list)
                                              ELSE next_ss_index

\* In the current round the servers before that position have had their turn.
Spread ==
  \E q \in Nat : \A k \in 1 .. Len(ss_list) :
    Assigned(ss_list[k]) = q + (IF k <= Turn THEN 1 ELSE 0)

BalanceInv ==
  /\ ss_list = InitialServers /\ next_ss_index \in Nat
  /\ next_ss_index = 0 \/ next_ss_index < Len(ss_list)
  /\ ss_id = [c \in Conns |-> ss_id[c]] /\ pc \in [Conns -> PCs]
  /\ Unassigned /\ OneSelects /\ Selected /\ Spread

LEMMA InitBalance == Init => BalanceInv
<1> SUFFICES ASSUME Init PROVE BalanceInv
  OBVIOUS
<1>1. ASSUME NEW k \in 1 .. Len(ss_list) PROVE Assigned(ss_list[k]) = 0
  <2>1. ss_list[k] \in Servers
    BY <1>1 DEF Init
  <2>2. {c \in Conns : Op[c] \in {"CREATE", "CREATEFOLDER"} /\ ss_id[c] = ss_list[k]} = {}
    BY <2>1 DEF Init
  <2> QED BY <2>2, FS_EmptySet DEF Assigned
<1>2. Spread
  <2>1. Turn = 0
    BY DEF Init, Turn
  <2>2. \A k \in 1 .. Len(ss_list) : ~(k <= Turn)
    BY <2>1
  <2>3. \A k \in 1 .. Len(ss_list) : Assigned(ss_list[k]) = 0 + (IF k <= Turn THEN 1 ELSE 0)
    BY <1>1, <2>2
  <2> QED BY <2>3 DEF Spread
<1>3. Unassigned /\ OneSelects /\ Selected
  BY DEF Init, Unassigned, OneSelects, Selected
<1> QED BY <1>2, <1>3 DEF Init, BalanceInv, PCs

\* A step that assigns no server.
LEMMA SameBalance ==
  ASSUME BalanceInv, Unassigned', OneSelects', Selected', ss_list' = ss_list, Turn' = Turn,
         next_ss_index' \in Nat, next_ss_index' = 0 \/ next_ss_index' < Len(ss_list),
         ss_id' = [c \in Conns |-> ss_id'[c]], pc' \in [Conns -> PCs],
         \A c \in Conns : Creates(c) => ss_id'[c] = ss_id[c]
  PROVE  BalanceInv'
<1>1. ASSUME NEW k \in 1 .. Len(ss_list) PROVE Assigned(ss_list[k])' = Assigned(ss_list[k])
  <2>1. PICK s : s = ss_list[k] /\ s = ss_list'[k]
    OBVIOUS
  <2>2. {c \in Conns : Op[c] \in {"CREATE", "CREATEFOLDER"} /\ ss_id'[c] = s}
          = {c \in Conns : Op[c] \in {"CREATE", "CREATEFOLDER"} /\ ss_id[c] = s}
    BY DEF Creates
  <2> QED BY <2>1, <2>2 DEF Assigned
<1>2. Spread'
  <2>1. PICK q \in Nat : \A k \in 1 .. Len(ss_list) :
          Assigned(ss_list[k]) = q + (IF k <= Turn THEN 1 ELSE 0)
    BY DEF BalanceInv, Spread
  <2>2. \A k \in 1 .. Len(ss_list') :
          Assigned(ss_list[k])' = q + (IF k <= Turn' THEN 1 ELSE 0)
    BY <1>1, <2>1
  <2> QED BY <2>2 DEF Spread
<1> QED BY <1>2 DEF BalanceInv

\* A step that has nothing to do with assignments.
LEMMA QuietBalance ==
  ASSUME BalanceInv, Places, Unassigned', UNCHANGED <<ss_list, next_ss_index>>,
         ss_id' = [c \in Conns |-> ss_id'[c]], pc' \in [Conns -> PCs],
         \A c \in Conns : Creates(c) => ss_id'[c] = ss_id[c],
         \A c \in Conns : pc'[c] = "select" <=> pc[c] = "select"
  PROVE  BalanceInv'
<1>1. OneSelects'
  BY DEF BalanceInv, OneSelects
<1>2. \A c \in Conns : pc[c] = "select" => ss_id'[c] = ss_id[c]
  BY DEF Places
<1>3. Selected'
  BY <1>2 DEF BalanceInv, Selected
<1>4. Turn' = Turn
  BY DEF Turn
<1>5. next_ss_index' \in Nat /\ (next_ss_index' = 0 \/ next_ss_index' < Len(ss_list))
  BY DEF BalanceInv
<1> QED BY <1>1, <1>3, <1>4, <1>5, SameBalance

\* The position moves behind the server that was selected.
LEMMA AdvanceBalance ==
  ASSUME BalanceInv, NEW c \in Conns, AdvanceIndex(c), Places
  PROVE  BalanceInv'
<1>1. /\ ss_list = InitialServers /\ next_ss_index \in Nat
      /\ next_ss_index = 0 \/ next_ss_index < Len(ss_list)
      /\ ss_id = [d \in Conns |-> ss_id[d]] /\ pc \in [Conns -> PCs]
      /\ Unassigned /\ OneSelects /\ Selected
  BY DEF BalanceInv
<1>2. PICK i \in DOMAIN ss_list : ss_list[i] = ss_id[c] /\ next_ss_index' = i % Len(ss_list)
  BY DEF AdvanceIndex
<1>3. /\ pc[c] = "select" /\ Creates(c) /\ UNCHANGED <<ss_list, ss_id>>
      /\ Goto(c, IF Op[c] = "CREATE" THEN "add" ELSE "remote")
  BY DEF AdvanceIndex, Places
<1>4. ss_list # <<>> /\ ss_id[c] = ss_list[next_ss_index + 1]
  BY <1>1, <1>3 DEF Selected
<1>5. PICK n, m : n = Len(ss_list) /\ m = next_ss_index
  OBVIOUS
<1>6. n \in Nat \ {0} /\ m \in Nat /\ m < n
  <2>1. n \in Nat \ {0}
    BY <1>1, <1>4, <1>5, LenProperties, EmptySeq
  <2> QED BY <1>1, <1>5, <2>1
<1>7. i = m + 1
  <2>1. IsInjective(ss_list) /\ DOMAIN ss_list = 1 .. n
    BY <1>1, <1>5, LenProperties
  <2>2. m + 1 \in 1 .. n
    BY <1>6
  <2> QED BY <1>2, <1>4, <1>5, <2>1, <2>2 DEF IsInjective
<1>8. (m + 1) % n = IF m + 1 < n THEN m + 1 ELSE 0
  BY ONLY <1>6, NextInTurn
<1>9. next_ss_index' = (m + 1) % n
  BY <1>2, <1>5, <1>7
<1>10. next_ss_index' \in Nat /\ (next_ss_index' = 0 \/ next_ss_index' < n)
  BY <1>6, <1>8, <1>9
<1>11. /\ pc' \in [Conns -> PCs] /\ pc'[c] \in {"add", "remote"}
       /\ \A d \in Conns \ {c} : pc'[d] = pc[d]
  BY <1>1, <1>3 DEF Goto, PCs
<1>12. \A d \in Conns : pc'[d] # "select"
  BY <1>1, <1>3, <1>11 DEF OneSelects
<1>13. OneSelects' /\ Selected'
  BY <1>12 DEF OneSelects, Selected
<1>14. Turn' = Turn
  <2>1. Turn' = next_ss_index'
    BY <1>12 DEF Turn
  <2>2. Turn = (m + 1) % n
    BY <1>3, <1>5 DEF Turn
  <2> QED BY <1>9, <2>1, <2>2
<1>15. Unassigned'
  BY <1>1, <1>3, <1>11 DEF Unassigned, Creates
<1>16. ss_id' = [d \in Conns |-> ss_id'[d]] /\ \A d \in Conns : ss_id'[d] = ss_id[d]
  BY <1>1, <1>3
<1>17. Len(ss_list) = n /\ ss_list' = ss_list
  BY <1>3, <1>5
<1> QED BY <1>10, <1>11, <1>13, <1>14, <1>15, <1>16, <1>17, SameBalance

\* get_available_storage_server gives c the server whose turn it is.
LEMMA AssignBalance ==
  ASSUME BalanceInv, NEW c \in Conns, AssignServer(c), Places
  PROVE  BalanceInv'
<1>1. /\ ss_list = InitialServers /\ next_ss_index \in Nat
      /\ next_ss_index = 0 \/ next_ss_index < Len(ss_list)
      /\ ss_id = [d \in Conns |-> ss_id[d]] /\ pc \in [Conns -> PCs]
      /\ Unassigned /\ Spread
  BY DEF BalanceInv
<1>2. /\ pc[c] = "assign" /\ Creates(c) /\ UNCHANGED <<ss_list, next_ss_index>>
      /\ \A d \in Conns : pc[d] # "select"
  BY DEF AssignServer, AssignmentMutexFree, Places
<1>3. CASE ss_list = <<>>
  <2>1. Finish(c, "SERVER_ERROR") /\ UNCHANGED ss_id
    BY <1>3 DEF AssignServer
  <2>2. Unassigned'
    BY <1>1, <2>1 DEF Unassigned, Creates, Finish
  <2>3. pc' \in [Conns -> PCs] /\ \A d \in Conns : pc'[d] # "select"
    BY <1>1, <1>2, <2>1 DEF Finish, PCs
  <2> QED BY <1>1, <1>2, <2>1, <2>2, <2>3, QuietBalance
<1>4. CASE ss_list # <<>>
  <2>1. PICK n, m, s : n = Len(ss_list) /\ m = next_ss_index /\ s = ss_list[m + 1]
    OBVIOUS
  <2>2. n \in Nat \ {0} /\ m \in Nat /\ m < n
    <3>1. n \in Nat \ {0}
      BY <1>1, <1>4, <2>1, LenProperties, EmptySeq
    <3> QED BY <1>1, <2>1, <3>1
  <2>3. /\ m % n = m /\ m + 1 \in 1 .. n
        /\ (m + 1) % n = IF m + 1 < n THEN m + 1 ELSE 0
    <3>1. m + 1 \in 1 .. n
      BY <2>2
    <3>2. n \in Nat \ {0} /\ m \in Nat /\ m < n
      BY <2>2
    <3>3. m % n = m /\ (m + 1) % n = IF m + 1 < n THEN m + 1 ELSE 0
      BY ONLY <3>2, NextInTurn
    <3> QED BY <3>1, <3>3
  <2>4. ss_id' = [ss_id EXCEPT ![c] = s] /\ Goto(c, "select")
    BY <1>4, <2>1, <2>3 DEF AssignServer
  <2>5. /\ ss_id' = [d \in Conns |-> ss_id'[d]] /\ ss_id'[c] = s
        /\ \A d \in Conns \ {c} : ss_id'[d] = ss_id[d] /\ pc'[d] = pc[d]
        /\ pc'[c] = "select" /\ pc' \in [Conns -> PCs]
    BY <1>1, <2>4 DEF Goto, PCs
  <2>6. Unassigned'
    BY <1>1, <2>5 DEF Unassigned, Creates
  <2>7. ss_id[c] = NoServer /\ s \in Servers
    BY <1>1, <1>2, <2>1, <2>3 DEF Unassigned
  <2>8. Assigned(s)' = Assigned(s) + 1
    <3>1. PICK old, new : old = AssignedTo(s) /\ new = old \cup {c}
      OBVIOUS
    <3>2. \A d \in Conns : Creates(d) /\ ss_id'[d] = s <=> d \in new
      BY <1>2, <2>5, <3>1 DEF AssignedTo
    <3>3. new \subseteq Conns /\ old \subseteq Conns /\ c \notin old
      BY <2>7, <3>1 DEF AssignedTo
    <3>4. {d \in Conns : Op[d] \in {"CREATE", "CREATEFOLDER"} /\ ss_id'[d] = s} = new
      BY <3>2, <3>3 DEF Creates
    <3>5. IsFiniteSet(old)
      BY <3>3, FS_Subset
    <3>6. Cardinality(new) = Cardinality(old) + 1
      BY <3>1, <3>3, <3>5, FS_AddElement
    <3>7. Assigned(s) = Cardinality(old)
      BY <3>1 DEF Assigned, AssignedTo, Creates
    <3> QED BY <3>4, <3>6, <3>7 DEF Assigned
  <2>9. ASSUME NEW t, t # s, t \in Servers PROVE Assigned(t)' = Assigned(t)
    <3>1. \A d \in Conns : ss_id'[d] = t <=> ss_id[d] = t
      BY <2>5, <2>7, <2>9
    <3>2. {d \in Conns : Op[d] \in {"CREATE", "CREATEFOLDER"} /\ ss_id'[d] = t}
            = {d \in Conns : Op[d] \in {"CREATE", "CREATEFOLDER"} /\ ss_id[d] = t}
      BY <3>1
    <3> QED BY <3>2 DEF Assigned
  <2>10. PICK q \in Nat : \A k \in 1 .. n : Assigned(ss_list[k]) = q + (IF k <= m THEN 1 ELSE 0)
    BY <1>1, <1>2, <2>1 DEF Spread, Turn
  <2>11. \A k \in 1 .. n : ss_list[k] \in Servers /\ (k # m + 1 => ss_list[k] # s)
    <3>1. IsInjective(ss_list) /\ DOMAIN ss_list = 1 .. n /\ ss_list \in Seq(Servers)
      BY <1>1, <2>1, LenProperties
    <3>2. \A k \in 1 .. n : ss_list[k] \in Servers
      BY <2>1, <3>1
    <3>3. \A k, j \in 1 .. n : ss_list[k] = ss_list[j] => k = j
      BY <3>1 DEF IsInjective
    <3> QED BY <2>1, <2>3, <3>2, <3>3
  <2>12. \A k \in 1 .. n : Assigned(ss_list[k])' = q + (IF k <= m + 1 THEN 1 ELSE 0)
    <3> SUFFICES ASSUME NEW k \in 1 .. n
                 PROVE  Assigned(ss_list[k])' = q + (IF k <= m + 1 THEN 1 ELSE 0)
      OBVIOUS
    <3>1. PICK t : t = ss_list[k]
      OBVIOUS
    <3>2. Assigned(ss_list[k])' = Assigned(t)'
      BY <1>2, <3>1 DEF Assigned
    <3>3. Assigned(t) = q + (IF k <= m THEN 1 ELSE 0)
      BY <2>10, <3>1
    <3>4. CASE k = m + 1
      <4>1. t = s /\ Assigned(t)' = Assigned(t) + 1
        BY <2>1, <2>8, <3>1, <3>4
      <4>2. Assigned(t) = q + 0
        BY <2>2, <3>3, <3>4
      <4> QED BY <2>2, <3>2, <3>4, <4>1, <4>2
    <3>5. CASE k # m + 1
      <4>1. Assigned(t)' = Assigned(t)
        BY <2>9, <2>11, <3>1, <3>5
      <4>2. k <= m <=> k <= m + 1
        BY <2>2, <3>5
      <4> QED BY <3>2, <3>3, <4>1, <4>2
    <3> QED BY <3>4, <3>5
  <2>13. Turn' = (m + 1) % n
    BY <1>2, <2>1, <2>5 DEF Turn
  <2>14. Spread'
    <3>1. CASE m + 1 < n
      <4>1. Turn' = m + 1
        BY <2>3, <2>13, <3>1
      <4>2. \A k \in 1 .. Len(ss_list') :
              Assigned(ss_list[k])' = q + (IF k <= Turn' THEN 1 ELSE 0)
        BY <1>2, <2>1, <2>12, <4>1
      <4>3. Spread'
        BY <4>2 DEF Spread
      <4> QED BY <4>3
    <3>2. CASE m + 1 = n
      <4>1. Turn' = 0
        BY <2>2, <2>3, <2>13, <3>2
      <4>2. \A k \in 1 .. n : k <= m + 1 /\ ~(k <= 0)
        BY <3>2
      <4>3. \A k \in 1 .. Len(ss_list') :
              Assigned(ss_list[k])' = (q + 1) + (IF k <= Turn' THEN 1 ELSE 0)
        BY <1>2, <2>1, <2>12, <4>1, <4>2
      <4>4. q + 1 \in Nat
        OBVIOUS
      <4> QED BY <4>1, <4>3, <4>4 DEF Spread
    <3> QED BY <2>2, <3>1, <3>2
  <2>15. OneSelects' /\ Selected'
    BY <1>2, <1>4, <2>1, <2>5 DEF OneSelects, Selected
  <2> QED BY <1>1, <1>2, <2>5, <2>6, <2>14, <2>15 DEF BalanceInv
<1> QED BY <1>3, <1>4

LEMMA NextBalance ==
  ASSUME AllRegistered, BalanceInv, TypeInv, [Next]_vars
  PROVE  BalanceInv'
<1>1. /\ ss_list = InitialServers /\ next_ss_index \in Nat
      /\ ss_id = [d \in Conns |-> ss_id[d]] /\ pc \in [Conns -> PCs]
      /\ Unassigned /\ Places
  BY DEF BalanceInv, TypeInv
<1>2. ASSUME UNCHANGED <<ss_list, next_ss_index, pc, ss_id>> PROVE BalanceInv'
  <2>1. Unassigned'
    BY <1>1, <1>2 DEF Unassigned, Creates
  <2> QED BY <1>1, <1>2, <2>1, QuietBalance
<1>3. ASSUME NEW s \in Servers, Register(s) PROVE BalanceInv'
  <2>1. registering = {} /\ s \in ToSet(ss_list)
    BY <1>1 DEF AllRegistered, TypeInv, Registers, Complete
  <2> QED BY <1>3, <2>1 DEF Register, RegisterServer, ListFile, CountFile, EndRegistration
<1>4. ASSUME NEW k \in CacheSlots, Expire(k) PROVE BalanceInv'
  BY <1>2, <1>4 DEF Expire
<1>5. CASE UNCHANGED vars
  BY <1>2, <1>5 DEF vars
<1>6. ASSUME NEW c \in Conns, Serve(c) PROVE BalanceInv'
  <2>1. CASE AssignServer(c) \/ AdvanceIndex(c)
    BY <1>1, <2>1, AssignBalance, AdvanceBalance
  <2>2. CASE CheckNew(c)
    <3>1. /\ UNCHANGED <<ss_list, next_ss_index, ss_id>> /\ Creates(c) /\ pc[c] = "start"
          /\ pc' = [pc EXCEPT ![c] = "done"] \/ pc' = [pc EXCEPT ![c] = "assign"]
      BY <2>2 DEF CheckNew, Creates, Starts, Finish, Goto
    <3>2. pc' \in [Conns -> PCs] /\ \A d \in Conns : pc'[d] = "select" <=> pc[d] = "select"
      BY <1>1, <3>1 DEF PCs
    <3>3. Unassigned'
      BY <1>1, <3>1 DEF Unassigned, Creates
    <3> QED BY <1>1, <3>1, <3>2, <3>3, QuietBalance
  <2>3. CASE ~AssignServer(c) /\ ~AdvanceIndex(c) /\ ~CheckNew(c)
    <3>1. ss_list' = ss_list /\ next_ss_index' = next_ss_index
      BY <1>6, <2>3 DEF Serve, RecordFile, FindTarget, CheckOwner, RemoteCreate,
         RemoteCreateFolder, RemoteDelete, RemoteMove, CallFails, FinishCreate, FinishCreateFolder,
         FinishDelete, ForgetLocation, FinishMove, RenameFile, InsertMoved, ForgetAll, LookupCache,
         FindFile, CacheLocation, AnswerLocation, Answer
    <3>2. \/ ss_id' = ss_id
          \/ ~Creates(c) /\ \E s : ss_id' = [ss_id EXCEPT ![c] = s]
      <4>1. CASE CheckOwner(c) \/ AnswerLocation(c)
        <5>1. ~Creates(c)
          BY <1>1, <4>1 DEF CheckOwner, AnswerLocation, Unassigned
        <5> QED BY <4>1, <5>1 DEF CheckOwner, AnswerLocation
      <4>2. CASE LookupCache(c)
        <5>1. ~Creates(c)
          BY <4>2 DEF LookupCache, Creates
        <5> QED BY <4>2, <5>1 DEF LookupCache
      <4> QED BY <1>6, <2>3, <4>1, <4>2 DEF Serve, RecordFile, FindTarget, RemoteCreate,
         RemoteCreateFolder, RemoteDelete, RemoteMove, CallFails, FinishCreate, FinishCreateFolder,
         FinishDelete, ForgetLocation, FinishMove, RenameFile, InsertMoved, ForgetAll,
         FindFile, CacheLocation, Answer
    <3>3. /\ ss_id' = [d \in Conns |-> ss_id'[d]]
          /\ \A d \in Conns : Creates(d) => ss_id'[d] = ss_id[d]
      BY <1>1, <3>2
    <3>4. \E label \in PCs \ {"start", "assign", "select"} :
            /\ pc' = [pc EXCEPT ![c] = label]
            /\ label \in {"owner", "find", "cache", "locate"} => ~Creates(c)
      <4>1. CASE CacheLocation(c)
        BY <1>1, <4>1 DEF CacheLocation, Goto, PCs, Unassigned
      <4>2. CASE FindFile(c)
        BY <1>1, <4>2 DEF FindFile, Goto, Finish, PCs, Unassigned
      <4>3. CASE LookupCache(c)
        BY <4>3 DEF LookupCache, Goto, Finish, PCs, Creates
      <4>4. CASE FindTarget(c)
        BY <4>4 DEF FindTarget, Goto, Finish, PCs, Creates
      <4>5. CASE ~(\/ CacheLocation(c)
                   \/ FindFile(c)
                   \/ LookupCache(c)
                   \/ FindTarget(c))
        <5>1. \/ pc' = [pc EXCEPT ![c] = "remote"]
              \/ pc' = [pc EXCEPT ![c] = "answer"]
              \/ pc' = [pc EXCEPT ![c] = "done"]
              \/ pc' = [pc EXCEPT ![c] = "invalidate"]
              \/ pc' = [pc EXCEPT ![c] = "rename"]
              \/ pc' = [pc EXCEPT ![c] = "insert"]
              \/ pc' = [pc EXCEPT ![c] = "clear"]
          BY <1>6, <2>3, <4>5 DEF Serve, RecordFile, CheckOwner, RemoteCreate,
             RemoteCreateFolder, RemoteDelete, RemoteMove, CallFails, FinishCreate,
             FinishCreateFolder, FinishDelete, ForgetLocation, FinishMove, RenameFile,
             InsertMoved, ForgetAll, AnswerLocation, Answer, Goto, Finish
        <5>2. {"remote", "answer", "done", "invalidate", "rename", "insert", "clear"}
                \subseteq PCs \ {"start", "assign", "select", "owner", "find", "cache", "locate"}
          BY DEF PCs
        <5>3. PICK label \in PCs \ {"start", "assign", "select", "owner", "find", "cache", "locate"} :
                pc' = [pc EXCEPT ![c] = label]
          BY <5>1, <5>2
        <5> QED BY <5>3
      <4> QED BY <4>1, <4>2, <4>3, <4>4, <4>5
    <3>5. PICK label \in PCs \ {"start", "assign", "select"} :
            /\ pc' = [pc EXCEPT ![c] = label]
            /\ label \in {"owner", "find", "cache", "locate"} => ~Creates(c)
      BY <3>4
    <3>6. pc' \in [Conns -> PCs] /\ pc'[c] = label /\ \A d \in Conns \ {c} : pc'[d] = pc[d]
      BY <1>1, <3>5
    <3>7. Unassigned'
      BY <1>1, <3>3, <3>5, <3>6 DEF Unassigned, Creates
    <3>8. pc[c] # "select"
      BY <1>6, <2>3, <2>1 DEF Serve, RecordFile, FindTarget, CheckOwner, RemoteCreate,
         RemoteCreateFolder, RemoteDelete, RemoteMove, CallFails, FinishCreate, FinishCreateFolder,
         FinishDelete, ForgetLocation, FinishMove, RenameFile, InsertMoved, ForgetAll, LookupCache,
         FindFile, CacheLocation, AnswerLocation, Starts
    <3> QED BY <1>1, <3>1, <3>3, <3>5, <3>6, <3>7, <3>8, QuietBalance
  <2> QED BY <2>1, <2>2, <2>3
<1> QED BY <1>3, <1>4, <1>5, <1>6 DEF Next, Done

\* The numbers of files assigned to any two servers differ by at most one at any time, for
\* any number of servers and of threads that ask get_available_storage_server for one: the
\* position is read and moved on in one critical section.
THEOREM AssignmentsBalanced == AllRegistered /\ Spec => []Balanced
<1> SUFFICES ASSUME AllRegistered PROVE Spec => []Balanced
  OBVIOUS
<1>1. NoCreateMeanwhile
  BY DEF NoCreateMeanwhile
<1>2. Spec => []TypeInv
  BY <1>1, TypeInvHolds
<1>3. BalanceInv /\ TypeInv /\ [Next]_vars => BalanceInv'
  BY NextBalance
<1>4. BalanceInv => Balanced
  <2> SUFFICES ASSUME BalanceInv, NEW s \in Servers, NEW t \in Servers
               PROVE  Assigned(s) <= Assigned(t) + 1
    BY DEF Balanced
  <2>1. PICK q \in Nat : \A k \in 1 .. Len(ss_list) :
          Assigned(ss_list[k]) = q + (IF k <= Turn THEN 1 ELSE 0)
    BY DEF BalanceInv, Spread
  <2>2. \A x \in Servers : Assigned(x) = q \/ Assigned(x) = q + 1
    <3> SUFFICES ASSUME NEW x \in Servers PROVE Assigned(x) = q \/ Assigned(x) = q + 1
      OBVIOUS
    <3>1. x \in ToSet(ss_list)
      BY DEF AllRegistered, BalanceInv
    <3>2. ss_list \in Seq(Servers)
      BY DEF BalanceInv
    <3>3. PICK k \in 1 .. Len(ss_list) : x = ss_list[k]
      BY <3>1, <3>2 DEF ToSet
    <3>4. Assigned(ss_list[k]) = q + (IF k <= Turn THEN 1 ELSE 0)
      BY <2>1
    <3> QED BY <3>3, <3>4
  <2>3. PICK a, b : a = Assigned(s) /\ b = Assigned(t)
    OBVIOUS
  <2>4. (a = q \/ a = q + 1) /\ (b = q \/ b = q + 1)
    BY <2>2, <2>3
  <2>5. a <= b + 1
    BY ONLY q \in Nat, <2>4
  <2> QED BY <2>3, <2>5
<1> QED BY <1>2, <1>3, <1>4, InitBalance, PTL DEF Spec
-----------------------------------------------------------------------------
(***************************************************************************)
(* The lists and the disks.                                                *)
(***************************************************************************)

\* No folder has the name of a file that is deleted.  (A CREATEFOLDER that finds a file of
\* its name counts as success, and lists the name even if the file goes in between.)
FoldersApart ==
  \A c \in Conns : Op[c] = "DELETE" =>
    /\ \A e \in Conns : Op[e] = "CREATEFOLDER" => NameOf[e] # NameOf[c]
    /\ \A s \in Servers : NameOf[c] \notin FolderList[s]

\* The thread of c is about to store the file it has listed or to take it off the list
\* again, has deleted the file and is about to take it off the list, or was cut off from
\* the storage server while it deleted the file.
Excuses(c) ==
  \/ Op[c] = "CREATE" /\ pc[c] = "remote"
  \/ Op[c] = "CREATE" /\ pc[c] = "answer" /\ ss_reply[c] # "SUCCESS"
  \/ Op[c] = "DELETE" /\ pc[c] = "answer" /\ ss_reply[c] \in {"SUCCESS", "CONNECTION_FAILED"}
  \/ Op[c] = "DELETE" /\ reply[c] = "CONNECTION_FAILED"

Excused(s, n) == \E c \in Conns : NameOf[c] = n /\ ss_id[c] = s /\ Excuses(c)

AllStored == \A s \in Servers : \A n \in Listed(s) : path[s][n] # "none" \/ Excused(s, n)

OwnedIsThere == \A s \in Servers, n \in Paths : meta[s][n] # NoUser => path[s][n] # "none"

DeletedIsOwned ==
  \A c \in Conns, s \in Servers :
    Op[c] = "DELETE" /\ meta[s][NameOf[c]] = NoUser => path[s][NameOf[c]] = "none"

FolderIsThere ==
  \A c \in Conns :
    Op[c] = "CREATEFOLDER" /\ pc[c] = "answer" /\ ss_reply[c] # "CONNECTION_FAILED" =>
      path[ss_id[c]][NameOf[c]] # "none"

StoredInv == AllStored /\ OwnedIsThere /\ DeletedIsOwned /\ FolderIsThere

\* Only the thread of c changes.
OnlyServes(c) ==
  /\ OnlyMoves(c) /\ \A e \in Conns \ {c} : ss_reply'[e] = ss_reply[e]

\* A step of c keeps every listed file stored or excused.
LEMMA StoredStep ==
  ASSUME AllStored, NEW c \in Conns, OnlyServes(c),
         \A t \in Servers : \A m \in Listed(t)' :
           m \in Listed(t) \/ path'[t][m] # "none" \/ Excused(t, m)',
         \A t \in Servers : \A m \in Listed(t) :
           path[t][m] # "none" => path'[t][m] # "none" \/ Excused(t, m)',
         Excuses(c) => \/ Excuses(c)' /\ ss_id'[c] = ss_id[c]
                       \/ path'[ss_id[c]][NameOf[c]] # "none"
                       \/ \A t \in Servers : t = ss_id[c] => NameOf[c] \notin Listed(t)'
  PROVE  AllStored'
<1> SUFFICES ASSUME NEW t \in Servers, NEW m \in Listed(t)', path'[t][m] = "none"
             PROVE  Excused(t, m)'
  BY DEF AllStored
<1> SUFFICES ASSUME m \in Listed(t), path[t][m] = "none" PROVE Excused(t, m)'
  OBVIOUS
<1>1. PICK e \in Conns : NameOf[e] = m /\ ss_id[e] = t /\ Excuses(e)
  BY DEF AllStored, Excused
<1>2. CASE e = c
  BY <1>1, <1>2 DEF Excused
<1>3. CASE e # c
  <2>1. Excuses(e)' /\ ss_id'[e] = t
    BY <1>1, <1>3 DEF Excuses, OnlyServes, OnlyMoves
  <2> QED BY <1>1, <2>1 DEF Excused
<1> QED BY <1>2, <1>3

\* What the thread of c alone changes.
LEMMA ServesAlone ==
  ASSUME NEW c \in Conns, Serve(c), Threads
  PROVE  OnlyServes(c)
<1>1. /\ pc \in [Conns -> PCs] /\ reply \in [Conns -> Replies] /\ ss_reply \in [Conns -> Replies]
      /\ ss_id \in [Conns -> Servers \cup {NoServer}]
  BY DEF Threads
<1>2. \E label : pc' = [pc EXCEPT ![c] = label]
  BY DEF Serve, CheckNew, AssignServer, AdvanceIndex, RecordFile, FindTarget, CheckOwner, RemoteCreate,
     RemoteCreateFolder, RemoteDelete, RemoteMove, CallFails, FinishCreate, FinishCreateFolder,
     FinishDelete, ForgetLocation, FinishMove, RenameFile, InsertMoved, ForgetAll, LookupCache,
     FindFile, CacheLocation, AnswerLocation, Answer, Finish, Goto
<1>3. reply' = reply \/ \E answer : reply' = [reply EXCEPT ![c] = answer]
  BY DEF Serve, CheckNew, AssignServer, AdvanceIndex, RecordFile, FindTarget, CheckOwner, RemoteCreate,
     RemoteCreateFolder, RemoteDelete, RemoteMove, CallFails, FinishCreate, FinishCreateFolder,
     FinishDelete, ForgetLocation, FinishMove, RenameFile, InsertMoved, ForgetAll, LookupCache,
     FindFile, CacheLocation, AnswerLocation, Answer, Finish, Goto
<1>4. ss_reply' = ss_reply \/ \E code : ss_reply' = [ss_reply EXCEPT ![c] = code]
  BY DEF Serve, CheckNew, AssignServer, AdvanceIndex, RecordFile, FindTarget, CheckOwner, RemoteCreate,
     RemoteCreateFolder, RemoteDelete, RemoteMove, CallFails, FinishCreate, FinishCreateFolder,
     FinishDelete, ForgetLocation, FinishMove, RenameFile, InsertMoved, ForgetAll, LookupCache,
     FindFile, CacheLocation, AnswerLocation, Answer
<1>5. ss_id' = ss_id \/ \E s : ss_id' = [ss_id EXCEPT ![c] = s]
  BY DEF Serve, CheckNew, AssignServer, AdvanceIndex, RecordFile, FindTarget, CheckOwner, RemoteCreate,
     RemoteCreateFolder, RemoteDelete, RemoteMove, CallFails, FinishCreate, FinishCreateFolder,
     FinishDelete, ForgetLocation, FinishMove, RenameFile, InsertMoved, ForgetAll, LookupCache,
     FindFile, CacheLocation, AnswerLocation, Answer
<1> QED BY <1>1, <1>2, <1>3, <1>4, <1>5 DEF OnlyServes, OnlyMoves

\* A step of c that leaves lists and disks alone.
LEMMA QuietStored ==
  ASSUME StoredInv, NEW c \in Conns, OnlyServes(c),
         UNCHANGED <<slots, file_count, meta, path>>,
         Excuses(c) => Excuses(c)' /\ ss_id'[c] = ss_id[c],
         Op[c] = "CREATEFOLDER" /\ pc'[c] = "answer" => ss_reply'[c] = "CONNECTION_FAILED"
  PROVE  StoredInv'
<1>1. \A t \in Servers : Listed(t)' = Listed(t)
  BY DEF Listed
<1>2. AllStored'
  <2>1. AllStored
    BY DEF StoredInv
  <2> QED BY <1>1, <2>1, StoredStep
<1>3. OwnedIsThere' /\ DeletedIsOwned'
  BY DEF StoredInv, OwnedIsThere, DeletedIsOwned
<1>4. FolderIsThere'
  BY SMTT(30) DEF StoredInv, FolderIsThere, OnlyServes, OnlyMoves
<1> QED BY <1>2, <1>3, <1>4 DEF StoredInv

\* A step of c that changes no disk: its lists gain only what is stored or excused.
LEMMA ListingStored ==
  ASSUME StoredInv, NEW c \in Conns, OnlyServes(c), UNCHANGED <<meta, path>>, pc'[c] # "answer",
         \A t \in Servers : \A m \in Listed(t)' :
           m \in Listed(t) \/ path'[t][m] # "none" \/ Excused(t, m)',
         Excuses(c) => \/ Excuses(c)' /\ ss_id'[c] = ss_id[c]
                       \/ \A t \in Servers : t = ss_id[c] => NameOf[c] \notin Listed(t)'
  PROVE  StoredInv'
<1>1. AllStored'
  <2>1. AllStored
    BY DEF StoredInv
  <2> QED BY <2>1, StoredStep
<1>2. OwnedIsThere' /\ DeletedIsOwned'
  BY DEF StoredInv, OwnedIsThere, DeletedIsOwned
<1>3. FolderIsThere'
  BY DEF StoredInv, FolderIsThere, OnlyServes, OnlyMoves
<1> QED BY <1>1, <1>2, <1>3 DEF StoredInv

\* The storage server acts for c.
LEMMA RemoteStored ==
  ASSUME FoldersApart, StoredInv, Threads, Places, Stores, Lists, NEW c \in Conns, OnlyServes(c),
         pc[c] = "remote", reply[c] = "none",
         RemoteCreate(c) \/ RemoteCreateFolder(c) \/ RemoteDelete(c)
  PROVE  StoredInv'
<1>1. PICK s, n : s = ss_id[c] /\ n = NameOf[c]
  OBVIOUS
<1>2. /\ s \in Servers /\ n \in Paths /\ UserOf[c] \in Users /\ UserOf[c] # NoUser
      /\ meta \in [Servers -> [Paths -> Users \cup {NoUser}]]
      /\ path \in [Servers -> [Paths -> {"none", "file", "dir"}]]
  BY <1>1 DEF Stores, Places
<1>3. AllStored /\ OwnedIsThere /\ DeletedIsOwned /\ FolderIsThere
  BY DEF StoredInv
<1>4. \A t \in Servers : Listed(t)' = Listed(t) /\ Listed(t) \subseteq Paths
  <2>1. UNCHANGED <<slots, file_count>>
    BY DEF RemoteCreate, RemoteCreateFolder, RemoteDelete, Answer
  <2>2. \A t \in Servers : \A i \in 1 .. file_count[t] : slots[t][i].filename \in Paths
    BY DEF Lists, FileInfo
  <2> QED BY <2>1, <2>2 DEF Listed
<1>5. /\ pc'[c] = "answer" /\ ss_id' = ss_id /\ reply'[c] = "none" /\ ss_reply \in [Conns -> Replies]
  BY DEF RemoteCreate, RemoteCreateFolder, RemoteDelete, Answer, Goto, Threads
<1>6. \A t \in Servers, m \in Paths :
        t # s \/ m # n => path'[t][m] = path[t][m] /\ meta'[t][m] = meta[t][m]
  <2>1. \/ UNCHANGED <<meta, path>>
        \/ /\ \E k : path' = [path EXCEPT ![s][n] = k]
           /\ meta' = meta \/ \E u : meta' = [meta EXCEPT ![s][n] = u]
    BY <1>1 DEF RemoteCreate, RemoteCreateFolder, RemoteDelete
  <2> QED BY <1>2, <2>1
<1> DEFINE Same == path'[s][n] = path[s][n] /\ meta'[s][n] = meta[s][n]
           A == /\ Op[c] = "CREATE" /\ ss_reply'[c] = "SUCCESS"
                /\ path'[s][n] # "none" /\ meta'[s][n] # NoUser
           B == Op[c] = "CREATE" /\ ss_reply'[c] = "SERVER_ERROR" /\ Same
           C == Op[c] = "CREATEFOLDER" /\ path'[s][n] # "none"
           D == /\ Op[c] = "DELETE" /\ ss_reply'[c] = "SUCCESS"
                /\ path'[s][n] = "none" /\ meta'[s][n] = NoUser
           E == Op[c] = "DELETE" /\ Same
<1>7. A \/ B \/ C \/ D \/ E
  <2>1. CASE RemoteCreate(c)
    <3>1. CASE meta[s][n] # NoUser
      <4>1. /\ Op[c] = "CREATE" /\ UNCHANGED <<meta, path>>
            /\ ss_reply' = [ss_reply EXCEPT ![c] = "SUCCESS"]
        BY <1>1, <2>1, <3>1 DEF RemoteCreate, Answer
      <4>2. path[s][n] # "none"
        BY <1>2, <1>3, <3>1 DEF OwnedIsThere
      <4>3. A
        BY <1>5, <3>1, <4>1, <4>2
      <4> QED BY <4>3
    <3>2. CASE meta[s][n] = NoUser
      <4>1. \/ /\ UNCHANGED <<meta, path>>
               /\ ss_reply' = [ss_reply EXCEPT ![c] = "SERVER_ERROR"]
            \/ /\ ss_reply' = [ss_reply EXCEPT ![c] = "SUCCESS"]
               /\ meta' = [meta EXCEPT ![s][n] = UserOf[c]]
               /\ path' = [path EXCEPT ![s][n] = "file"]
        BY <1>1, <2>1, <3>2 DEF RemoteCreate, Answer
      <4>2. Op[c] = "CREATE"
        BY <2>1 DEF RemoteCreate
      <4>3. A \/ B
        BY <1>2, <1>5, <4>1, <4>2
      <4> QED BY <4>3
    <3> QED BY <3>1, <3>2
  <2>2. CASE RemoteCreateFolder(c)
    <3>1. /\ Op[c] = "CREATEFOLDER"
          /\ \/ path' = [path EXCEPT ![s][n] = "dir"]
             \/ path[s][n] # "none" /\ UNCHANGED path
      BY <1>1, <2>2 DEF RemoteCreateFolder
    <3>2. C
      BY <1>2, <3>1
    <3> QED BY <3>2
  <2>3. CASE RemoteDelete(c)
    <3>1. CASE meta[s][n] = NoUser
      <4>1. /\ Op[c] = "DELETE" /\ UNCHANGED <<meta, path>>
            /\ ss_reply' = [ss_reply EXCEPT ![c] = "SUCCESS"]
        BY <1>1, <2>3, <3>1 DEF RemoteDelete, Answer
      <4>2. path[s][n] = "none"
        BY <1>1, <1>2, <1>3, <3>1, <4>1 DEF DeletedIsOwned
      <4>3. D
        BY <1>5, <3>1, <4>1, <4>2
      <4> QED BY <4>3
    <3>2. CASE meta[s][n] # NoUser
      <4>1. \/ UNCHANGED <<meta, path>>
            \/ /\ ss_reply' = [ss_reply EXCEPT ![c] = "SUCCESS"]
               /\ path' = [path EXCEPT ![s][n] = "none"]
               /\ meta' = [meta EXCEPT ![s][n] = NoUser]
        BY <1>1, <2>3, <3>2 DEF RemoteDelete, Answer
      <4>2. Op[c] = "DELETE"
        BY <2>3 DEF RemoteDelete
      <4>3. D \/ E
        BY <1>2, <1>5, <4>1, <4>2
      <4> QED BY <4>3
    <3> QED BY <3>1, <3>2
  <2> QED BY <2>1, <2>2, <2>3
<1>8. AllStored'
  <2>1. ASSUME D PROVE Excused(s, n)'
    <3>1. Excuses(c)'
      BY <1>5, <2>1 DEF Excuses
    <3> QED BY <1>1, <1>5, <3>1 DEF Excused
  <2>2. ASSUME NEW t \in Servers, NEW m \in Listed(t), path[t][m] # "none"
        PROVE  path'[t][m] # "none" \/ Excused(t, m)'
    <3>1. m \in Paths
      BY <1>4
    <3>2. CASE t # s \/ m # n
      BY <1>6, <2>2, <3>1, <3>2
    <3>3. CASE t = s /\ m = n
      BY <1>7, <2>1, <2>2, <3>3
    <3> QED BY <3>2, <3>3
  <2>3. ASSUME Excuses(c)
        PROVE  \/ Excuses(c)' /\ ss_id'[c] = ss_id[c]
               \/ path'[ss_id[c]][NameOf[c]] # "none"
    <3>1. Op[c] = "CREATE"
      BY <2>3 DEF Excuses
    <3>2. CASE A
      BY <1>1, <3>2
    <3>3. CASE B
      BY <1>5, <3>3 DEF Excuses
    <3> QED BY <1>7, <3>1, <3>2, <3>3
  <2> QED BY <1>3, <1>4, <2>2, <2>3, StoredStep
<1>9. OwnedIsThere'
  <2> SUFFICES ASSUME NEW t \in Servers, NEW m \in Paths, meta'[t][m] # NoUser
               PROVE  path'[t][m] # "none"
    BY DEF OwnedIsThere
  <2>1. CASE t # s \/ m # n
    <3>1. path'[t][m] = path[t][m] /\ meta'[t][m] = meta[t][m]
      BY <1>6, <2>1
    <3> QED BY <1>3, <3>1 DEF OwnedIsThere
  <2>2. CASE t = s /\ m = n
    BY <1>3, <1>7, <2>2 DEF OwnedIsThere
  <2> QED BY <2>1, <2>2
<1>10. DeletedIsOwned'
  <2> SUFFICES ASSUME NEW e \in Conns, NEW t \in Servers, Op[e] = "DELETE",
                      meta'[t][NameOf[e]] = NoUser
               PROVE  path'[t][NameOf[e]] = "none"
    BY DEF DeletedIsOwned
  <2>1. PICK m \in Paths : m = NameOf[e]
    OBVIOUS
  <2>2. CASE t # s \/ m # n
    BY <1>3, <1>6, <2>1, <2>2 DEF DeletedIsOwned
  <2>3. CASE t = s /\ m = n
    <3>1. ~C
      BY <1>1, <2>1, <2>3 DEF FoldersApart
    <3>2. Same => path'[t][m] = "none"
      <4> SUFFICES ASSUME Same PROVE path'[t][m] = "none"
        OBVIOUS
      <4>1. meta[t][m] = NoUser /\ path'[t][m] = path[t][m]
        BY <2>1, <2>3
      <4> QED BY <1>3, <2>1, <4>1 DEF DeletedIsOwned
    <3> QED BY <1>7, <2>1, <2>3, <3>1, <3>2
  <2> QED BY <2>2, <2>3
<1>11. FolderIsThere'
  <2> SUFFICES ASSUME NEW e \in Conns, Op[e] = "CREATEFOLDER", pc'[e] = "answer",
                      ss_reply'[e] # "CONNECTION_FAILED"
               PROVE  path'[ss_id[e]][NameOf[e]] # "none"
    BY <1>5 DEF FolderIsThere
  <2>1. CASE e = c
    BY <1>1, <1>7, <2>1
  <2>2. CASE e # c
    <3>1. pc[e] = "answer" /\ ss_reply[e] # "CONNECTION_FAILED"
      BY <2>2 DEF OnlyServes, OnlyMoves
    <3>2. PICK t, m : t = ss_id[e] /\ m = NameOf[e]
      OBVIOUS
    <3>3. t \in Servers /\ m \in Paths /\ path[t][m] # "none"
      BY <1>3, <3>1, <3>2 DEF FolderIsThere, Places
    <3>4. CASE t # s \/ m # n
      BY <1>6, <3>2, <3>3, <3>4
    <3>5. CASE t = s /\ m = n
      <4>1. ~D
        BY <1>1, <3>2, <3>5 DEF FoldersApart
      <4> QED BY <1>7, <3>2, <3>3, <3>5, <4>1
    <3> QED BY <3>4, <3>5
  <2> QED BY <2>1, <2>2
<1> QED BY <1>8, <1>9, <1>10, <1>11 DEF StoredInv

LEMMA ServeStored ==
  ASSUME AllRegisteredNoMove, FoldersApart, StoredInv, TypeInv, GhostInv, NEW c \in Conns, Serve(c)
  PROVE  StoredInv'
<1>1. /\ Threads /\ Places /\ Lists /\ Stores /\ StepsFit /\ ListType /\ OneEntryPerServer
      /\ Op[c] # "MOVE" /\ NameOf[c] \in Paths /\ UserOf[c] \in Users
  BY DEF TypeInv, GhostInv, ControlFits, AllRegisteredNoMove
<1>2. OnlyServes(c)
  BY <1>1, ServesAlone
<1>3. pc \in [Conns -> PCs] /\ ss_reply \in [Conns -> Replies] /\ reply \in [Conns -> Replies]
  BY <1>1 DEF Threads
<1>4. pc[c] # "done" => reply[c] = "none"
  BY <1>1 DEF StepsFit
<1>5. CASE RemoteCreate(c) \/ RemoteCreateFolder(c) \/ RemoteDelete(c)
  <2>1. pc[c] = "remote"
    BY <1>5 DEF RemoteCreate, RemoteCreateFolder, RemoteDelete
  <2>2. reply[c] = "none"
    BY <1>4, <2>1
  <2> QED BY <1>1, <1>2, <1>5, <2>1, <2>2, RemoteStored
<1>6. CASE CallFails(c)
  <2>1. /\ pc[c] \in {"remote", "answer"} /\ pc'[c] = "answer" /\ ss_id' = ss_id
        /\ ss_reply'[c] = "CONNECTION_FAILED"
        /\ UNCHANGED <<slots, file_count, meta, path>>
    BY <1>3, <1>6 DEF CallFails, Goto
  <2>2. Excuses(c) => Excuses(c)'
    BY <1>4, <2>1 DEF Excuses
  <2> QED BY <1>2, <2>1, <2>2, QuietStored
<1>7. CASE \/ CheckNew(c)
           \/ AssignServer(c)
           \/ AdvanceIndex(c)
           \/ FindTarget(c)
           \/ CheckOwner(c)
           \/ ForgetLocation(c)
           \/ LookupCache(c)
           \/ FindFile(c)
           \/ CacheLocation(c)
           \/ AnswerLocation(c)
  <2>1. pc[c] \notin {"remote", "answer", "done"} /\ UNCHANGED <<slots, file_count, meta, path>>
    BY <1>7 DEF CheckNew, AssignServer, AdvanceIndex, FindTarget, CheckOwner, ForgetLocation, LookupCache,
       FindFile, CacheLocation, AnswerLocation, Starts
  <2>2. pc'[c] # "answer"
    BY <1>3, <1>7 DEF CheckNew, AssignServer, AdvanceIndex, FindTarget, CheckOwner, ForgetLocation, LookupCache,
       FindFile, CacheLocation, AnswerLocation, Goto, Finish
  <2>3. ~Excuses(c)
    BY <1>4, <2>1 DEF Excuses
  <2> QED BY <1>2, <2>1, <2>2, <2>3, QuietStored
<1>8. CASE RecordFile(c)
  <2>1. PICK s, n, u : s = ss_id[c] /\ n = NameOf[c] /\ u = UserOf[c]
    OBVIOUS
  <2>2. /\ pc[c] = "add" /\ add_file_to_server(s, n, u) /\ UNCHANGED <<meta, path>> /\ ss_id' = ss_id
        /\ pc'[c] # "answer" /\ (AddResult(s, n) = "SUCCESS" => pc'[c] = "remote")
    BY <1>3, <1>8, <2>1 DEF RecordFile, Goto, Finish
  <2>3. s \in Servers /\ n \in Paths /\ u \in Users /\ Op[c] = "CREATE"
    BY <1>1, <2>1, <2>2 DEF Places
  <2>4. \A t \in Servers : \A i \in 1 .. file_count'[t] :
          \/ \E j \in 1 .. file_count[t] : slots[t][j].filename = slots'[t][i].filename
          \/ t = s /\ slots'[t][i].filename = n /\ AddResult(s, n) = "SUCCESS"
    <3>1. ListType /\ OneEntryPerServer /\ add_file_to_server(s, n, u)
      BY <1>1, <2>2
    <3> QED BY <2>3, <3>1, AddGrows
  <2>5. AddResult(s, n) = "SUCCESS" => Excused(s, n)'
    BY <2>1, <2>2, <2>3 DEF Excused, Excuses
  <2>6. \A t \in Servers : \A m \in Listed(t)' : m \in Listed(t) \/ Excused(t, m)'
    <3> SUFFICES ASSUME NEW t \in Servers, NEW m \in Listed(t)'
                 PROVE  m \in Listed(t) \/ Excused(t, m)'
      OBVIOUS
    <3>1. PICK i \in 1 .. file_count'[t] : m = slots'[t][i].filename
      BY DEF Listed
    <3> QED BY <2>4, <2>5, <3>1 DEF Listed
  <2>7. ~Excuses(c)
    BY <1>4, <2>2 DEF Excuses
  <2> QED BY <1>2, <2>2, <2>6, <2>7, ListingStored
<1>9. ASSUME NEW s, s = ss_id[c], remove_file_from_server(s, NameOf[c]), UNCHANGED <<meta, path>>,
             pc'[c] # "answer"
      PROVE  StoredInv'
  <2>1. PICK n : n = NameOf[c]
    OBVIOUS
  <2>2. \A t \in Servers : \A i \in 1 .. file_count'[t] :
          /\ \E j \in 1 .. file_count[t] : slots[t][j].filename = slots'[t][i].filename
          /\ t = s => slots'[t][i].filename # n
    <3>1. ListType /\ OneEntryPerServer /\ remove_file_from_server(s, n)
      BY <1>1, <1>9, <2>1
    <3> QED BY SMTT(30), <3>1, RemoveShrinks
  <2>3. \A t \in Servers : \A m \in Listed(t)' : m \in Listed(t) /\ (t = s => m # n)
    <3> SUFFICES ASSUME NEW t \in Servers, NEW m \in Listed(t)'
                 PROVE  m \in Listed(t) /\ (t = s => m # n)
      OBVIOUS
    <3>1. PICK i \in 1 .. file_count'[t] : m = slots'[t][i].filename
      BY DEF Listed
    <3> QED BY <2>2, <3>1 DEF Listed
  <2>4. \A t \in Servers : t = ss_id[c] => NameOf[c] \notin Listed(t)'
    BY <1>9, <2>1, <2>3
  <2> QED BY <1>2, <1>9, <2>3, <2>4, ListingStored
<1>10. CASE FinishCreate(c)
  <2>1. /\ pc[c] = "answer" /\ pc'[c] = "done" /\ UNCHANGED <<meta, path>> /\ Op[c] = "CREATE"
        /\ ss_id' = ss_id
    BY <1>3, <1>10 DEF FinishCreate, Finish
  <2>2. CASE ss_reply[c] = "SUCCESS"
    <3>1. UNCHANGED <<slots, file_count>>
      BY <1>10, <2>2 DEF FinishCreate
    <3>2. ~Excuses(c)
      BY <2>1, <2>2 DEF Excuses
    <3> QED BY <1>2, <2>1, <3>1, <3>2, QuietStored
  <2>3. CASE ss_reply[c] # "SUCCESS"
    <3>1. remove_file_from_server(ss_id[c], NameOf[c])
      BY <1>10, <2>3 DEF FinishCreate, RollBack
    <3> QED BY <1>9, <2>1, <3>1
  <2> QED BY <2>2, <2>3
<1>11. CASE FinishDelete(c)
  <2>1. /\ pc[c] = "answer" /\ pc'[c] # "answer" /\ UNCHANGED <<meta, path>> /\ Op[c] = "DELETE"
        /\ ss_id' = ss_id
    BY <1>3, <1>11 DEF FinishDelete, Finish, Goto
  <2>2. CASE ss_reply[c] = "SUCCESS"
    <3>1. remove_file_from_server(ss_id[c], NameOf[c])
      BY <1>11, <2>2 DEF FinishDelete
    <3> QED BY <1>9, <2>1, <3>1
  <2>3. CASE ss_reply[c] # "SUCCESS"
    <3>1. UNCHANGED <<slots, file_count>> /\ reply'[c] = ss_reply[c]
      BY <1>3, <1>11, <2>3 DEF FinishDelete, Finish
    <3>2. Excuses(c) => Excuses(c)'
      BY <1>4, <2>1, <2>3, <3>1 DEF Excuses
    <3> QED BY <1>2, <2>1, <3>1, <3>2, QuietStored
  <2> QED BY <2>2, <2>3
<1>12. CASE FinishCreateFolder(c)
  <2>1. /\ pc[c] = "answer" /\ pc'[c] = "done" /\ UNCHANGED <<meta, path>>
        /\ Op[c] = "CREATEFOLDER" /\ ss_id' = ss_id
    BY <1>3, <1>12 DEF FinishCreateFolder, Finish
  <2>2. ~Excuses(c)
    BY <2>1 DEF Excuses
  <2>3. CASE ss_reply[c] = "CONNECTION_FAILED"
    <3>1. UNCHANGED <<slots, file_count>>
      BY <1>12, <2>3 DEF FinishCreateFolder
    <3> QED BY <1>2, <2>1, <2>2, <3>1, QuietStored
  <2>4. CASE ss_reply[c] # "CONNECTION_FAILED"
    <3>1. PICK s, n, u : s = ss_id[c] /\ n = NameOf[c] /\ u = UserOf[c]
      OBVIOUS
    <3>2. s \in Servers /\ n \in Paths /\ u \in Users
      BY <1>1, <2>1, <3>1 DEF Places
    <3>3. add_file_to_server(s, n, u)
      BY <1>12, <2>4, <3>1 DEF FinishCreateFolder
    <3>4. \A t \in Servers : \A i \in 1 .. file_count'[t] :
            \/ \E j \in 1 .. file_count[t] : slots[t][j].filename = slots'[t][i].filename
            \/ t = s /\ slots'[t][i].filename = n /\ AddResult(s, n) = "SUCCESS"
      BY <1>1, <3>2, <3>3, AddGrows
    <3>5. path'[s][n] # "none"
      BY <2>1, <2>4, <3>1 DEF StoredInv, FolderIsThere
    <3>6. \A t \in Servers : \A m \in Listed(t)' : m \in Listed(t) \/ path'[t][m] # "none"
      <4> SUFFICES ASSUME NEW t \in Servers, NEW m \in Listed(t)'
                   PROVE  m \in Listed(t) \/ path'[t][m] # "none"
        OBVIOUS
      <4>1. PICK i \in 1 .. file_count'[t] : m = slots'[t][i].filename
        BY DEF Listed
      <4> QED BY <3>4, <3>5, <4>1 DEF Listed
    <3> QED BY <1>2, <2>1, <2>2, <3>6, ListingStored
  <2> QED BY <2>3, <2>4
<1>13. ~(\/ RemoteMove(c)
         \/ FinishMove(c)
         \/ RenameFile(c)
         \/ InsertMoved(c)
         \/ ForgetAll(c))
  BY <1>1 DEF RemoteMove, FinishMove, RenameFile, InsertMoved, ForgetAll, StepsFit
<1> QED BY <1>5, <1>6, <1>7, <1>8, <1>10, <1>11, <1>12, <1>13 DEF Serve

LEMMA InitStored == AllRegisteredNoMove /\ FoldersApart /\ Init => StoredInv
<1> SUFFICES ASSUME AllRegisteredNoMove, FoldersApart, Init PROVE StoredInv
  OBVIOUS
<1>1. ASSUME NEW s \in Servers, NEW n \in Paths
      PROVE  /\ meta[s][n] = OwnerAtFirst(s, n)
             /\ path[s][n] = IF n \in FolderList[s] THEN "dir"
                             ELSE IF OwnerAtFirst(s, n) # NoUser THEN "file" ELSE "none"
  <2>1. meta[s][n] = OwnerAtFirst(s, n)
    BY DEF Init
  <2>2. path[s][n] = CASE n \in FolderList[s] -> "dir"
                       [] n \notin FolderList[s] /\ OwnerAtFirst(s, n) # NoUser -> "file"
                       [] OTHER -> "none"
    BY DEF Init
  <2> QED BY <2>1, <2>2
<1>2. OwnedIsThere
  BY <1>1 DEF OwnedIsThere
<1>3. DeletedIsOwned
  <2> SUFFICES ASSUME NEW c \in Conns, NEW s \in Servers, Op[c] = "DELETE",
                      meta[s][NameOf[c]] = NoUser
               PROVE  path[s][NameOf[c]] = "none"
    BY DEF DeletedIsOwned
  <2>1. NameOf[c] \in Paths /\ NameOf[c] \notin FolderList[s]
    BY DEF FoldersApart
  <2> QED BY <1>1, <2>1
<1>4. FolderIsThere
  BY DEF FolderIsThere, Init
<1>5. AllStored
  <2> SUFFICES ASSUME NEW s \in Servers, NEW n \in Listed(s) PROVE path[s][n] # "none"
    BY DEF AllStored
  <2>1. PICK i \in 1 .. file_count[s] : n = slots[s][i].filename
    BY DEF Listed
  <2>2. TypeInv
    BY InitTypes
  <2>3. i \in 1 .. MaxFiles /\ n \in Paths
    BY <2>1, <2>2 DEF TypeInv, Lists, FileInfo
  <2>4. file_count[s] = Len(FileList[s]) /\ s \in ToSet(InitialServers)
    BY DEF Init, AllRegisteredNoMove
  <2>5. FileList[s] \in Seq(Listing) /\ Len(FileList[s]) \in Nat
    BY LenProperties
  <2>6. i \in DOMAIN FileList[s] /\ i <= Len(FileList[s])
    BY <2>1, <2>4, <2>5
  <2>7. n = FileList[s][i].filename
    BY <2>1, <2>3, <2>4, <2>6 DEF Init, ListedSlots
  <2>8. PICK l : l = CHOOSE x \in ToSet(FileList[s]) : x.filename = n
    OBVIOUS
  <2>9. l \in ToSet(FileList[s])
    <3>1. FileList[s][i] \in ToSet(FileList[s])
      BY <2>6 DEF ToSet
    <3> QED BY <2>7, <2>8, <3>1
  <2>10. l \in Listing
    BY <2>5, <2>9 DEF ToSet
  <2>11. OwnerAtFirst(s, n) = l.owner
    BY <2>6, <2>7, <2>8 DEF OwnerAtFirst
  <2>12. OwnerAtFirst(s, n) # NoUser
    BY <2>10, <2>11 DEF Listing
  <2> QED BY <1>1, <2>3, <2>12
<1> QED BY <1>2, <1>3, <1>4, <1>5 DEF StoredInv

LEMMA NextStored ==
  ASSUME AllRegisteredNoMove, FoldersApart, StoredInv, TypeInv, GhostInv, [Next]_vars
  PROVE  StoredInv'
<1>1. ASSUME UNCHANGED <<slots, file_count, storage, pc, locals, reply>> PROVE StoredInv'
  <2>1. \A s \in Servers : Listed(s)' = Listed(s)
    BY <1>1 DEF Listed
  <2>2. \A s \in Servers : \A n \in Listed(s) : Excused(s, n)' <=> Excused(s, n)
    BY <1>1 DEF Excused, Excuses
  <2>3. AllStored'
    BY <1>1, <2>1, <2>2 DEF StoredInv, AllStored
  <2> QED BY <1>1, <2>3 DEF StoredInv, OwnedIsThere, DeletedIsOwned, FolderIsThere
<1>2. ASSUME NEW s \in Servers, Register(s) PROVE StoredInv'
  <2>1. registering = {} /\ s \in ToSet(ss_list)
    BY DEF AllRegisteredNoMove, GhostInv, ControlFits
  <2> QED BY <1>2, <2>1 DEF Register, RegisterServer, ListFile, CountFile, EndRegistration
<1>3. ASSUME NEW k \in CacheSlots, Expire(k) PROVE StoredInv'
  BY <1>1, <1>3 DEF Expire
<1>4. CASE UNCHANGED vars
  BY <1>1, <1>4 DEF vars
<1> QED BY <1>2, <1>3, <1>4, ServeStored DEF Next, Done

LEMMA StoredHolds ==
  AllRegisteredNoMove /\ FoldersApart /\ Spec => [](StoredInv /\ TypeInv /\ GhostInv)
<1> SUFFICES ASSUME AllRegisteredNoMove, FoldersApart
             PROVE  Spec => [](StoredInv /\ TypeInv /\ GhostInv)
  OBVIOUS
<1>1. NoCreateMeanwhile
  BY DEF NoCreateMeanwhile, AllRegistered, AllRegisteredNoMove
<1>2. Spec => []TypeInv
  BY <1>1, TypeInvHolds
<1>3. Spec => []GhostInv
  BY GhostInvHolds
<1>4. Init => StoredInv
  BY InitStored
<1>5. StoredInv /\ TypeInv /\ GhostInv /\ [Next]_vars => StoredInv'
  BY NextStored
<1> QED BY <1>2, <1>3, <1>4, <1>5, PTL DEF Spec

\* A file that the name server lists is on the disk of the storage server it is listed for,
\* once nobody works on its name and unless a DELETE of it lost its connection: a CREATE that
\* fails on either side of the call, and a DELETE, leave lists and disks in agreement.
THEOREM ListedFilesStored == AllRegisteredNoMove /\ FoldersApart /\ Spec => []ListedIsStored
<1>1. StoredInv /\ TypeInv /\ GhostInv => ListedIsStored
  <2> SUFFICES ASSUME StoredInv, NEW s \in Servers, NEW n \in Listed(s), Settled(n),
                      \A c \in Conns : Op[c] = "DELETE" /\ NameOf[c] = n
                                         => reply[c] # "CONNECTION_FAILED"
               PROVE  path[s][n] # "none"
    BY DEF ListedIsStored
  <2>1. ~Excused(s, n)
    BY DEF Excused, Excuses, Settled, Idle
  <2> QED BY <2>1 DEF StoredInv, AllStored
<1> QED BY <1>1, StoredHolds, PTL

-----------------------------------------------------------------------------
(***************************************************************************)
(* The owner of a new file.                                                *)
(***************************************************************************)

\* Nothing but other CREATEs interferes with a CREATE.  (A storage server keeps the metadata
\* of a file whose CREATE was rolled back because its answer got lost, and the next CREATE of
\* that name then succeeds without changing the owner.)
CreatesUndisturbed ==
  /\ MaxFailures = 0
  /\ \A c, e \in Conns :
       Op[c] = "CREATE" /\ NameOf[e] = NameOf[c] => Op[e] \in {"CREATE", "GET_SS_INFO"}

\* The CREATE of c has listed its file and not taken it back.
Holds(c) ==
  \/ Op[c] = "CREATE" /\ pc[c] \in {"remote", "answer"}
  \/ Op[c] = "CREATE" /\ reply[c] = "SUCCESS"

Created(c) == (pc[c] = "answer" /\ ss_reply[c] = "SUCCESS") \/ reply[c] = "SUCCESS"

HoldersList == \A c \in Conns : Holds(c) => \E s \in Servers : s = ss_id[c] /\ NameOf[c] \in Listed(s)

OneHolder ==
  \A c, e \in Conns : Holds(c) /\ Holds(e) /\ NameOf[c] = NameOf[e] /\ ss_id[c] = ss_id[e] => c = e

OwnedIsListed ==
  \A c \in Conns, s \in Servers :
    Op[c] = "CREATE" /\ meta[s][NameOf[c]] # NoUser => NameOf[c] \in Listed(s)

HolderOwns ==
  \A c \in Conns : Holds(c) =>
    meta[ss_id[c]][NameOf[c]] = IF Created(c) THEN UserOf[c] ELSE NoUser

CreatorInv == HoldersList /\ OneHolder /\ OwnedIsListed /\ HolderOwns

\* Removing a file takes its name from the list of that server, and nothing else.
LEMMA RemoveListed ==
  ASSUME ListType, OneEntryPerServer, NEW s, NEW n, remove_file_from_server(s, n), NEW t \in Servers
  PROVE  \A m : m \in Listed(t)' <=> m \in Listed(t) /\ ~(t = s /\ m = n)
<1>1. \A m : m \in Listed(t)' => m \in Listed(t) /\ ~(t = s /\ m = n)
  <2>1. \A x \in Servers : \A i \in 1 .. file_count'[x] :
          /\ \E j \in 1 .. file_count[x] : slots[x][j].filename = slots'[x][i].filename
          /\ x = s => slots'[x][i].filename # n
    <3>1. ListType /\ OneEntryPerServer /\ remove_file_from_server(s, n)
      OBVIOUS
    <3> QED BY ONLY <3>1, SizeAssumption, RemoveShrinks
  <2> SUFFICES ASSUME NEW m \in Listed(t)' PROVE m \in Listed(t) /\ ~(t = s /\ m = n)
    OBVIOUS
  <2>2. PICK i \in 1 .. file_count'[t] : m = slots'[t][i].filename
    BY DEF Listed
  <2> QED BY <2>1, <2>2 DEF Listed
<1>2. ASSUME NEW m \in Listed(t), ~(t = s /\ m = n) PROVE m \in Listed(t)'
  <2>1. PICK j \in 1 .. file_count[t] : m = slots[t][j].filename
    BY DEF Listed
  <2>2. CASE t # s \/ SlotOf(s, n) = 0
    <3>1. slots'[t] = slots[t] /\ file_count'[t] = file_count[t]
      BY <2>2 DEF remove_file_from_server, ListType
    <3> QED BY <2>1, <3>1 DEF Listed
  <2>3. CASE t = s /\ SlotOf(s, n) # 0
    <3>1. PICK k, count : k = SlotOf(s, n) /\ count = file_count[s]
      OBVIOUS
    <3>2. /\ k \in 1 .. count /\ slots[s][k].filename = n /\ count \in 0 .. MaxFiles
      BY <2>3, <3>1, SlotFound DEF ListType
    <3>3. /\ slots' = [slots EXCEPT ![s] = Shifted(slots[s], k, count)]
          /\ file_count' = [file_count EXCEPT ![s] = count - 1]
      BY <2>3, <3>1 DEF remove_file_from_server
    <3>4. /\ file_count'[s] = count - 1
          /\ \A i \in 1 .. count - 1 : slots'[s][i] = slots[s][IF i < k THEN i ELSE i + 1]
      BY <2>3, <3>2, <3>3 DEF Shifted, ListType
    <3>5. j # k
      BY <1>2, <2>1, <2>3, <3>2
    <3>6. PICK i : i = IF j < k THEN j ELSE j - 1
      OBVIOUS
    <3>7. i \in 1 .. count - 1 /\ j = IF i < k THEN i ELSE i + 1
      BY <2>1, <2>3, <3>1, <3>2, <3>5, <3>6
    <3>8. i \in 1 .. file_count'[t] /\ slots'[t][i].filename = m
      BY <2>1, <2>3, <3>4, <3>7
    <3> QED BY <3>8 DEF Listed
  <2> QED BY <2>2, <2>3
<1> QED BY <1>1, <1>2

\* Adding a file puts its name on the list of that server, where it was not.
LEMMA AddListed ==
  ASSUME ListType, OneEntryPerServer, NEW s \in Servers, NEW n \in Paths, NEW u \in Users,
         add_file_to_server(s, n, u), NEW t \in Servers
  PROVE  /\ \A m : m \in Listed(t)' <=> \/ m \in Listed(t)
                                        \/ t = s /\ m = n /\ AddResult(s, n) = "SUCCESS"
         /\ AddResult(s, n) = "SUCCESS" => n \notin Listed(s)
<1>1. AddResult(s, n) = "SUCCESS" => n \notin Listed(s)
  <2> SUFFICES ASSUME AddResult(s, n) = "SUCCESS" PROVE n \notin Listed(s)
    OBVIOUS
  <2>1. SlotOf(s, n) = 0
    BY DEF AddResult
  <2> QED BY <2>1, SlotFound DEF Listed
<1>2. \A m : m \in Listed(t)' => \/ m \in Listed(t)
                                 \/ t = s /\ m = n /\ AddResult(s, n) = "SUCCESS"
  <2>1. \A x \in Servers : \A i \in 1 .. file_count'[x] :
          \/ \E j \in 1 .. file_count[x] : slots[x][j].filename = slots'[x][i].filename
          \/ x = s /\ slots'[x][i].filename = n /\ AddResult(s, n) = "SUCCESS"
    BY AddGrows
  <2> SUFFICES ASSUME NEW m \in Listed(t)'
               PROVE  m \in Listed(t) \/ (t = s /\ m = n /\ AddResult(s, n) = "SUCCESS")
    OBVIOUS
  <2>2. PICK i \in 1 .. file_count'[t] : m = slots'[t][i].filename
    BY DEF Listed
  <2>3. \/ \E j \in 1 .. file_count[t] : slots[t][j].filename = m
        \/ t = s /\ m = n /\ AddResult(s, n) = "SUCCESS"
    BY <2>1, <2>2
  <2> QED BY <2>3 DEF Listed
<1>3. CASE AddResult(s, n) # "SUCCESS"
  <2>1. UNCHANGED <<slots, file_count>>
    BY <1>3 DEF add_file_to_server
  <2>2. Listed(t)' = Listed(t)
    BY <2>1 DEF Listed
  <2> QED BY <1>1, <1>2, <1>3, <2>2
<1>4. CASE AddResult(s, n) = "SUCCESS"
  <2>1. PICK k : k = file_count[s] + 1
    OBVIOUS
  <2>2. /\ slots' = [slots EXCEPT ![s][k] = [filename |-> n, owner |-> u, ss_id |-> s]]
        /\ file_count' = [file_count EXCEPT ![s] = k]
    BY <1>4, <2>1 DEF add_file_to_server
  <2>3. k \in 1 .. MaxFiles /\ \A x \in Servers : file_count[x] \in Nat
    BY <1>4, <2>1 DEF AddResult, ListType
  <2>4. /\ \A j \in 1 .. file_count[t] : j \in 1 .. file_count'[t] /\ slots'[t][j] = slots[t][j]
        /\ file_count'[s] = k /\ slots'[s][k].filename = n
    BY <2>1, <2>2, <2>3 DEF ListType
  <2>5. ASSUME NEW m \in Listed(t) PROVE m \in Listed(t)'
    <3>1. PICK j \in 1 .. file_count[t] : m = slots[t][j].filename
      BY DEF Listed
    <3> QED BY <2>4, <3>1 DEF Listed
  <2>6. n \in Listed(s)'
    BY <2>3, <2>4 DEF Listed
  <2> QED BY <1>1, <1>2, <1>4, <2>5, <2>6
<1> QED BY <1>3, <1>4

\* A step of c that leaves the disks alone.
LEMMA CreatorListing ==
  ASSUME CreatorInv, NEW c \in Conns, OnlyServes(c), UNCHANGED meta,
         Holds(c)' /\ ~Holds(c) =>
           /\ \E s \in Servers : s = ss_id'[c] /\ NameOf[c] \in Listed(s)' /\ NameOf[c] \notin Listed(s)
           /\ ~Created(c)',
         Holds(c)' /\ Holds(c) => ss_id'[c] = ss_id[c] /\ Created(c)' = Created(c),
         Holds(c) /\ ~Holds(c)' => ~Created(c),
         \A s \in Servers, e \in Conns :
           Op[e] = "CREATE" /\ NameOf[e] \in Listed(s) /\ NameOf[e] \notin Listed(s)' =>
             Holds(c) /\ ~Holds(c)' /\ ss_id[c] = s /\ NameOf[c] = NameOf[e]
  PROVE  CreatorInv'
<1>1. HoldersList /\ OneHolder /\ OwnedIsListed /\ HolderOwns
  BY DEF CreatorInv
<1>2. \A e \in Conns \ {c} : /\ Holds(e)' <=> Holds(e)
                             /\ Created(e)' <=> Created(e)
                             /\ ss_id'[e] = ss_id[e]
  BY DEF OnlyServes, OnlyMoves, Holds, Created
<1>3. \A e \in Conns : Holds(e) => Op[e] = "CREATE"
  BY DEF Holds
<1>4. ASSUME NEW e \in Conns, Holds(e)', Holds(e), NEW s, s = ss_id[e], NameOf[e] \in Listed(s), s \in Servers
      PROVE  NameOf[e] \in Listed(s)'
  <2> SUFFICES ASSUME NameOf[e] \notin Listed(s)' PROVE FALSE
    OBVIOUS
  <2>1. Holds(c) /\ ~Holds(c)' /\ ss_id[c] = s /\ NameOf[c] = NameOf[e]
    BY <1>3, <1>4
  <2>2. e = c
    BY <1>1, <1>4, <2>1 DEF OneHolder
  <2> QED BY <1>4, <2>1, <2>2
<1>5. HoldersList'
  <2> SUFFICES ASSUME NEW e \in Conns, Holds(e)'
               PROVE  \E s \in Servers : s = ss_id'[e] /\ NameOf[e] \in Listed(s)'
    BY DEF HoldersList
  <2>1. CASE Holds(e)
    <3>1. PICK s \in Servers : s = ss_id[e] /\ NameOf[e] \in Listed(s)
      BY <1>1, <2>1 DEF HoldersList
    <3>2. NameOf[e] \in Listed(s)' /\ ss_id'[e] = s
      BY <1>2, <1>4, <2>1, <3>1
    <3> QED BY <3>2
  <2>2. CASE ~Holds(e)
    BY <1>2, <2>2
  <2> QED BY <2>1, <2>2
<1>6. ASSUME Holds(c)', ~Holds(c), NEW e \in Conns \ {c}, Holds(e), NameOf[e] = NameOf[c]
      PROVE  ss_id[e] # ss_id'[c]
  BY <1>1, <1>6 DEF HoldersList
<1>7. OneHolder'
  <2> SUFFICES ASSUME NEW d \in Conns, NEW e \in Conns, Holds(d)', Holds(e)', NameOf[d] = NameOf[e],
                      ss_id'[d] = ss_id'[e], d # e
               PROVE  FALSE
    BY DEF OneHolder
  <2>1. CASE Holds(d) /\ Holds(e)
    BY <1>1, <1>2, <2>1 DEF OneHolder
  <2>2. CASE ~Holds(d)
    BY <1>2, <1>6, <2>2
  <2>3. CASE ~Holds(e)
    BY <1>2, <1>6, <2>3
  <2> QED BY <2>1, <2>2, <2>3
<1>8. OwnedIsListed'
  <2> SUFFICES ASSUME NEW e \in Conns, NEW s \in Servers, Op[e] = "CREATE", meta[s][NameOf[e]] # NoUser
               PROVE  NameOf[e] \in Listed(s)'
    BY DEF OwnedIsListed
  <2>1. NameOf[e] \in Listed(s)
    BY <1>1 DEF OwnedIsListed
  <2> SUFFICES ASSUME NameOf[e] \notin Listed(s)' PROVE FALSE
    OBVIOUS
  <2>2. Holds(c) /\ ~Holds(c)' /\ ss_id[c] = s /\ NameOf[c] = NameOf[e]
    BY <2>1
  <2>3. ~Created(c)
    BY <2>2
  <2> QED BY <1>1, <2>2, <2>3 DEF HolderOwns
<1>9. HolderOwns'
  <2> SUFFICES ASSUME NEW e \in Conns, Holds(e)'
               PROVE  meta[ss_id'[e]][NameOf[e]] = IF Created(e)' THEN UserOf[e] ELSE NoUser
    BY DEF HolderOwns
  <2>1. CASE Holds(e)
    BY <1>1, <1>2, <2>1 DEF HolderOwns
  <2>2. CASE ~Holds(e)
    <3>1. e = c
      BY <1>2, <2>2
    <3>2. PICK s \in Servers : s = ss_id'[c] /\ NameOf[c] \notin Listed(s)
      BY <2>2, <3>1
    <3>3. meta[s][NameOf[c]] = NoUser
      BY <1>1, <1>3, <3>1, <3>2 DEF OwnedIsListed, Holds
    <3> QED BY <2>2, <3>1, <3>2, <3>3
  <2> QED BY <2>1, <2>2
<1> QED BY <1>5, <1>7, <1>8, <1>9 DEF CreatorInv

LEMMA ServeCreators ==
  ASSUME AllRegisteredNoMove, CreatesUndisturbed, CreatorInv, TypeInv, GhostInv,
         NEW c \in Conns, Serve(c)
  PROVE  CreatorInv'
<1>1. /\ Threads /\ Places /\ Lists /\ Stores /\ StepsFit /\ ListType /\ OneEntryPerServer
      /\ Op[c] # "MOVE" /\ NameOf[c] \in Paths /\ UserOf[c] \in Users
  BY DEF TypeInv, GhostInv, ControlFits, AllRegisteredNoMove
<1>2. OnlyServes(c)
  BY <1>1, ServesAlone
<1>3. pc \in [Conns -> PCs] /\ ss_reply \in [Conns -> Replies] /\ reply \in [Conns -> Replies]
  BY <1>1 DEF Threads
<1>4. pc[c] # "done" => reply[c] = "none"
  BY <1>1 DEF StepsFit
<1>5. HoldersList /\ OneHolder /\ OwnedIsListed /\ HolderOwns
  BY DEF CreatorInv
<1>6. ASSUME UNCHANGED <<slots, file_count>> PROVE \A s \in Servers : Listed(s)' = Listed(s)
  BY <1>6 DEF Listed
<1>7. CASE \/ CheckNew(c)
           \/ AssignServer(c)
           \/ AdvanceIndex(c)
           \/ FindTarget(c)
           \/ CheckOwner(c)
           \/ ForgetLocation(c)
           \/ LookupCache(c)
           \/ FindFile(c)
           \/ CacheLocation(c)
           \/ AnswerLocation(c)
  <2>1. pc[c] \notin {"remote", "answer", "done"} /\ UNCHANGED <<slots, file_count, meta>>
    BY <1>7 DEF CheckNew, AssignServer, AdvanceIndex, FindTarget, CheckOwner, ForgetLocation, LookupCache,
       FindFile, CacheLocation, AnswerLocation, Starts
  <2>2. ~Holds(c)
    BY <1>4, <2>1 DEF Holds
  <2>3. ~Holds(c)'
    <3> SUFFICES ASSUME Op[c] = "CREATE" PROVE pc'[c] \notin {"remote", "answer"} /\ reply'[c] # "SUCCESS"
      BY DEF Holds
    <3>1. CheckNew(c) \/ AssignServer(c) \/ AdvanceIndex(c)
                      \/ AdvanceIndex(c)
      BY <1>1, <1>7 DEF FindTarget, CheckOwner, ForgetLocation, LookupCache,
         FindFile, CacheLocation, AnswerLocation, StepsFit
    <3>2. reply[c] = "none"
      BY <1>4, <2>1
    <3> QED BY <1>3, <3>1, <3>2 DEF CheckNew, AssignServer, AdvanceIndex, Goto, Finish
  <2> QED BY <1>2, <1>6, <2>1, <2>2, <2>3, CreatorListing
<1>8. CASE RecordFile(c)
  <2>1. PICK s, n, u : s = ss_id[c] /\ n = NameOf[c] /\ u = UserOf[c]
    OBVIOUS
  <2>2. /\ pc[c] = "add" /\ add_file_to_server(s, n, u) /\ UNCHANGED meta /\ ss_id' = ss_id
        /\ IF AddResult(s, n) = "SUCCESS" THEN Goto(c, "remote") ELSE Finish(c, AddResult(s, n))
    BY <1>8, <2>1 DEF RecordFile
  <2>3. s \in Servers /\ n \in Paths /\ u \in Users /\ Op[c] = "CREATE" /\ reply[c] = "none"
    BY <1>1, <1>4, <2>1, <2>2 DEF Places
  <2>4. ASSUME NEW t \in Servers
        PROVE  /\ \A m : m \in Listed(t)' <=> \/ m \in Listed(t)
                                              \/ t = s /\ m = n /\ AddResult(s, n) = "SUCCESS"
               /\ AddResult(s, n) = "SUCCESS" => n \notin Listed(s)
    BY <1>1, <2>2, <2>3, AddListed
  <2>5. ~Holds(c)
    BY <2>2, <2>3 DEF Holds
  <2>6. Holds(c)' => AddResult(s, n) = "SUCCESS" /\ ~Created(c)'
    BY <1>3, <2>2, <2>3 DEF Holds, Created, Goto, Finish
  <2> QED BY <1>2, <2>1, <2>2, <2>3, <2>4, <2>5, <2>6, CreatorListing
<1>9. CASE FinishCreateFolder(c)
  <2>1. /\ pc[c] = "answer" /\ UNCHANGED meta /\ Op[c] = "CREATEFOLDER"
    BY <1>9 DEF FinishCreateFolder
  <2>2. ~Holds(c) /\ ~Holds(c)'
    BY <2>1 DEF Holds
  <2>3. \A t \in Servers : \A m \in Listed(t) : m \in Listed(t)'
    <3>1. CASE ss_reply[c] = "CONNECTION_FAILED"
      BY <1>6, <1>9, <3>1 DEF FinishCreateFolder
    <3>2. CASE ss_reply[c] # "CONNECTION_FAILED"
      <4>1. PICK s, n, u : s = ss_id[c] /\ n = NameOf[c] /\ u = UserOf[c]
        OBVIOUS
      <4>2. s \in Servers /\ n \in Paths /\ u \in Users
        BY <1>1, <2>1, <4>1 DEF Places
      <4>3. add_file_to_server(s, n, u)
        BY <1>9, <3>2, <4>1 DEF FinishCreateFolder
      <4> QED BY <1>1, <4>2, <4>3, AddListed
    <3> QED BY <3>1, <3>2
  <2> QED BY <1>2, <2>1, <2>2, <2>3, CreatorListing
<1>10. CASE FinishDelete(c)
  <2>1. pc[c] = "answer" /\ UNCHANGED meta /\ Op[c] = "DELETE"
    BY <1>10 DEF FinishDelete
  <2>2. ~Holds(c) /\ ~Holds(c)'
    BY <2>1 DEF Holds
  <2>3. PICK s, n : s = ss_id[c] /\ n = NameOf[c]
    OBVIOUS
  <2>4. \A t \in Servers : \A m \in Listed(t) : m = n \/ m \in Listed(t)'
    <3>1. CASE ss_reply[c] # "SUCCESS"
      BY <1>6, <1>10, <3>1 DEF FinishDelete
    <3>2. CASE ss_reply[c] = "SUCCESS"
      <4>1. remove_file_from_server(s, n)
        BY <1>10, <2>3, <3>2 DEF FinishDelete
      <4> QED BY <1>1, <4>1, RemoveListed
    <3> QED BY <3>1, <3>2
  <2>5. \A e \in Conns : Op[e] = "CREATE" => NameOf[e] # n
    BY <2>1, <2>3 DEF CreatesUndisturbed
  <2> QED BY <1>2, <2>1, <2>2, <2>4, <2>5, CreatorListing
<1>11. CASE FinishCreate(c)
  <2>1. /\ pc[c] = "answer" /\ pc'[c] = "done" /\ UNCHANGED meta /\ Op[c] = "CREATE"
        /\ ss_id' = ss_id /\ reply[c] = "none" /\ reply'[c] = ss_reply[c]
    BY <1>3, <1>4, <1>11 DEF FinishCreate, Finish
  <2>2. Holds(c) /\ (Created(c) <=> ss_reply[c] = "SUCCESS")
    BY <2>1 DEF Holds, Created
  <2>3. CASE ss_reply[c] = "SUCCESS"
    <3>1. UNCHANGED <<slots, file_count>>
      BY <1>11, <2>3 DEF FinishCreate
    <3>2. Holds(c)' /\ Created(c)' /\ Created(c)
      BY <2>1, <2>2, <2>3 DEF Holds, Created
    <3>3. Created(c)' = Created(c)
      BY <3>2 DEF Created
    <3> QED BY <1>2, <1>6, <2>1, <2>2, <3>1, <3>2, <3>3, CreatorListing
  <2>4. CASE ss_reply[c] # "SUCCESS"
    <3>1. PICK s, n : s = ss_id[c] /\ n = NameOf[c]
      OBVIOUS
    <3>2. remove_file_from_server(s, n)
      BY <1>11, <2>4, <3>1 DEF FinishCreate, RollBack
    <3>3. \A t \in Servers : \A m \in Listed(t) : m \in Listed(t)' \/ (t = s /\ m = n)
      BY <1>1, <3>2, RemoveListed
    <3>4. ~Holds(c)' /\ ~Created(c)
      BY <2>1, <2>2, <2>4 DEF Holds
    <3> QED BY <1>2, <2>1, <2>2, <3>1, <3>3, <3>4, CreatorListing
  <2> QED BY <2>3, <2>4
<1>12. ~CallFails(c)
  BY <1>1 DEF CallFails, Threads, CreatesUndisturbed
<1>13. ~(\/ RemoteMove(c)
         \/ FinishMove(c)
         \/ RenameFile(c)
         \/ InsertMoved(c)
         \/ ForgetAll(c))
  BY <1>1 DEF RemoteMove, FinishMove, RenameFile, InsertMoved, ForgetAll, StepsFit
<1>14. CASE RemoteCreate(c) \/ RemoteCreateFolder(c) \/ RemoteDelete(c)
  <2>1. PICK s, n : s = ss_id[c] /\ n = NameOf[c]
    OBVIOUS
  <2>2. /\ pc[c] = "remote" /\ pc'[c] = "answer" /\ reply[c] = "none" /\ reply'[c] = "none"
        /\ UNCHANGED <<slots, file_count, ss_id>>
    BY <1>3, <1>4, <1>14 DEF RemoteCreate, RemoteCreateFolder, RemoteDelete, Answer, Goto
  <2>3. /\ s \in Servers /\ n \in Paths
        /\ meta \in [Servers -> [Paths -> Users \cup {NoUser}]]
    BY <1>1, <2>1, <2>2 DEF Places, Stores
  <2>4. \A t \in Servers, m \in Paths : t # s \/ m # n => meta'[t][m] = meta[t][m]
    <3>1. meta' = meta \/ \E u : meta' = [meta EXCEPT ![s][n] = u]
      BY <1>14, <2>1 DEF RemoteCreate, RemoteCreateFolder, RemoteDelete
    <3> QED BY <2>3, <3>1
  <2>5. /\ \A e \in Conns : Holds(e)' <=> Holds(e)
        /\ \A e \in Conns \ {c} : Created(e)' <=> Created(e)
    BY <1>2, <2>2 DEF OnlyServes, OnlyMoves, Holds, Created
  <2>6. HoldersList' /\ OneHolder'
    BY <1>5, <1>6, <2>2, <2>5 DEF HoldersList, OneHolder
  <2>7. CASE Op[c] # "CREATE"
    <3>1. \A e \in Conns : Op[e] = "CREATE" => NameOf[e] # n /\ NameOf[e] \in Paths
      <4>1. Op[c] \in {"CREATEFOLDER", "DELETE"}
        BY <1>14, <2>7 DEF RemoteCreate, RemoteCreateFolder, RemoteDelete
      <4> QED BY <2>1, <4>1 DEF CreatesUndisturbed
    <3>2. OwnedIsListed'
      BY <1>5, <1>6, <2>2, <2>4, <3>1 DEF OwnedIsListed
    <3>3. ASSUME NEW e \in Conns, Holds(e)
          PROVE  meta'[ss_id[e]][NameOf[e]] = IF Created(e)' THEN UserOf[e] ELSE NoUser
      <4>1. Op[e] = "CREATE" /\ e # c
        BY <2>7, <3>3 DEF Holds
      <4>2. ss_id[e] \in Servers
        BY <1>5, <3>3 DEF HoldersList
      <4>3. meta'[ss_id[e]][NameOf[e]] = meta[ss_id[e]][NameOf[e]]
        BY <2>4, <3>1, <4>1, <4>2
      <4> QED BY <1>5, <2>5, <3>3, <4>1, <4>3 DEF HolderOwns
    <3>4. HolderOwns'
      BY <2>2, <2>5, <3>3 DEF HolderOwns
    <3> QED BY <2>6, <3>2, <3>4 DEF CreatorInv
  <2>8. CASE Op[c] = "CREATE"
    <3>1. Holds(c) /\ ~Created(c) /\ RemoteCreate(c)
      BY <1>14, <2>2, <2>8 DEF Holds, Created, RemoteCreateFolder, RemoteDelete
    <3>2. meta[s][n] = NoUser /\ n \in Listed(s)
      BY <1>5, <2>1, <3>1 DEF HolderOwns, HoldersList
    <3>3. \/ meta' = meta /\ ss_reply' = [ss_reply EXCEPT ![c] = "SERVER_ERROR"]
          \/ /\ meta' = [meta EXCEPT ![s][n] = UserOf[c]]
             /\ ss_reply' = [ss_reply EXCEPT ![c] = "SUCCESS"]
      BY <2>1, <3>1, <3>2 DEF RemoteCreate, Answer
    <3>4. meta'[s][n] = IF Created(c)' THEN UserOf[c] ELSE NoUser
      BY <1>3, <2>2, <2>3, <3>2, <3>3 DEF Created
    <3>5. OwnedIsListed'
      <4> SUFFICES ASSUME NEW e \in Conns, NEW t \in Servers, Op[e] = "CREATE",
                          meta'[t][NameOf[e]] # NoUser
                   PROVE  NameOf[e] \in Listed(t)
        BY <1>6, <2>2 DEF OwnedIsListed
      <4>1. CASE t = s /\ NameOf[e] = n
        BY <3>2, <4>1
      <4>2. CASE ~(t = s /\ NameOf[e] = n)
        <5>1. meta'[t][NameOf[e]] = meta[t][NameOf[e]]
          BY <2>4, <4>2
        <5> QED BY <1>5, <5>1 DEF OwnedIsListed
      <4> QED BY <4>1, <4>2
    <3>6. ASSUME NEW e \in Conns \ {c}, Holds(e)
          PROVE  meta'[ss_id[e]][NameOf[e]] = IF Created(e)' THEN UserOf[e] ELSE NoUser
      <4>1. ss_id[e] # s \/ NameOf[e] # n
        BY <1>5, <2>1, <3>1, <3>6 DEF OneHolder
      <4>2. ss_id[e] \in Servers
        BY <1>5, <3>6 DEF HoldersList
      <4>3. meta'[ss_id[e]][NameOf[e]] = meta[ss_id[e]][NameOf[e]]
        BY <2>4, <4>1, <4>2
      <4> QED BY <1>5, <2>5, <3>6, <4>3 DEF HolderOwns
    <3>7. HolderOwns'
      BY <2>1, <2>2, <2>5, <3>4, <3>6 DEF HolderOwns
    <3> QED BY <2>6, <3>5, <3>7 DEF CreatorInv
  <2> QED BY <2>7, <2>8
<1> QED BY <1>7, <1>8, <1>9, <1>10, <1>11, <1>12, <1>13, <1>14 DEF Serve

LEMMA InitCreators == AllRegisteredNoMove /\ Init => CreatorInv
<1> SUFFICES ASSUME AllRegisteredNoMove, Init PROVE CreatorInv
  OBVIOUS
<1>1. \A c \in Conns : ~Holds(c)
  BY DEF Init, Holds
<1>2. OwnedIsListed
  <2> SUFFICES ASSUME NEW s \in Servers, NEW n \in Paths, meta[s][n] # NoUser
               PROVE  n \in Listed(s)
    BY DEF OwnedIsListed
  <2>1. OwnerAtFirst(s, n) # NoUser
    BY DEF Init
  <2>2. PICK i \in DOMAIN FileList[s] : FileList[s][i].filename = n
    BY <2>1 DEF OwnerAtFirst
  <2>3. s \in ToSet(InitialServers) /\ FileList[s] \in Seq(Listing)
    BY DEF AllRegisteredNoMove
  <2>4. /\ DOMAIN FileList[s] = 1 .. Len(FileList[s]) /\ Len(FileList[s]) \in Nat
        /\ Len(FileList[s]) <= MaxFiles /\ MaxFiles \in Nat
    BY <2>3, LenProperties
  <2>5. i \in 1 .. MaxFiles /\ i <= Len(FileList[s]) /\ i \in 1 .. file_count[s]
    BY <2>2, <2>3, <2>4 DEF Init
  <2>6. slots[s][i].filename = n
    BY <2>2, <2>3, <2>5 DEF Init, ListedSlots
  <2> QED BY <2>5, <2>6 DEF Listed
<1> QED BY <1>1, <1>2 DEF CreatorInv, HoldersList, OneHolder, HolderOwns

LEMMA NextCreators ==
  ASSUME AllRegisteredNoMove, CreatesUndisturbed, CreatorInv, TypeInv, GhostInv, [Next]_vars
  PROVE  CreatorInv'
<1>1. ASSUME UNCHANGED <<slots, file_count, storage, pc, locals, reply>> PROVE CreatorInv'
  <2>1. \A s \in Servers : Listed(s)' = Listed(s)
    BY <1>1 DEF Listed
  <2>2. \A c \in Conns : (Holds(c)' <=> Holds(c)) /\ (Created(c)' <=> Created(c))
    BY <1>1 DEF Holds, Created
  <2> QED BY <1>1, <2>1, <2>2 DEF CreatorInv, HoldersList, OneHolder, OwnedIsListed, HolderOwns
<1>2. ASSUME NEW s \in Servers, Register(s) PROVE CreatorInv'
  <2>1. registering = {} /\ s \in ToSet(ss_list)
    BY DEF AllRegisteredNoMove, GhostInv, ControlFits
  <2> QED BY <1>2, <2>1 DEF Register, RegisterServer, ListFile, CountFile, EndRegistration
<1>3. ASSUME NEW k \in CacheSlots, Expire(k) PROVE CreatorInv'
  BY <1>1, <1>3 DEF Expire
<1>4. CASE UNCHANGED vars
  BY <1>1, <1>4 DEF vars
<1> QED BY <1>2, <1>3, <1>4, ServeCreators DEF Next, Done

\* A client that is told that its CREATE succeeded owns the file, for the storage server
\* too, however many clients race for the name: the file list decides, under ss_mutex and
\* before the storage server is called, which of them goes on.
THEOREM CreatorsOwn == AllRegisteredNoMove /\ CreatesUndisturbed /\ Spec => []CreatorOwns
<1> SUFFICES ASSUME AllRegisteredNoMove, CreatesUndisturbed PROVE Spec => []CreatorOwns
  OBVIOUS
<1>1. NoCreateMeanwhile
  BY DEF NoCreateMeanwhile, AllRegistered, AllRegisteredNoMove
<1>2. Spec => []TypeInv
  BY <1>1, TypeInvHolds
<1>3. Spec => []GhostInv
  BY GhostInvHolds
<1>4. Init => CreatorInv
  BY InitCreators
<1>5. CreatorInv /\ TypeInv /\ GhostInv /\ [Next]_vars => CreatorInv'
  BY NextCreators
<1>6. CreatorInv => CreatorOwns
  BY DEF CreatorInv, HolderOwns, CreatorOwns, Holds, Created
<1> QED BY <1>2, <1>3, <1>4, <1>5, <1>6, PTL DEF Spec
-----------------------------------------------------------------------------
(***************************************************************************)
(* The hash table has a node for every listed file and no others.          *)
(***************************************************************************)
Where(n) == {s \in Servers : n \in Listed(s)}

NodeInv == \A n \in Paths : Cardinality(Named(nodes, n)) = Cardinality(Where(n))

\* Where a step takes a name off a list, or puts it on one.
LEMMA WhereChanges ==
  ASSUME IsFiniteSet(Servers), NEW n, NEW s \in Servers
  PROVE  /\ IsFiniteSet(Where(n)) /\ Cardinality(Where(n)) \in Nat
         /\ s \notin Where(n) => Cardinality(Where(n) \cup {s}) = Cardinality(Where(n)) + 1
         /\ s \in Where(n) => Cardinality(Where(n) \ {s}) = Cardinality(Where(n)) - 1
<1>1. PICK W : W = Where(n)
  OBVIOUS
<1>2. W \subseteq Servers
  BY <1>1 DEF Where
<1>3. IsFiniteSet(W) /\ Cardinality(W) \in Nat
  BY <1>2, FS_Subset, FS_CardinalityType
<1>4. s \notin W => Cardinality(W \cup {s}) = Cardinality(W) + 1
  BY <1>3, FS_AddElement
<1>5. s \in W => Cardinality(W \ {s}) = Cardinality(W) - 1
  BY <1>3, FS_RemoveElement
<1> QED BY <1>1, <1>3, <1>4, <1>5

LEMMA AddNode ==
  ASSUME IsFiniteSet(Servers), NodeInv, Lists, ListType, OneEntryPerServer,
         NEW s \in Servers, NEW n \in Paths, NEW u \in Users, add_file_to_server(s, n, u)
  PROVE  NodeInv'
<1>1. CASE AddResult(s, n) # "SUCCESS"
  <2>1. UNCHANGED <<slots, file_count, nodes>>
    BY <1>1 DEF add_file_to_server
  <2>2. \A m \in Paths : Where(m)' = Where(m)
    BY <2>1 DEF Where, Listed
  <2> QED BY <2>1, <2>2 DEF NodeInv
<1>2. CASE AddResult(s, n) = "SUCCESS"
  <2>1. ListType /\ OneEntryPerServer /\ add_file_to_server(s, n, u)
    OBVIOUS
  <2>2. ASSUME NEW t \in Servers
        PROVE  /\ \A m : m \in Listed(t)' <=> \/ m \in Listed(t)
                                              \/ t = s /\ m = n /\ AddResult(s, n) = "SUCCESS"
               /\ AddResult(s, n) = "SUCCESS" => n \notin Listed(s)
    BY ONLY <2>1, SizeAssumption, AddListed, s \in Servers, n \in Paths, u \in Users, t \in Servers
  <2>3. n \notin Listed(s)
    BY <1>2, <2>2
  <2>4. PICK r : r = [filename |-> n, file_ptr |-> [ss |-> s, slot |-> file_count[s] + 1]]
    OBVIOUS
  <2>5. nodes' = <<r>> \o nodes /\ r.filename = n
    BY <1>2, <2>4 DEF add_file_to_server, Inserted
  <2>6. PICK T : T = Node \cup {r}
    OBVIOUS
  <2>7. <<r>> \in Seq(T)
    BY <2>6
  <2>8. nodes \in Seq(T)
    <3>1. nodes \in Seq(Node) /\ Node \subseteq T
      BY <2>6 DEF Lists
    <3> QED BY <3>1, SeqMonotonic
  <2> SUFFICES ASSUME NEW m \in Paths
               PROVE  Cardinality(Named(nodes', m)) = Cardinality(Where(m)')
    BY DEF NodeInv
  <2>9. Cardinality(Named(nodes', m)) = Cardinality(Named(<<r>>, m)) + Cardinality(Named(nodes, m))
    <3>1. PICK one : one = <<r>>
      OBVIOUS
    <3>2. one \in Seq(T)
      BY <2>7, <3>1
    <3>3. Cardinality(Named(one \o nodes, m)) = Cardinality(Named(one, m)) + Cardinality(Named(nodes, m))
      BY ONLY <2>8, <3>2, NamedConcat
    <3> QED BY <2>5, <3>1, <3>3
  <2>10. Cardinality(Named(<<r>>, m)) = IF n = m THEN 1 ELSE 0
    BY <2>5, NamedOne
  <2>11. Cardinality(Named(nodes, m)) = Cardinality(Where(m))
    BY DEF NodeInv
  <2>12. PICK w \in Nat : w = Cardinality(Where(m))
    BY WhereChanges
  <2>13. CASE m = n
    <3>1. Where(m)' = Where(m) \cup {s} /\ s \notin Where(m)
      BY <1>2, <2>2, <2>3, <2>13 DEF Where
    <3>2. Cardinality(Where(m) \cup {s}) = w + 1
      BY <2>12, <3>1, WhereChanges
    <3> QED BY <2>9, <2>10, <2>11, <2>12, <2>13, <3>1, <3>2
  <2>14. CASE m # n
    <3>1. Where(m)' = Where(m)
      BY <2>2, <2>14 DEF Where
    <3> QED BY <2>9, <2>10, <2>11, <2>12, <2>14, <3>1
  <2> QED BY <2>13, <2>14
<1> QED BY <1>1, <1>2

LEMMA RemoveNode ==
  ASSUME IsFiniteSet(Servers), NodeInv, Lists, ListType, OneEntryPerServer,
         NEW s \in Servers, NEW n \in Paths, remove_file_from_server(s, n)
  PROVE  NodeInv'
<1>1. CASE SlotOf(s, n) = 0
  <2>1. UNCHANGED <<slots, file_count, nodes>>
    BY <1>1 DEF remove_file_from_server
  <2>2. \A m \in Paths : Where(m)' = Where(m)
    BY <2>1 DEF Where, Listed
  <2> QED BY <2>1, <2>2 DEF NodeInv
<1>2. CASE SlotOf(s, n) # 0
  <2>1. ListType /\ OneEntryPerServer /\ remove_file_from_server(s, n)
    OBVIOUS
  <2>2. ASSUME NEW t \in Servers
        PROVE  \A m : m \in Listed(t)' <=> m \in Listed(t) /\ ~(t = s /\ m = n)
    BY ONLY <2>1, SizeAssumption, RemoveListed, t \in Servers
  <2>3. n \in Listed(s)
    <3>1. SlotOf(s, n) \in 1 .. file_count[s] /\ slots[s][SlotOf(s, n)].filename = n
      BY <1>2, SlotFound
    <3> QED BY <3>1 DEF Listed
  <2>4. PICK T : T = Node
    OBVIOUS
  <2>5. nodes \in Seq(T)
    BY <2>4 DEF Lists
  <2>6. \E i \in 1 .. Len(nodes) : nodes[i].filename = n
    <3> SUFFICES ASSUME ~ \E i \in 1 .. Len(nodes) : nodes[i].filename = n PROVE FALSE
      OBVIOUS
    <3>1. Named(nodes, n) = {}
      BY <2>5, LenProperties DEF Named
    <3>2. Cardinality(Where(n)) = 0
      <4>1. Cardinality(Named(nodes, n)) = Cardinality(Where(n))
        BY DEF NodeInv
      <4> QED BY <3>1, <4>1, FS_EmptySet
    <3>3. IsFiniteSet(Where(n))
      BY WhereChanges
    <3>4. PICK W : W = Where(n)
      OBVIOUS
    <3>5. W = {}
      BY <3>2, <3>3, <3>4, FS_EmptySet
    <3> QED BY <2>3, <3>4, <3>5 DEF Where
  <2>7. PICK i \in 1 .. Len(nodes) : /\ nodes[i].filename = n
                                     /\ hash_remove_file(n) = RemoveAt(nodes, i)
    BY <2>5, <2>6, RemoveNamedProperties DEF hash_remove_file
  <2>8. nodes' = RemoveAt(nodes, i)
    BY <1>2, <2>7 DEF remove_file_from_server
  <2> SUFFICES ASSUME NEW m \in Paths
               PROVE  Cardinality(Named(nodes', m)) = Cardinality(Where(m)')
    BY DEF NodeInv
  <2>9. Cardinality(Named(nodes, m)) = Cardinality(Named(nodes', m)) + (IF n = m THEN 1 ELSE 0)
    <3>1. Cardinality(Named(nodes, m)) = Cardinality(Named(RemoveAt(nodes, i), m))
                                           + (IF nodes[i].filename = m THEN 1 ELSE 0)
      BY <2>5, NamedRemoveAt
    <3> QED BY <2>7, <2>8, <3>1
  <2>10. PICK l \in Nat : l = Cardinality(Named(nodes', m))
    <3>1. nodes' \in Seq(T)
      BY <2>5, <2>8, RemoveAtProperties
    <3> QED BY <3>1, NamedFinite
  <2>11. Cardinality(Named(nodes, m)) = Cardinality(Where(m))
    BY DEF NodeInv
  <2>12. PICK w \in Nat : w = Cardinality(Where(m))
    BY WhereChanges
  <2>13. CASE m = n
    <3>1. Where(m)' = Where(m) \ {s} /\ s \in Where(m)
      BY <2>2, <2>3, <2>13 DEF Where
    <3>2. Cardinality(Where(m) \ {s}) = w - 1
      BY <2>12, <3>1, WhereChanges
    <3> QED BY <2>9, <2>10, <2>11, <2>12, <2>13, <3>1, <3>2
  <2>14. CASE m # n
    <3>1. Where(m)' = Where(m)
      BY <2>2, <2>14 DEF Where
    <3> QED BY <2>9, <2>10, <2>11, <2>12, <2>14, <3>1
  <2> QED BY <2>13, <2>14
<1> QED BY <1>1, <1>2

LEMMA NextNodes ==
  ASSUME AllRegisteredNoMove, IsFiniteSet(Servers), NodeInv, TypeInv, GhostInv, [Next]_vars
  PROVE  NodeInv'
<1>1. ASSUME UNCHANGED <<slots, file_count, nodes>> PROVE NodeInv'
  <2>1. \A m \in Paths : Where(m)' = Where(m)
    BY <1>1 DEF Where, Listed
  <2> QED BY <1>1, <2>1 DEF NodeInv
<1>2. ASSUME NEW s \in Servers, Register(s) PROVE NodeInv'
  <2>1. registering = {} /\ s \in ToSet(ss_list)
    BY DEF AllRegisteredNoMove, GhostInv, ControlFits
  <2> QED BY <1>2, <2>1 DEF Register, RegisterServer, ListFile, CountFile, EndRegistration
<1>3. ASSUME NEW k \in CacheSlots, Expire(k) PROVE NodeInv'
  BY <1>1, <1>3 DEF Expire
<1>4. CASE UNCHANGED vars
  BY <1>1, <1>4 DEF vars
<1>5. ASSUME NEW c \in Conns, Serve(c) PROVE NodeInv'
  <2>1. NameOf[c] \in Paths /\ UserOf[c] \in Users /\ Op[c] # "MOVE"
    BY DEF AllRegisteredNoMove
  <2>2. Lists /\ Places /\ ListType /\ OneEntryPerServer
    BY DEF TypeInv, GhostInv
  <2>3. ASSUME pc[c] \in {"add", "answer"},
               \/ add_file_to_server(ss_id[c], NameOf[c], UserOf[c])
               \/ remove_file_from_server(ss_id[c], NameOf[c])
        PROVE  NodeInv'
    <3>1. PICK s, n, u : s = ss_id[c] /\ n = NameOf[c] /\ u = UserOf[c]
      OBVIOUS
    <3>2. s \in Servers /\ n \in Paths /\ u \in Users
      BY <2>1, <2>2, <2>3, <3>1 DEF Places
    <3>3. CASE add_file_to_server(s, n, u)
      BY <2>2, <3>2, <3>3, AddNode
    <3>4. CASE remove_file_from_server(s, n)
      BY <2>2, <3>2, <3>4, RemoveNode
    <3> QED BY <2>3, <3>1, <3>3, <3>4
  <2>4. CASE RecordFile(c)
    BY <2>3, <2>4 DEF RecordFile
  <2>5. CASE FinishCreateFolder(c)
    <3>1. pc[c] = "answer" /\ (\/ UNCHANGED <<slots, file_count, nodes>>
                               \/ add_file_to_server(ss_id[c], NameOf[c], UserOf[c]))
      BY <2>5 DEF FinishCreateFolder
    <3> QED BY <1>1, <2>3, <3>1
  <2>6. CASE FinishCreate(c) \/ FinishDelete(c)
    <3>1. pc[c] = "answer" /\ (\/ UNCHANGED <<slots, file_count, nodes>>
                               \/ remove_file_from_server(ss_id[c], NameOf[c]))
      BY <2>6 DEF FinishCreate, FinishDelete, RollBack
    <3> QED BY <1>1, <2>3, <3>1
  <2>7. ~FinishMove(c) /\ ~RenameFile(c) /\ ~InsertMoved(c)
    BY <2>1, <2>2 DEF FinishMove, RenameFile, InsertMoved, Places
  <2>8. CASE \/ CheckNew(c)
             \/ AssignServer(c)
             \/ AdvanceIndex(c)
             \/ FindTarget(c)
             \/ CheckOwner(c)
             \/ CallFails(c)
             \/ ForgetLocation(c)
             \/ ForgetAll(c)
             \/ LookupCache(c)
             \/ FindFile(c)
             \/ CacheLocation(c)
             \/ AnswerLocation(c)
    BY <1>1, <2>8 DEF CheckNew, AssignServer, AdvanceIndex, FindTarget, CheckOwner, CallFails, ForgetLocation,
       ForgetAll, LookupCache, FindFile, CacheLocation, AnswerLocation
  <2>9. CASE RemoteCreate(c) \/ RemoteCreateFolder(c) \/ RemoteDelete(c) \/ RemoteMove(c)
    BY <1>1, <2>9 DEF RemoteCreate, RemoteCreateFolder, RemoteDelete, RemoteMove, Answer
  <2> QED BY <1>5, <2>4, <2>5, <2>6, <2>7, <2>8, <2>9 DEF Serve
<1> QED BY <1>2, <1>3, <1>4, <1>5 DEF Next, Done

LEMMA ServersFinite ==
  ASSUME AllRegisteredNoMove
  PROVE  IsFiniteSet(Servers)
<1>1. PICK l \in Nat : l = Len(InitialServers) /\ DOMAIN InitialServers = 1 .. l
  BY LenProperties
<1>2. IsFiniteSet(1 .. l)
  BY FS_Interval
<1>3. PICK f : f = InitialServers
  OBVIOUS
<1>4. IsFiniteSet({f[i] : i \in 1 .. l})
  <2>1. PICK S : S = 1 .. l
    OBVIOUS
  <2>2. IsFiniteSet({f[i] : i \in S})
    <3>1. IsFiniteSet(S)
      BY <1>2, <2>1
    <3> QED BY ONLY <3>1, ImageCardinality
  <2> QED BY <2>1, <2>2
<1>5. \A s \in Servers : s \in {f[i] : i \in 1 .. l}
  BY <1>1, <1>3 DEF AllRegisteredNoMove, ToSet
<1> QED BY <1>4, <1>5, FS_Subset

\* The nodes of the list that a server registered with.
LEMMA NodesAtFirst ==
  ASSUME AllRegisteredNoMove, Init, NEW s \in Servers, NEW n
  PROVE  Cardinality(Named(ListedNodes(s), n)) = IF n \in Listed(s) THEN 1 ELSE 0
<1>1. PICK l \in Nat : l = Len(FileList[s]) /\ DOMAIN FileList[s] = 1 .. l
  <2>1. FileList[s] \in Seq(Listing)
    OBVIOUS
  <2> QED BY <2>1, LenProperties
<1>2. s \in ToSet(InitialServers) /\ l <= MaxFiles /\ file_count[s] = l
  BY <1>1 DEF AllRegisteredNoMove, Init
<1>3. \A i \in 1 .. l : slots[s][i].filename = FileList[s][i].filename
  <2> SUFFICES ASSUME NEW i \in 1 .. l PROVE slots[s][i].filename = FileList[s][i].filename
    OBVIOUS
  <2>1. i \in 1 .. MaxFiles /\ i <= Len(FileList[s])
    BY <1>1, <1>2
  <2> QED BY <1>2, <2>1 DEF Init, ListedSlots
<1>4. \A i : i \in Named(ListedNodes(s), n) <=> i \in 1 .. l /\ FileList[s][i].filename = n
  BY <1>1 DEF Named, ListedNodes
<1>5. CASE n \in Listed(s)
  <2>1. PICK i \in 1 .. l : FileList[s][i].filename = n
    BY <1>2, <1>3, <1>5 DEF Listed
  <2>2. \A j \in 1 .. l : FileList[s][j].filename = n => j = i
    BY <1>1, <2>1
  <2>3. Named(ListedNodes(s), n) = {i}
    BY <1>4, <2>1, <2>2
  <2>4. Cardinality({i}) = 1
    BY FS_Singleton
  <2> QED BY <1>5, <2>3, <2>4
<1>6. CASE n \notin Listed(s)
  <2>1. \A i \in 1 .. l : FileList[s][i].filename # n
    BY <1>2, <1>3, <1>6 DEF Listed
  <2>2. Named(ListedNodes(s), n) = {}
    BY <1>4, <2>1
  <2> QED BY <1>6, <2>2, FS_EmptySet
<1> QED BY <1>5, <1>6

LEMMA InitNodes ==
  ASSUME AllRegisteredNoMove, Init
  PROVE  NodeInv
<1> SUFFICES ASSUME NEW n \in Paths
             PROVE  Cardinality(Named(nodes, n)) = Cardinality(Where(n))
  BY DEF NodeInv
<1>1. PICK l \in Nat : l = Len(InitialServers) /\ DOMAIN InitialServers = 1 .. l
  BY LenProperties
<1>2. PICK lists : lists = [k \in DOMAIN InitialServers |-> ListedNodes(InitialServers[k])]
  OBVIOUS
<1>3. PICK T : T = [filename : Paths, file_ptr : [ss : Servers, slot : Nat]]
  OBVIOUS
<1>4. \A s \in Servers : ListedNodes(s) \in Seq(T)
  <2> SUFFICES ASSUME NEW s \in Servers PROVE ListedNodes(s) \in Seq(T)
    OBVIOUS
  <2>1. FileList[s] \in Seq(Listing)
    OBVIOUS
  <2>2. PICK k \in Nat : DOMAIN FileList[s] = 1 .. k /\ \A i \in 1 .. k : FileList[s][i] \in Listing
    BY <2>1, LenProperties
  <2>3. ListedNodes(s) \in [1 .. k -> T]
    BY <1>3, <2>2 DEF ListedNodes, Listing
  <2> QED BY <2>3, SeqDef
<1>5. \A k \in 1 .. l : InitialServers[k] \in Servers
  BY <1>1
<1>6. lists \in [1 .. l -> Seq(T)]
  BY <1>1, <1>2, <1>4, <1>5
<1>7. lists \in Seq(Seq(T)) /\ Len(lists) = l
  <2>1. lists \in Seq(Seq(T))
    BY <1>6, SeqDef
  <2> QED BY <1>6, <2>1, LenProperties
<1>8. nodes = Reverse(FlattenSeq(lists))
  BY <1>2 DEF Init
<1>9. PICK flat : flat = FlattenSeq(lists)
  OBVIOUS
<1>10. flat \in Seq(T)
  BY <1>7, <1>9, FlattenType
<1>11. Cardinality(Named(nodes, n)) = Cardinality(Named(flat, n))
  BY <1>8, <1>9, <1>10, NamedReverse
<1>12. PICK J : J = {j \in 1 .. l : InitialServers[j] \in Where(n)}
  OBVIOUS
<1>13. \A j \in 1 .. l : Cardinality(Named(lists[j], n)) = IF j \in J THEN 1 ELSE 0
  <2> SUFFICES ASSUME NEW j \in 1 .. l
               PROVE  Cardinality(Named(lists[j], n)) = IF j \in J THEN 1 ELSE 0
    OBVIOUS
  <2>1. PICK s \in Servers : s = InitialServers[j]
    BY <1>5
  <2>2. Cardinality(Named(ListedNodes(s), n)) = IF n \in Listed(s) THEN 1 ELSE 0
    BY NodesAtFirst
  <2>3. lists[j] = ListedNodes(s)
    BY <1>1, <1>2, <2>1
  <2>4. j \in J <=> n \in Listed(s)
    BY <1>12, <2>1 DEF Where
  <2> QED BY <2>2, <2>3, <2>4
<1>14. Cardinality(Named(flat, n)) = Cardinality(J)
  <2>1. J \in SUBSET (1 .. Len(lists))
    BY <1>7, <1>12
  <2>2. \A j \in 1 .. Len(lists) : Cardinality(Named(lists[j], n)) = IF j \in J THEN 1 ELSE 0
    BY <1>7, <1>13
  <2>3. lists \in Seq(Seq(T))
    BY <1>7
  <2>4. Cardinality(Named(FlattenSeq(lists), n)) = Cardinality(J)
    BY ONLY ZenonT(60), <2>1, <2>2, <2>3, FlattenCount
  <2> QED BY <1>9, <2>4
<1>15. Cardinality(Where(n)) = Cardinality(J)
  <2>1. PICK W : W = Where(n)
    OBVIOUS
  <2>2. PICK f : f = [j \in J |-> InitialServers[j]]
    OBVIOUS
  <2>3. IsFiniteSet(J)
    <3>1. IsFiniteSet(1 .. l) /\ J \subseteq 1 .. l
      BY <1>12, FS_Interval
    <3> QED BY <3>1, FS_Subset
  <2>4. f \in [J -> W]
    BY <1>12, <2>1, <2>2
  <2>5. \A x, y \in J : f[x] = f[y] => x = y
    <3>1. \A x, y \in 1 .. l : InitialServers[x] = InitialServers[y] => x = y
      BY <1>1 DEF IsInjective
    <3> QED BY <1>12, <2>2, <3>1
  <2>6. \A z \in W : \E x \in J : f[x] = z
    <3> SUFFICES ASSUME NEW z \in W PROVE \E x \in J : f[x] = z
      OBVIOUS
    <3>1. z \in ToSet(InitialServers)
      BY <2>1 DEF AllRegisteredNoMove, Where
    <3>2. PICK x \in 1 .. l : InitialServers[x] = z
      BY <1>1, <3>1 DEF ToSet
    <3>3. x \in J
      BY <1>12, <2>1, <3>2
    <3> QED BY <2>2, <3>2, <3>3
  <2> QED BY <2>1, <2>3, <2>4, <2>5, <2>6, SameSize
<1> QED BY <1>9, <1>11, <1>14, <1>15

\* For every name the hash table has as many nodes as the servers' lists have entries,
\* whatever requests are under way and wherever they fail: a listed file can be found,
\* and a removed one cannot.
THEOREM NodesMatch == AllRegisteredNoMove /\ Spec => []NodesMatchLists
<1> SUFFICES ASSUME AllRegisteredNoMove PROVE Spec => []NodesMatchLists
  OBVIOUS
<1>1. NoCreateMeanwhile
  BY DEF NoCreateMeanwhile, AllRegistered, AllRegisteredNoMove
<1>2. Spec => []TypeInv
  BY <1>1, TypeInvHolds
<1>3. Spec => []GhostInv
  BY GhostInvHolds
<1>4. Init => NodeInv
  BY InitNodes
<1>5. NodeInv /\ TypeInv /\ GhostInv /\ [Next]_vars => NodeInv'
  BY ServersFinite, NextNodes
<1>6. NodeInv /\ TypeInv /\ GhostInv => NodesMatchLists
  <2> SUFFICES ASSUME NodeInv, TypeInv, GhostInv, NEW n \in Paths
               PROVE  Cardinality({i \in DOMAIN nodes : nodes[i].filename = n}) =
                      Cardinality({p \in Pointer : /\ p.slot <= file_count[p.ss]
                                                   /\ Deref(p).filename = n})
    BY DEF NodesMatchLists
  <2>1. PICK P : P = {p \in Pointer : /\ p.slot <= file_count[p.ss]
                                      /\ Deref(p).filename = n}
    OBVIOUS
  <2>2. PICK W : W = Where(n)
    OBVIOUS
  <2>3. ListType /\ OneEntryPerServer
    BY DEF GhostInv
  <2>4. IsFiniteSet(P) /\ Cardinality(P) = Cardinality(W)
    <3>1. PICK f : f = [s \in W |-> [ss |-> s, slot |-> SlotOf(s, n)]]
      OBVIOUS
    <3>2. IsFiniteSet(W)
      <4>1. IsFiniteSet(Servers) /\ W \subseteq Servers
        BY <2>2, ServersFinite DEF Where
      <4> QED BY <4>1, FS_Subset
    <3>3. ASSUME NEW s \in W
          PROVE  /\ s \in Servers /\ SlotOf(s, n) \in 1 .. file_count[s]
                 /\ slots[s][SlotOf(s, n)].filename = n /\ file_count[s] \in 0 .. MaxFiles
      <4>1. s \in Servers /\ file_count[s] \in 0 .. MaxFiles
        BY <2>2, <2>3 DEF Where, ListType
      <4>2. PICK i \in 1 .. file_count[s] : slots[s][i].filename = n
        BY <2>2 DEF Where, Listed
      <4>3. SlotOf(s, n) # 0
        BY <2>3, <4>1, <4>2, SlotFound
      <4> QED BY <2>3, <4>1, <4>3, SlotFound
    <3>4. f \in [W -> P]
      <4> SUFFICES ASSUME NEW s \in W PROVE [ss |-> s, slot |-> SlotOf(s, n)] \in P
        BY <3>1
      <4>1. SlotOf(s, n) \in 1 .. MaxFiles /\ SlotOf(s, n) <= file_count[s] /\ s \in Servers
        BY <3>3
      <4>2. PICK p : p = [ss |-> s, slot |-> SlotOf(s, n)]
        OBVIOUS
      <4>3. p \in Pointer /\ p.ss = s /\ p.slot = SlotOf(s, n)
        BY <4>1, <4>2 DEF Pointer
      <4>4. Deref(p).filename = n
        BY <3>3, <4>3 DEF Deref
      <4> QED BY <2>1, <4>1, <4>2, <4>3, <4>4
    <3>5. \A x, y \in W : f[x] = f[y] => x = y
      BY <3>1
    <3>6. \A p \in P : \E s \in W : f[s] = p
      <4> SUFFICES ASSUME NEW p \in P PROVE \E s \in W : f[s] = p
        OBVIOUS
      <4>1. PICK s, i : s = p.ss /\ i = p.slot
        OBVIOUS
      <4>2. /\ p = [ss |-> s, slot |-> i] /\ s \in Servers /\ i \in 1 .. MaxFiles
            /\ i <= file_count[s] /\ slots[s][i].filename = n
        BY <2>1, <4>1 DEF Pointer, Deref
      <4>3. i \in 1 .. file_count[s] /\ file_count[s] \in 0 .. MaxFiles
        BY <2>3, <4>2 DEF ListType
      <4>4. s \in W
        BY <2>2, <4>2, <4>3 DEF Where, Listed
      <4>5. SlotOf(s, n) = i
        BY <2>3, <3>3, <4>2, <4>3, <4>4 DEF OneEntryPerServer
      <4> QED BY <3>1, <4>2, <4>4, <4>5
    <3> QED BY ONLY <3>2, <3>4, <3>5, <3>6, SameSize
  <2>5. Cardinality(Named(nodes, n)) = Cardinality(W)
    BY <2>2 DEF NodeInv
  <2> QED BY <2>1, <2>4, <2>5 DEF Named
<1> QED BY <1>2, <1>3, <1>4, <1>5, <1>6, PTL DEF Spec
-----------------------------------------------------------------------------
(***************************************************************************)
(* A registration lists all files it was given.                            *)
(***************************************************************************)

\* Until all storage servers have registered, clients only ask where files are.
EarlyOnlyAsk == \A c \in Early : Op[c] = "GET_SS_INFO"

OnlyAskers == Complete \/ \A c \in Conns : Op[c] = "GET_SS_INFO" \/ Idle(c)

\* The server that registers has the first files of its list, and the others are to come.
ListedSoFar ==
  \A s \in registering :
    /\ Len(to_list) = Len(FileList[s]) - file_count[s]
    /\ \A i \in 1 .. Len(to_list) : to_list[i] = FileList[s][file_count[s] + i]
    /\ \A i \in 1 .. file_count[s] : slots[s][i].filename = FileList[s][i].filename
    /\ written => slots[s][file_count[s] + 1].filename = FileList[s][file_count[s] + 1].filename

ListingInv == OnlyAskers /\ ListedSoFar

\* A client that asks where a file is changes no list.
LEMMA AskersChangeNothing ==
  ASSUME Places, NEW c \in Conns, Op[c] = "GET_SS_INFO", Serve(c)
  PROVE  UNCHANGED <<slots, file_count>>
<1>1. pc[c] # "add" /\ pc[c] # "rename" /\ pc[c] # "insert" /\ pc[c] # "assign"
  BY DEF Places, Creates
<1>2. ~RecordFile(c) /\ ~RenameFile(c) /\ ~InsertMoved(c)
  BY <1>1 DEF RecordFile, RenameFile, InsertMoved
<1>3. ~FinishCreate(c) /\ ~FinishCreateFolder(c) /\ ~FinishDelete(c) /\ ~FinishMove(c)
  BY DEF FinishCreate, FinishCreateFolder, FinishDelete, FinishMove
<1>4. CASE \/ CheckNew(c)
           \/ AssignServer(c)
           \/ AdvanceIndex(c)
           \/ FindTarget(c)
           \/ CheckOwner(c)
           \/ CallFails(c)
           \/ ForgetLocation(c)
           \/ ForgetAll(c)
           \/ LookupCache(c)
           \/ FindFile(c)
           \/ CacheLocation(c)
           \/ AnswerLocation(c)
  BY <1>4 DEF CheckNew, AssignServer, AdvanceIndex, FindTarget, CheckOwner, CallFails, ForgetLocation,
     ForgetAll, LookupCache, FindFile, CacheLocation, AnswerLocation
<1>5. CASE RemoteCreate(c) \/ RemoteCreateFolder(c) \/ RemoteDelete(c) \/ RemoteMove(c)
  BY <1>5 DEF RemoteCreate, RemoteCreateFolder, RemoteDelete, RemoteMove, Answer
<1> QED BY <1>2, <1>3, <1>4, <1>5 DEF Serve

LEMMA ServeListing ==
  ASSUME EarlyOnlyAsk, ListingInv, TypeInv, NEW c \in Conns, Serve(c)
  PROVE  ListingInv'
<1>1. UNCHANGED <<ss_list, registering, to_list, written>>
  BY ServeLeaves
<1>2. Complete' = Complete
  BY <1>1 DEF Complete
<1>3. CASE Complete
  BY <1>1, <1>2, <1>3 DEF ListingInv, OnlyAskers, ListedSoFar, Complete
<1>4. CASE ~Complete
  <2>1. \A d \in Conns : Op[d] = "GET_SS_INFO" \/ Idle(d)
    BY <1>4 DEF ListingInv, OnlyAskers
  <2>2. Op[c] = "GET_SS_INFO"
    <3>1. ~Idle(c) \/ Starts(c)
      BY ServedOrStarts
    <3>2. Starts(c) => c \in Early
      BY <1>4 DEF Starts, Complete
    <3> QED BY <2>1, <3>1, <3>2 DEF EarlyOnlyAsk
  <2>3. UNCHANGED <<slots, file_count>>
    BY <2>2, AskersChangeNothing DEF TypeInv
  <2>4. \A d \in Conns \ {c} : pc'[d] = pc[d]
    BY ServesAlone DEF OnlyServes, OnlyMoves, TypeInv
  <2>5. OnlyAskers'
    BY <2>1, <2>2, <2>4 DEF OnlyAskers, Idle
  <2>6. ListedSoFar'
    BY <1>1, <2>3 DEF ListingInv, ListedSoFar
  <2> QED BY <2>5, <2>6 DEF ListingInv
<1> QED BY <1>3, <1>4

LEMMA RegisterListing ==
  ASSUME ListingInv, TypeInv, NEW s \in Servers, Register(s)
  PROVE  ListingInv'
<1>1. OnlyAskers'
  <2>1. ~Complete /\ UNCHANGED pc
    BY DEF Register, RegisterServer, ListFile, CountFile, EndRegistration, Complete
  <2> QED BY <2>1 DEF ListingInv, OnlyAskers, Idle
<1>2. PICK list : list = FileList[s]
  OBVIOUS
<1>3. PICK n \in Nat : n = Len(list) /\ list \in Seq(Listing)
  BY <1>2, LenProperties
<1>4. PICK k \in Nat : k = file_count[s] /\ k <= MaxFiles
  BY DEF TypeInv, Lists
<1>5. PICK l \in Nat : l = Len(to_list) /\ to_list \in Seq(Listing)
  BY LenProperties DEF TypeInv, Registers
<1>6. /\ slots \in [Servers -> [1 .. MaxFiles -> FileInfo \cup {Unused}]]
      /\ file_count \in [Servers -> 0 .. MaxFiles]
  BY DEF TypeInv, Lists
<1>7. ASSUME registering = {s}
      PROVE  /\ l = n - k
             /\ \A i \in 1 .. l : to_list[i] = list[k + i]
             /\ \A i \in 1 .. k : slots[s][i].filename = list[i].filename
             /\ written => slots[s][k + 1].filename = list[k + 1].filename
  BY <1>2, <1>3, <1>4, <1>5, <1>7 DEF ListingInv, ListedSoFar
<1>8. CASE RegisterServer(s)
  <2>1. /\ registering = {} /\ registering' = {s} /\ to_list' = list
        /\ file_count' = [file_count EXCEPT ![s] = 0] /\ UNCHANGED <<slots, written>>
    BY <1>2, <1>8 DEF RegisterServer
  <2>2. ~written /\ file_count'[s] = 0
    BY <1>6, <2>1 DEF TypeInv, Registers
  <2>3. ListedSoFar'
    <3> SUFFICES /\ n = n - 0
                 /\ \A i \in 1 .. n : list[i] = list[0 + i]
                 /\ \A i \in 1 .. 0 : slots[s][i].filename = list[i].filename
      BY <1>2, <1>3, <2>1, <2>2 DEF ListedSoFar
    <3> QED OBVIOUS
  <2> QED BY <1>1, <2>3 DEF ListingInv
<1>9. CASE ListFile(s)
  <2>1. PICK h : h = Head(to_list)
    OBVIOUS
  <2>2. PICK r : r = [filename |-> h.filename, owner |-> h.owner, ss_id |-> s]
    OBVIOUS
  <2>3. /\ registering = {s} /\ to_list # <<>> /\ k < MaxFiles
        /\ slots' = [slots EXCEPT ![s][k + 1] = r]
        /\ UNCHANGED <<registering, file_count, to_list>>
    BY <1>4, <1>9, <2>1, <2>2 DEF ListFile, RoomFor
  <2>4. k + 1 \in 1 .. MaxFiles
    BY <1>4, <2>3
  <2>5. slots'[s][k + 1] = r /\ \A i \in 1 .. k : slots'[s][i] = slots[s][i]
    <3>1. slots'[s] = [slots[s] EXCEPT ![k + 1] = r] /\ slots[s] \in [1 .. MaxFiles -> FileInfo \cup {Unused}]
      BY <1>6, <2>3
    <3>2. \A i \in 1 .. k : i \in 1 .. MaxFiles /\ i # k + 1
      BY <1>4
    <3> QED BY <2>4, <3>1, <3>2
  <2>6. h = list[k + 1]
    <3>1. l # 0
      BY <1>5, <2>3, EmptySeq
    <3>2. 1 \in 1 .. l
      BY <3>1
    <3>3. to_list[1] = list[k + 1]
      BY <1>7, <2>3, <3>2
    <3>4. h = to_list[1]
      BY <1>5, <2>1, <2>3
    <3> QED BY <3>3, <3>4
  <2>7. r.filename = list[k + 1].filename
    BY <2>2, <2>6
  <2>8. ListedSoFar'
    <3> SUFFICES /\ l = n - k
                 /\ \A i \in 1 .. l : to_list[i] = list[k + i]
                 /\ \A i \in 1 .. k : slots'[s][i].filename = list[i].filename
                 /\ slots'[s][k + 1].filename = list[k + 1].filename
      BY <1>2, <1>3, <1>4, <1>5, <2>3 DEF ListedSoFar
    <3> QED BY <1>7, <2>3, <2>5, <2>7
  <2> QED BY <1>1, <2>8 DEF ListingInv
<1>10. CASE CountFile(s)
  <2>1. /\ registering = {s} /\ written /\ to_list' = Tail(to_list) /\ written' = FALSE
        /\ file_count' = [file_count EXCEPT ![s] = k + 1] /\ UNCHANGED <<slots, registering>>
    BY <1>4, <1>10 DEF CountFile
  <2>2. to_list # <<>>
    BY <2>1 DEF TypeInv, Registers
  <2>3. PICK t : t = Tail(to_list)
    OBVIOUS
  <2>4. l # 0
    BY <1>5, <2>2, EmptySeq
  <2>5. Len(t) = l - 1 /\ \A i \in 1 .. l - 1 : t[i] = to_list[i + 1]
    BY <1>5, <2>2, <2>3, <2>4
  <2>6. file_count'[s] = k + 1
    BY <1>6, <2>1
  <2>7. \A i \in 1 .. l - 1 : t[i] = list[(k + 1) + i]
    <3> SUFFICES ASSUME NEW i \in 1 .. l - 1 PROVE t[i] = list[(k + 1) + i]
      OBVIOUS
    <3>1. i + 1 \in 1 .. l /\ k + (i + 1) = (k + 1) + i
      OBVIOUS
    <3> QED BY <1>7, <2>1, <2>5, <3>1
  <2>8. \A i \in 1 .. k + 1 : slots[s][i].filename = list[i].filename
    <3>1. \A i \in 1 .. k + 1 : i \in 1 .. k \/ i = k + 1
      OBVIOUS
    <3> QED BY <1>7, <2>1, <3>1
  <2>9. ListedSoFar'
    <3>1. l - 1 = n - (k + 1)
      BY <1>7, <2>1
    <3>2. /\ registering' = {s} /\ ~written' /\ to_list' = t /\ slots' = slots
          /\ Len(t) = l - 1 /\ Len(FileList[s]) = n /\ list = FileList[s]
      BY <1>2, <1>3, <2>1, <2>3, <2>5
    <3> QED BY ONLY <2>6, <2>7, <2>8, <3>1, <3>2 DEF ListedSoFar
  <2> QED BY <1>1, <2>9 DEF ListingInv
<1>11. CASE EndRegistration(s)
  BY <1>1, <1>11 DEF EndRegistration, ListingInv, ListedSoFar
<1> QED BY <1>8, <1>9, <1>10, <1>11 DEF Register

\* When the registration of a storage server ends all its files are listed, or its list is
\* full, however the steps of register_storage_server fall between those of the clients.
THEOREM RegistrationComplete == EarlyOnlyAsk /\ Spec => RegisteredFilesListed
<1> SUFFICES ASSUME EarlyOnlyAsk PROVE Spec => RegisteredFilesListed
  OBVIOUS
<1> DEFINE Ends == \A s \in registering :
             s \notin registering' =>
               \/ file_count'[s] = MaxFiles
               \/ \A i \in DOMAIN FileList[s] : FileList[s][i].filename \in Listed(s)'
<1>1. NoCreateMeanwhile
  BY DEF NoCreateMeanwhile, EarlyOnlyAsk, Creates
<1>2. Spec => []TypeInv
  BY <1>1, TypeInvHolds
<1>3. Init => ListingInv
  BY DEF Init, ListingInv, OnlyAskers, ListedSoFar, Idle
<1>4. ListingInv /\ TypeInv /\ [Next]_vars => ListingInv'
  <2> SUFFICES ASSUME ListingInv, TypeInv, [Next]_vars PROVE ListingInv'
    OBVIOUS
  <2>1. ASSUME UNCHANGED <<slots, file_count, ss_list, registering, to_list, written, pc>>
        PROVE  ListingInv'
    BY <2>1 DEF ListingInv, OnlyAskers, ListedSoFar, Complete, Idle
  <2>2. ASSUME NEW k \in CacheSlots, Expire(k) PROVE ListingInv'
    BY <2>1, <2>2 DEF Expire
  <2>3. CASE UNCHANGED vars
    BY <2>1, <2>3 DEF vars
  <2>4. ASSUME NEW s \in Servers, Register(s) PROVE ListingInv'
    BY <2>4, RegisterListing
  <2>5. ASSUME NEW c \in Conns, Serve(c) PROVE ListingInv'
    BY <2>5, ServeListing
  <2> QED BY <2>2, <2>3, <2>4, <2>5 DEF Next, Done
<1>5. ListingInv /\ TypeInv /\ [Next]_vars => [Ends]_vars
  <2> SUFFICES ASSUME ListingInv, TypeInv, Next, NEW s \in registering, s \notin registering'
               PROVE  \/ file_count'[s] = MaxFiles
                      \/ \A i \in DOMAIN FileList[s] : FileList[s][i].filename \in Listed(s)'
    OBVIOUS
  <2>1. s \in Servers
    BY DEF TypeInv, Registers
  <2>2. \E t \in Servers : EndRegistration(t)
    <3>1. \A c \in Conns : Serve(c) => UNCHANGED registering
      BY ServeLeaves
    <3>2. \A k \in CacheSlots : Expire(k) => UNCHANGED registering
      BY DEF Expire
    <3>3. Done => UNCHANGED registering
      BY DEF Done, vars
    <3>4. \A t \in Servers : Register(t) => EndRegistration(t)
      BY DEF Register, RegisterServer, ListFile, CountFile
    <3> QED BY <3>1, <3>2, <3>3, <3>4 DEF Next
  <2>3. /\ UNCHANGED <<slots, file_count>>
        /\ to_list = <<>> \/ ~RoomFor(s)
    BY <2>2 DEF EndRegistration, AllListed
  <2>4. PICK k \in Nat : k = file_count[s] /\ k <= MaxFiles
    BY <2>1 DEF TypeInv, Lists
  <2>5. CASE ~RoomFor(s)
    BY <2>3, <2>4, <2>5 DEF RoomFor
  <2>6. CASE to_list = <<>>
    <3>1. PICK n \in Nat : n = Len(FileList[s]) /\ DOMAIN FileList[s] = 1 .. n
      <4>1. FileList[s] \in Seq(Listing)
        BY <2>1
      <4> QED BY <4>1, LenProperties
    <3>2. Len(to_list) = n - k /\ \A i \in 1 .. k : slots[s][i].filename = FileList[s][i].filename
      BY <2>4, <3>1 DEF ListingInv, ListedSoFar
    <3>3. n = k
      BY <2>6, <3>2
    <3>4. \A i \in 1 .. n : FileList[s][i].filename \in Listed(s)
      BY <2>4, <3>2, <3>3 DEF Listed
    <3>5. Listed(s)' = Listed(s)
      BY <2>3 DEF Listed
    <3> QED BY <3>1, <3>4, <3>5
  <2> QED BY <2>3, <2>5, <2>6
<1>6. RegisteredFilesListed <=> [][Ends]_vars
  BY DEF RegisteredFilesListed
<1> HIDE DEF Ends
<1> QED BY <1>2, <1>3, <1>4, <1>5, <1>6, PTL DEF Spec

-----------------------------------------------------------------------------
(***************************************************************************)
(* Locations: whatever a client can be told was true until the file was    *)
(* removed, however the requests overlap.                                  *)
(***************************************************************************)

\* A FileInfo that has been used names the server whose list it is on.
SlotsKnowServer ==
  \A s \in Servers : \A i \in 1 .. MaxFiles : slots[s][i] \in FileInfo => slots[s][i].ss_id = s

NodesLead ==
  \A i \in DOMAIN nodes : \E s \in Servers : s = nodes[i].file_ptr.ss /\ Leads(s, nodes[i].filename)

\* The pointer that find_file gave to c, while c uses it.
PointersLead ==
  \A c \in Conns : pc[c] \in {"owner", "cache", "locate"} =>
    \E s \in Servers : s = ptr[c].ss /\ Leads(s, NameOf[c])

EntriesLead ==
  \A k \in CacheSlots : entries[k] # NoEntry =>
    \E s \in Servers : s = entries[k].ss_id /\ Leads(s, entries[k].filename)

AnswersLead ==
  \A c \in Conns : Op[c] = "GET_SS_INFO" /\ reply[c] = "SUCCESS" =>
    \E s \in Servers : s = ss_id[c] /\ Leads(s, NameOf[c])

\* A handler that goes on after its call has an answer to it.
Answered == \A c \in Conns : pc[c] = "answer" => ss_reply[c] # "none"

StaleInv == SlotsKnowServer /\ NodesLead /\ PointersLead /\ EntriesLead /\ AnswersLead /\ Answered

\* What a used slot says about its server is where it is.
LEMMA LiveKnows ==
  ASSUME SlotsKnowServer, NEW p \in Live
  PROVE  p.ss \in Servers /\ Deref(p).ss_id = p.ss
<1>1. p.ss \in Servers /\ p.slot \in 1 .. MaxFiles /\ slots[p.ss][p.slot] \in FileInfo
  BY DEF Live, Pointer, Deref
<1> QED BY <1>1 DEF SlotsKnowServer, Deref

\* The nodes after a step are old ones and one of a name that is on the list it leads to.
Renoded ==
  \A i \in DOMAIN nodes' :
    \/ \E j \in DOMAIN nodes : nodes'[i] = nodes[j]
    \/ \E s \in Servers : s = nodes'[i].file_ptr.ss /\ nodes'[i].filename \in Listed(s)'

\* A new name gets a slot that knows its server and a node that leads there.
LEMMA AddTables ==
  ASSUME SlotsKnowServer, Lists, ListType, OneEntryPerServer,
         NEW s \in Servers, NEW n \in Paths, NEW u \in Users, add_file_to_server(s, n, u)
  PROVE  SlotsKnowServer' /\ Renoded /\ \A t \in Servers : Listed(t) \subseteq Listed(t)'
<1>1. CASE AddResult(s, n) # "SUCCESS"
  BY <1>1 DEF add_file_to_server, SlotsKnowServer, Renoded, Listed
<1>2. CASE AddResult(s, n) = "SUCCESS"
  <2>1. ListType /\ OneEntryPerServer /\ add_file_to_server(s, n, u)
    OBVIOUS
  <2>2. ASSUME NEW t \in Servers
        PROVE  \A m : m \in Listed(t)' <=> \/ m \in Listed(t)
                                           \/ t = s /\ m = n /\ AddResult(s, n) = "SUCCESS"
    BY ONLY <2>1, SizeAssumption, AddListed, s \in Servers, n \in Paths, u \in Users, t \in Servers
  <2>4. PICK k : k = file_count[s] + 1
    OBVIOUS
  <2>5. /\ slots' = [slots EXCEPT ![s][k] = [filename |-> n, owner |-> u, ss_id |-> s]]
        /\ nodes' = Inserted(n, [ss |-> s, slot |-> k])
    BY <1>2, <2>4 DEF add_file_to_server
  <2>6. PICK new : new = [filename |-> n, owner |-> u, ss_id |-> s]
    OBVIOUS
  <2>7. slots' = [slots EXCEPT ![s][k] = new] /\ new.ss_id = s
    BY <2>5, <2>6
  <2>8. \A t \in Servers : \A i \in 1 .. MaxFiles :
          slots'[t][i] = IF t = s /\ i = k THEN new ELSE slots[t][i]
    BY <2>7 DEF Lists
  <2>9. SlotsKnowServer'
    BY <2>7, <2>8 DEF SlotsKnowServer
  <2>10. PICK p : p = [ss |-> s, slot |-> k]
    OBVIOUS
  <2>11. PICK r : r = [filename |-> n, file_ptr |-> p]
    OBVIOUS
  <2>12. r.filename = n /\ r.file_ptr.ss = s
    BY <2>10, <2>11
  <2>13. PICK T : T = Node \cup {r}
    OBVIOUS
  <2>14. nodes \in Seq(T)
    <3>1. nodes \in Seq(Node) /\ Node \subseteq T
      BY <2>13 DEF Lists
    <3> QED BY <3>1, SeqMonotonic
  <2>15. nodes' = Inserted(n, p)
    BY <2>5, <2>10
  <2>16. /\ nodes' \in Seq(T) /\ Len(nodes') = Len(nodes) + 1 /\ nodes'[1] = r
         /\ \A i \in 1 .. Len(nodes) : nodes'[i + 1] = nodes[i]
    <3>1. [filename |-> n, file_ptr |-> p] \in T
      BY <2>11, <2>13
    <3> QED BY <2>11, <2>14, <2>15, <3>1, NodeAdded
  <2>17. /\ DOMAIN nodes' = 1 .. Len(nodes) + 1 /\ Len(nodes) \in Nat
         /\ DOMAIN nodes = 1 .. Len(nodes)
    BY <2>14, <2>16, LenProperties
  <2>18. Renoded
    <3> SUFFICES ASSUME NEW i \in DOMAIN nodes'
                 PROVE  \/ \E j \in DOMAIN nodes : nodes'[i] = nodes[j]
                        \/ \E t \in Servers : t = nodes'[i].file_ptr.ss /\ nodes'[i].filename \in Listed(t)'
      BY DEF Renoded
    <3>1. CASE i = 1
      BY <1>2, <2>2, <2>12, <2>16, <3>1
    <3>2. CASE i # 1
      <4>1. i - 1 \in 1 .. Len(nodes) /\ (i - 1) + 1 = i
        BY <2>17, <3>2
      <4>2. i - 1 \in DOMAIN nodes /\ nodes'[i] = nodes[i - 1]
        BY <2>16, <2>17, <4>1
      <4> QED BY <4>2
    <3> QED BY <3>1, <3>2
  <2> QED BY <2>2, <2>9, <2>18
<1> QED BY <1>1, <1>2

\* Removal of a name takes one node away and moves slots within one list.
LEMMA RemoveTables ==
  ASSUME SlotsKnowServer, Lists, ListType, OneEntryPerServer,
         NEW s \in Servers, NEW n \in Paths, remove_file_from_server(s, n)
  PROVE  /\ SlotsKnowServer' /\ Renoded
         /\ \A t \in Servers : \A m \in Listed(t) : m \in Listed(t)' \/ (t = s /\ m = n)
<1>1. CASE SlotOf(s, n) = 0
  BY <1>1 DEF remove_file_from_server, SlotsKnowServer, Renoded, Listed
<1>2. CASE SlotOf(s, n) # 0
  <2>1. ListType /\ OneEntryPerServer /\ remove_file_from_server(s, n)
    OBVIOUS
  <2>2. ASSUME NEW t \in Servers
        PROVE  \A m : m \in Listed(t)' <=> m \in Listed(t) /\ ~(t = s /\ m = n)
    BY ONLY <2>1, SizeAssumption, RemoveListed, t \in Servers
  <2>4. PICK k, count : k = SlotOf(s, n) /\ count = file_count[s]
    OBVIOUS
  <2>5. k \in 1 .. count /\ count \in 0 .. MaxFiles /\ slots[s][k].filename = n
    BY <1>2, <2>4, SlotFound DEF ListType
  <2>6. slots' = [slots EXCEPT ![s] = Shifted(slots[s], k, count)]
    BY <1>2, <2>4 DEF remove_file_from_server
  <2>7. \A t \in Servers : \A i \in 1 .. MaxFiles :
          \E j \in 1 .. MaxFiles : slots'[t][i] = slots[t][j]
    <3> SUFFICES ASSUME NEW t \in Servers, NEW i \in 1 .. MaxFiles
                 PROVE  \E j \in 1 .. MaxFiles : slots'[t][i] = slots[t][j]
      OBVIOUS
    <3>1. CASE t # s
      BY <2>6, <3>1 DEF Lists
    <3>2. CASE t = s
      <4>1. slots'[t][i] = slots[t][IF k <= i /\ i < count THEN i + 1 ELSE i]
        BY <2>6, <3>2 DEF Lists, Shifted
      <4>2. (IF k <= i /\ i < count THEN i + 1 ELSE i) \in 1 .. MaxFiles
        BY <2>5
      <4> QED BY <4>1, <4>2
    <3> QED BY <3>1, <3>2
  <2>8. SlotsKnowServer'
    <3> SUFFICES ASSUME NEW t \in Servers, NEW i \in 1 .. MaxFiles, slots'[t][i] \in FileInfo
                 PROVE  slots'[t][i].ss_id = t
      BY DEF SlotsKnowServer
    <3>1. PICK j \in 1 .. MaxFiles : slots'[t][i] = slots[t][j]
      BY <2>7
    <3> QED BY <3>1 DEF SlotsKnowServer
  <2>9. \A i \in DOMAIN nodes' : \E j \in DOMAIN nodes : nodes'[i] = nodes[j]
    <3>1. PICK T : T = Node
      OBVIOUS
    <3>2. nodes \in Seq(T)
      BY <3>1 DEF Lists
    <3>3. nodes' = hash_remove_file(n)
      BY <1>2 DEF remove_file_from_server
    <3>4. CASE \E i \in 1 .. Len(nodes) : nodes[i].filename = n
      <4>1. PICK i \in 1 .. Len(nodes) : nodes' = RemoveAt(nodes, i)
        BY <3>2, <3>3, <3>4, RemoveNamedProperties DEF hash_remove_file
      <4>2. /\ nodes' \in Seq(T) /\ Len(nodes') = Len(nodes) - 1
            /\ \A j \in 1 .. Len(nodes) - 1 : nodes'[j] = IF j < i THEN nodes[j] ELSE nodes[j + 1]
        <5>1. PICK r : r = RemoveAt(nodes, i)
          OBVIOUS
        <5>2. /\ r \in Seq(T) /\ Len(r) = Len(nodes) - 1
              /\ \A j \in 1 .. Len(nodes) - 1 : r[j] = IF j < i THEN nodes[j] ELSE nodes[j + 1]
          BY ONLY <3>2, <5>1, i \in 1 .. Len(nodes), RemoveAtProperties
        <5> QED BY ONLY <4>1, <5>1, <5>2
      <4>3. DOMAIN nodes' = 1 .. Len(nodes) - 1 /\ DOMAIN nodes = 1 .. Len(nodes) /\ Len(nodes) \in Nat
        BY <3>2, <4>2, LenProperties
      <4>4. \A j \in 1 .. Len(nodes) - 1 : j \in 1 .. Len(nodes) /\ j + 1 \in 1 .. Len(nodes)
        BY <4>3
      <4> QED BY <4>2, <4>3, <4>4
    <3>5. CASE ~ \E i \in 1 .. Len(nodes) : nodes[i].filename = n
      BY <3>3, <3>5 DEF hash_remove_file, RemoveFirstMatch
    <3> QED BY <3>4, <3>5
  <2> QED BY <2>2, <2>8, <2>9 DEF Renoded
<1> QED BY <1>1, <1>2

\* A step of c removes nothing but its own file from the server it works with.
LEMMA ServeTables ==
  ASSUME AllRegisteredNoMove, SlotsKnowServer, TypeInv, GhostInv, NEW c \in Conns, Serve(c)
  PROVE  /\ SlotsKnowServer' /\ Renoded
         /\ \A t \in Servers : \A m \in Listed(t) :
              \/ m \in Listed(t)'
              \/ t = ss_id[c] /\ m = NameOf[c] /\ FinishDelete(c) /\ ss_reply[c] = "SUCCESS"
              \/ t = ss_id[c] /\ m = NameOf[c] /\ FinishCreate(c) /\ ss_reply[c] # "SUCCESS"
<1>1. /\ Lists /\ Places /\ ListType /\ OneEntryPerServer
      /\ NameOf[c] \in Paths /\ UserOf[c] \in Users /\ Op[c] # "MOVE"
  BY DEF TypeInv, GhostInv, AllRegisteredNoMove
<1>2. CASE UNCHANGED <<slots, file_count, nodes>>
  BY <1>2 DEF SlotsKnowServer, Renoded, Listed
<1>3. PICK s, n, u : s = ss_id[c] /\ n = NameOf[c] /\ u = UserOf[c]
  OBVIOUS
<1>4. ASSUME pc[c] \in {"add", "answer"}, add_file_to_server(s, n, u)
      PROVE  SlotsKnowServer' /\ Renoded /\ \A t \in Servers : Listed(t) \subseteq Listed(t)'
  <2>1. s \in Servers /\ n \in Paths /\ u \in Users
    BY <1>1, <1>3, <1>4 DEF Places
  <2> QED BY <1>1, <1>4, <2>1, AddTables
<1>5. ASSUME pc[c] = "answer", remove_file_from_server(s, n)
      PROVE  /\ SlotsKnowServer' /\ Renoded
             /\ \A t \in Servers : \A m \in Listed(t) : m \in Listed(t)' \/ (t = s /\ m = n)
  <2>1. s \in Servers /\ n \in Paths
    BY <1>1, <1>3, <1>5 DEF Places
  <2> QED BY <1>1, <1>5, <2>1, RemoveTables
<1>6. CASE RecordFile(c)
  <2>1. pc[c] = "add" /\ add_file_to_server(s, n, u)
    BY <1>3, <1>6 DEF RecordFile
  <2> QED BY <1>4, <2>1
<1>7. CASE FinishCreateFolder(c)
  <2>1. pc[c] = "answer" /\ (UNCHANGED <<slots, file_count, nodes>> \/ add_file_to_server(s, n, u))
    BY <1>3, <1>7 DEF FinishCreateFolder
  <2> QED BY <1>2, <1>4, <2>1
<1>8. CASE FinishCreate(c)
  <2>1. CASE ss_reply[c] = "SUCCESS"
    BY <1>2, <1>8, <2>1 DEF FinishCreate
  <2>2. CASE ss_reply[c] # "SUCCESS"
    <3>1. pc[c] = "answer" /\ remove_file_from_server(s, n)
      BY <1>3, <1>8, <2>2 DEF FinishCreate, RollBack
    <3> QED BY <1>3, <1>5, <1>8, <2>2, <3>1
  <2> QED BY <2>1, <2>2
<1>9. CASE FinishDelete(c)
  <2>1. CASE ss_reply[c] # "SUCCESS"
    BY <1>2, <1>9, <2>1 DEF FinishDelete
  <2>2. CASE ss_reply[c] = "SUCCESS"
    <3>1. pc[c] = "answer" /\ remove_file_from_server(s, n)
      BY <1>3, <1>9, <2>2 DEF FinishDelete
    <3> QED BY <1>3, <1>5, <1>9, <2>2, <3>1
  <2> QED BY <2>1, <2>2
<1>10. ~FinishMove(c) /\ ~RenameFile(c) /\ ~InsertMoved(c)
  BY <1>1 DEF FinishMove, RenameFile, InsertMoved, Places
<1>11. CASE \/ CheckNew(c)
            \/ AssignServer(c)
            \/ AdvanceIndex(c)
            \/ FindTarget(c)
            \/ CheckOwner(c)
            \/ CallFails(c)
            \/ ForgetLocation(c)
            \/ ForgetAll(c)
            \/ LookupCache(c)
            \/ FindFile(c)
            \/ CacheLocation(c)
            \/ AnswerLocation(c)
  BY <1>2, <1>11 DEF CheckNew, AssignServer, AdvanceIndex, FindTarget, CheckOwner, CallFails,
     ForgetLocation, ForgetAll, LookupCache, FindFile, CacheLocation, AnswerLocation
<1>12. CASE RemoteCreate(c) \/ RemoteCreateFolder(c) \/ RemoteDelete(c) \/ RemoteMove(c)
  BY <1>2, <1>12 DEF RemoteCreate, RemoteCreateFolder, RemoteDelete, RemoteMove, Answer
<1> QED BY <1>6, <1>7, <1>8, <1>9, <1>10, <1>11, <1>12 DEF Serve

\* A file that has been removed stays known as removed, and one that goes off a list
\* becomes known as removed.
LEMMA LeadsStay ==
  ASSUME AllRegisteredNoMove, SlotsKnowServer, Answered, TypeInv, GhostInv, NEW c \in Conns, Serve(c),
         NEW s \in Servers, NEW n, Leads(s, n)
  PROVE  Leads(s, n)'
<1>1. Threads /\ StepsFit /\ OnlyServes(c)
  BY ServesAlone DEF TypeInv, GhostInv, ControlFits
<1>2. pc \in [Conns -> PCs] /\ reply \in [Conns -> Replies]
  BY <1>1 DEF Threads
<1>3. pc[c] # "done" /\ reply[c] = "none"
  BY <1>1, ServedOrStarts DEF Idle, Starts, StepsFit
<1>4. CASE Removed(s, n)
  <2>1. PICK e \in Conns : /\ NameOf[e] = n /\ ss_id[e] = s
                           /\ \/ Op[e] = "DELETE" /\ (pc[e] = "invalidate" \/ reply[e] = "SUCCESS")
                              \/ Op[e] = "CREATE" /\ pc[e] = "done" /\ ss_reply[e] # "none" /\ reply[e] # "SUCCESS"
    BY <1>4 DEF Removed
  <2>2. CASE e # c
    <3>1. pc'[e] = pc[e] /\ reply'[e] = reply[e] /\ ss_id'[e] = ss_id[e] /\ ss_reply'[e] = ss_reply[e]
      BY <1>1, <2>2 DEF OnlyServes, OnlyMoves
    <3> QED BY <2>1, <3>1 DEF Leads, Removed
  <2>3. CASE e = c
    <3>1. Op[c] = "DELETE" /\ pc[c] = "invalidate"
      BY <1>3, <2>1, <2>3
    <3>2. ForgetLocation(c)
      BY <3>1 DEF Serve, CheckNew, AssignServer, AdvanceIndex, RecordFile, FindTarget, CheckOwner, RemoteCreate,
       RemoteCreateFolder, RemoteDelete, RemoteMove, CallFails, FinishCreate, FinishCreateFolder,
       FinishDelete, ForgetLocation, FinishMove, RenameFile, InsertMoved, ForgetAll, LookupCache,
       FindFile, CacheLocation, AnswerLocation, Starts
    <3>3. reply'[c] = "SUCCESS" /\ ss_id'[c] = ss_id[c]
      BY <1>2, <3>2 DEF ForgetLocation, Finish
    <3> QED BY <2>1, <2>3, <3>1, <3>3 DEF Leads, Removed
  <2> QED BY <2>2, <2>3
<1>5. CASE n \in Listed(s)
  <2>1. \/ n \in Listed(s)'
        \/ s = ss_id[c] /\ n = NameOf[c] /\ FinishDelete(c) /\ ss_reply[c] = "SUCCESS"
        \/ s = ss_id[c] /\ n = NameOf[c] /\ FinishCreate(c) /\ ss_reply[c] # "SUCCESS"
    BY <1>5, ServeTables
  <2>2. CASE s = ss_id[c] /\ n = NameOf[c] /\ FinishDelete(c) /\ ss_reply[c] = "SUCCESS"
    <3>1. Op[c] = "DELETE" /\ pc'[c] = "invalidate" /\ ss_id' = ss_id
      BY <1>2, <2>2 DEF FinishDelete, Goto
    <3> QED BY <2>2, <3>1 DEF Leads, Removed
  <2>3. CASE s = ss_id[c] /\ n = NameOf[c] /\ FinishCreate(c) /\ ss_reply[c] # "SUCCESS"
    <3>1. /\ Op[c] = "CREATE" /\ pc'[c] = "done" /\ ss_id' = ss_id /\ ss_reply' = ss_reply
          /\ reply'[c] = ss_reply[c] /\ ss_reply[c] # "none"
      BY <1>2, <2>3 DEF FinishCreate, Finish, Answered
    <3> QED BY <2>3, <3>1 DEF Leads, Removed
  <2> QED BY <2>1, <2>2, <2>3 DEF Leads
<1> QED BY <1>4, <1>5 DEF Leads

LEMMA ServeStale ==
  ASSUME AllRegisteredNoMove, StaleInv, TypeInv, GhostInv, NEW c \in Conns, Serve(c)
  PROVE  StaleInv'
<1>1. /\ Threads /\ Places /\ Lists /\ Stores /\ StepsFit /\ OnlyServes(c)
      /\ SlotsKnowServer /\ NodesLead /\ PointersLead /\ EntriesLead /\ AnswersLead /\ Answered
      /\ NameOf[c] \in Paths /\ CacheSlot[NameOf[c]] \in CacheSlots
  BY ServesAlone DEF TypeInv, GhostInv, ControlFits, StaleInv
<1>2. /\ pc \in [Conns -> PCs] /\ reply \in [Conns -> Replies] /\ ss_reply \in [Conns -> Replies]
      /\ ptr \in [Conns -> Live \cup {NoPtr}] /\ ss_id \in [Conns -> Servers \cup {NoServer}]
  BY <1>1 DEF Threads
<1>3. pc[c] # "done" /\ reply[c] = "none"
  BY <1>1, ServedOrStarts DEF Idle, Starts, StepsFit
<1>4. \A s \in Servers : \A n : Leads(s, n) => Leads(s, n)'
  BY <1>1, LeadsStay
<1>5. /\ SlotsKnowServer' /\ Renoded
  BY <1>1, ServeTables
<1>6. NodesLead'
  <2> SUFFICES ASSUME NEW i \in DOMAIN nodes'
               PROVE  \E s \in Servers : s = nodes'[i].file_ptr.ss /\ Leads(s, nodes[i].filename)'
    BY DEF NodesLead
  <2>1. CASE \E j \in DOMAIN nodes : nodes'[i] = nodes[j]
    <3>1. PICK j \in DOMAIN nodes : nodes'[i] = nodes[j]
      BY <2>1
    <3>2. PICK s \in Servers : s = nodes[j].file_ptr.ss /\ Leads(s, nodes[j].filename)
      BY <1>1 DEF NodesLead
    <3>3. PICK n : n = nodes[j].filename /\ n = nodes'[i].filename
      BY <3>1
    <3>4. Leads(s, n)'
      BY <1>4, <3>2, <3>3
    <3> QED BY <3>1, <3>2, <3>3, <3>4 DEF Leads, Removed
  <2>2. CASE \E s \in Servers : s = nodes'[i].file_ptr.ss /\ nodes'[i].filename \in Listed(s)'
    BY <2>2 DEF Leads
  <2> QED BY <1>5, <2>1, <2>2 DEF Renoded
\* The pointers.
<1>7. ASSUME find_file(NameOf[c]) # NoPtr
      PROVE  \E s \in Servers : s = find_file(NameOf[c]).ss /\ Leads(s, NameOf[c])
  <2>1. PICK i \in DOMAIN nodes : nodes[i].filename = NameOf[c] /\ nodes[i].file_ptr = find_file(NameOf[c])
    BY <1>1, <1>7, FoundNode DEF Lists
  <2> QED BY <1>1, <2>1 DEF NodesLead
<1>8. PointersLead'
  <2> SUFFICES ASSUME NEW e \in Conns, pc'[e] \in {"owner", "cache", "locate"}
               PROVE  \E s \in Servers : s = ptr'[e].ss /\ Leads(s, NameOf[e])'
    BY DEF PointersLead
  <2>1. CASE e # c
    <3>1. ptr' = ptr \/ \E p : ptr' = [ptr EXCEPT ![c] = p]
      BY DEF Serve, CheckNew, AssignServer, AdvanceIndex, RecordFile, FindTarget, CheckOwner,
         RemoteCreate, RemoteCreateFolder, RemoteDelete, RemoteMove, CallFails, FinishCreate,
         FinishCreateFolder, FinishDelete, ForgetLocation, FinishMove, RenameFile,
         InsertMoved, ForgetAll, LookupCache, FindFile, CacheLocation, AnswerLocation, Answer
    <3>2. pc'[e] = pc[e] /\ ptr'[e] = ptr[e]
      BY <1>1, <1>2, <2>1, <3>1 DEF OnlyServes, OnlyMoves
    <3>3. PICK s \in Servers : s = ptr[e].ss /\ Leads(s, NameOf[e])
      BY <1>1, <3>2 DEF PointersLead
    <3> QED BY <1>4, <3>2, <3>3
  <2>2. CASE e = c
    <3>1. FindTarget(c) \/ FindFile(c) \/ CacheLocation(c)
      BY <1>2, <2>2 DEF Serve, CheckNew, AssignServer, AdvanceIndex, RecordFile, CheckOwner, RemoteCreate,
         RemoteCreateFolder, RemoteDelete, RemoteMove, CallFails, FinishCreate,
         FinishCreateFolder, FinishDelete, ForgetLocation, FinishMove, RenameFile,
         InsertMoved, ForgetAll, LookupCache, AnswerLocation,
         Answer, Goto, Finish
    <3>2. CASE FindTarget(c) \/ FindFile(c)
      <4>1. find_file(NameOf[c]) # NoPtr /\ ptr'[c] = find_file(NameOf[c])
        BY <1>2, <2>2, <3>2 DEF FindTarget, FindFile, Finish
      <4> QED BY <1>4, <1>7, <2>2, <4>1
    <3>3. CASE CacheLocation(c)
      <4>1. pc[c] = "cache" /\ ptr' = ptr
        BY <3>3 DEF CacheLocation
      <4>2. PICK s \in Servers : s = ptr[c].ss /\ Leads(s, NameOf[c])
        BY <1>1, <4>1 DEF PointersLead
      <4> QED BY <1>4, <2>2, <4>1, <4>2
    <3> QED BY <3>1, <3>2, <3>3
  <2> QED BY <2>1, <2>2
\* What c reads through its pointer.
<1>9. ASSUME pc[c] \in {"cache", "locate"}
      PROVE  \E s \in Servers : s = Deref(ptr[c]).ss_id /\ Leads(s, NameOf[c])
  <2>1. ptr[c] \in Live
    BY <1>1, <1>2, <1>9 DEF Places
  <2>2. Deref(ptr[c]).ss_id = ptr[c].ss
    BY <1>1, <2>1, LiveKnows
  <2> QED BY <1>1, <1>9, <2>2 DEF PointersLead
<1>10. entries \in [CacheSlots -> Entry \cup {NoEntry}]
  BY <1>1 DEF Stores, Entry
<1>11. EntriesLead'
  <2> SUFFICES ASSUME NEW k \in CacheSlots, entries'[k] # NoEntry
               PROVE  \E s \in Servers : s = entries'[k].ss_id /\ Leads(s, entries[k].filename)'
    BY DEF EntriesLead
  <2>1. CASE entries'[k] = entries[k]
    <3>1. PICK s \in Servers : s = entries[k].ss_id /\ Leads(s, entries[k].filename)
      BY <1>1, <2>1 DEF EntriesLead
    <3>2. PICK n : n = entries[k].filename /\ n = entries'[k].filename
      BY <2>1
    <3>3. Leads(s, n)'
      BY <1>4, <3>1, <3>2
    <3> QED BY <2>1, <3>1, <3>2, <3>3
  <2>2. CASE CacheLocation(c) /\ k = CacheSlot[NameOf[c]]
    <3>1. PICK s \in Servers : s = Deref(ptr[c]).ss_id /\ Leads(s, NameOf[c])
      BY <1>9, <2>2 DEF CacheLocation
    <3>2. entries'[k] = [filename |-> NameOf[c], ss_id |-> s, expired |-> FALSE]
      BY <1>10, <2>2, <3>1 DEF CacheLocation, cache_insert
    <3>3. entries'[k].ss_id = s /\ entries'[k].filename = NameOf[c]
      BY <3>2
    <3>4. Leads(s, NameOf[c])'
      BY <1>4, <3>1
    <3> QED BY <3>3, <3>4
  <2>3. CASE ~(CacheLocation(c) /\ k = CacheSlot[NameOf[c]])
    <3>1. CASE CacheLocation(c)
      BY <1>10, <2>1, <2>3, <3>1 DEF CacheLocation, cache_insert
    <3>2. CASE ForgetLocation(c) \/ LookupCache(c) \/ ForgetAll(c)
      <4>1. entries' = entries \/ entries' = cache_invalidate(NameOf[c]) \/ entries' = cache_clear
        BY <3>2 DEF ForgetLocation, LookupCache, ForgetAll
      <4>2. entries'[k] = entries[k] \/ entries'[k] = NoEntry
        BY <1>10, <4>1 DEF cache_invalidate, cache_clear
      <4> QED BY <2>1, <4>2
    <3>3. CASE ~(CacheLocation(c) \/ ForgetLocation(c) \/ LookupCache(c) \/ ForgetAll(c))
      <4>1. entries' = entries
        BY <3>3 DEF Serve, CheckNew, AssignServer, AdvanceIndex, RecordFile, FindTarget, CheckOwner,
           RemoteCreate, RemoteCreateFolder, RemoteDelete, RemoteMove, CallFails, FinishCreate,
           FinishCreateFolder, FinishDelete, FinishMove, RenameFile, InsertMoved, FindFile,
           AnswerLocation, Answer
      <4> QED BY <2>1, <4>1
    <3> QED BY <3>1, <3>2, <3>3
  <2> QED BY <2>2, <2>3
<1>12. AnswersLead'
  <2> SUFFICES ASSUME NEW e \in Conns, Op[e] = "GET_SS_INFO", reply'[e] = "SUCCESS"
               PROVE  \E s \in Servers : s = ss_id'[e] /\ Leads(s, NameOf[e])'
    BY DEF AnswersLead
  <2>1. CASE e # c
    <3>1. reply'[e] = reply[e] /\ ss_id'[e] = ss_id[e]
      BY <1>1, <2>1 DEF OnlyServes, OnlyMoves
    <3>2. PICK s \in Servers : s = ss_id[e] /\ Leads(s, NameOf[e])
      BY <1>1, <3>1 DEF AnswersLead
    <3> QED BY <1>4, <3>1, <3>2
  <2>2. CASE e = c
    <3>1. Op[c] = "GET_SS_INFO" /\ reply'[c] = "SUCCESS"
      BY <2>2
    <3>2. pc[c] # "invalidate" /\ pc[c] # "clear" /\ pc[c] # "assign" /\ pc[c] # "add"
      BY <1>1, <3>1 DEF StepsFit
    <3>3. LookupCache(c) \/ AnswerLocation(c)
      BY <1>2, <1>3, <3>1, <3>2 DEF Serve, CheckNew, AssignServer, AdvanceIndex, RecordFile, FindTarget, CheckOwner,
         RemoteCreate, RemoteCreateFolder, RemoteDelete, RemoteMove, CallFails, FinishCreate,
         FinishCreateFolder, FinishDelete, ForgetLocation, FinishMove, RenameFile,
         InsertMoved, ForgetAll, FindFile, CacheLocation,
         Answer, Goto, Finish
    <3>4. CASE AnswerLocation(c)
      <4>1. pc[c] = "locate" /\ ss_id'[c] = Deref(ptr[c]).ss_id
        BY <1>2, <3>4 DEF AnswerLocation
      <4> QED BY <1>4, <1>9, <2>2, <4>1
    <3>5. CASE LookupCache(c)
      <4>1. PICK k \in CacheSlots : k = CacheSlot[NameOf[c]]
        BY <1>1
      <4>2. entries[k].filename = NameOf[c] /\ ss_id'[c] = entries[k].ss_id
        BY <1>2, <1>3, <3>1, <3>5, <4>1 DEF LookupCache, EntryMatches, Goto
      <4>3. entries[k] # NoEntry
        BY <1>1, <4>2 DEF NoEntry
      <4>4. PICK s \in Servers : s = entries[k].ss_id /\ Leads(s, entries[k].filename)
        BY <1>1, <4>3 DEF EntriesLead
      <4>5. Leads(s, NameOf[c])'
        BY <1>4, <4>2, <4>4
      <4> QED BY <2>2, <4>2, <4>4, <4>5
    <3> QED BY <3>3, <3>4, <3>5
  <2> QED BY <2>1, <2>2
<1>13. Answered'
  <2> SUFFICES ASSUME NEW e \in Conns, pc'[e] = "answer" PROVE ss_reply'[e] # "none"
    BY DEF Answered
  <2>1. CASE e # c
    BY <1>1, <2>1 DEF OnlyServes, OnlyMoves, Answered
  <2>2. CASE e = c
    <3>1. RemoteCreate(c) \/ RemoteCreateFolder(c) \/ RemoteDelete(c) \/ RemoteMove(c) \/ CallFails(c)
      BY <1>2, <2>2 DEF Serve, CheckNew, AssignServer, AdvanceIndex, RecordFile, FindTarget, CheckOwner,
         FinishCreate, FinishCreateFolder, FinishDelete, ForgetLocation, FinishMove,
         RenameFile, InsertMoved, ForgetAll, LookupCache, FindFile, CacheLocation,
         AnswerLocation,
         Goto, Finish
    <3>2. \E code \in {"SUCCESS", "SERVER_ERROR", "FILE_EXISTS", "FILE_NOT_FOUND", "CONNECTION_FAILED"} :
            ss_reply' = [ss_reply EXCEPT ![c] = code]
      BY <3>1 DEF RemoteCreate, RemoteCreateFolder, RemoteDelete, RemoteMove, CallFails, Answer
    <3> QED BY <1>2, <2>2, <3>2
  <2> QED BY <2>1, <2>2
<1> QED BY <1>5, <1>6, <1>8, <1>11, <1>12, <1>13 DEF StaleInv

LEMMA InitStale ==
  ASSUME AllRegisteredNoMove, Init
  PROVE  StaleInv
<1>1. PointersLead /\ AnswersLead /\ Answered
  BY DEF Init, PointersLead, AnswersLead, Answered
<1>2. EntriesLead
  BY DEF Init, EntriesLead
<1>4. ASSUME NEW s \in Servers
      PROVE  \E l \in Nat : /\ l = Len(FileList[s]) /\ DOMAIN FileList[s] = 1 .. l
                            /\ file_count[s] = l
                            /\ \A i \in 1 .. l : slots[s][i].filename = FileList[s][i].filename
  <2>1. PICK l \in Nat : l = Len(FileList[s]) /\ DOMAIN FileList[s] = 1 .. l
    <3>1. FileList[s] \in Seq(Listing)
      OBVIOUS
    <3> QED BY <3>1, LenProperties
  <2>2. s \in ToSet(InitialServers) /\ l <= MaxFiles /\ file_count[s] = l
    BY <2>1 DEF AllRegisteredNoMove, Init
  <2>3. ASSUME NEW i \in 1 .. l PROVE slots[s][i].filename = FileList[s][i].filename
    <3>1. i \in 1 .. MaxFiles /\ i <= Len(FileList[s])
      BY <2>1, <2>2
    <3> QED BY <2>2, <3>1 DEF Init, ListedSlots
  <2> QED BY <2>1, <2>2, <2>3
<1>6. SlotsKnowServer
  <2> SUFFICES ASSUME NEW s \in Servers, NEW i \in 1 .. MaxFiles, slots[s][i] \in FileInfo
               PROVE  slots[s][i].ss_id = s
    BY DEF SlotsKnowServer
  <2>1. slots[s][i] # Unused
    BY DEF Unused, FileInfo
  <2>2. slots[s][i] = ListedSlots(s)[i]
    BY DEF Init
  <2> QED BY <2>1, <2>2 DEF ListedSlots
<1>7. NodesLead
  <2>1. PICK T : T = {r \in [filename : Paths, file_ptr : [ss : Servers, slot : Nat]] :
                        r.filename \in Listed(r.file_ptr.ss)}
    OBVIOUS
  <2>2. \A s \in Servers : ListedNodes(s) \in Seq(T)
    <3> SUFFICES ASSUME NEW s \in Servers PROVE ListedNodes(s) \in Seq(T)
      OBVIOUS
    <3>1. PICK l \in Nat : /\ DOMAIN FileList[s] = 1 .. l /\ file_count[s] = l
                           /\ \A i \in 1 .. l : slots[s][i].filename = FileList[s][i].filename
      BY <1>4
    <3>2. ASSUME NEW i \in 1 .. l
          PROVE  [filename |-> FileList[s][i].filename, file_ptr |-> [ss |-> s, slot |-> i]] \in T
      <4>1. FileList[s] \in Seq(Listing)
        OBVIOUS
      <4>2. FileList[s][i].filename \in Paths
        <5>1. FileList[s][i] \in Listing
          BY <3>1, <4>1
        <5> QED BY <5>1 DEF Listing
      <4>3. FileList[s][i].filename \in Listed(s)
        BY <3>1 DEF Listed
      <4> QED BY <2>1, <4>2, <4>3
    <3>3. ListedNodes(s) \in [1 .. l -> T]
      BY <3>1, <3>2 DEF ListedNodes
    <3> QED BY <3>3, SeqDef
  <2>3. PICK l \in Nat : l = Len(InitialServers) /\ DOMAIN InitialServers = 1 .. l
    BY LenProperties
  <2>4. PICK lists : lists = [k \in DOMAIN InitialServers |-> ListedNodes(InitialServers[k])]
    OBVIOUS
  <2>5. lists \in [1 .. l -> Seq(T)]
    <3>1. \A k \in 1 .. l : InitialServers[k] \in Servers
      BY <2>3
    <3> QED BY <2>2, <2>3, <2>4, <3>1
  <2>6. lists \in Seq(Seq(T))
    BY <2>5, SeqDef
  <2>7. PICK flat : flat = FlattenSeq(lists)
    OBVIOUS
  <2>8. flat \in Seq(T)
    BY <2>6, <2>7, FlattenType
  <2>9. nodes = Reverse(flat)
    BY <2>4, <2>7 DEF Init
  <2>10. nodes \in Seq(T)
    BY <2>8, <2>9, ReverseType
  <2>11. \A i \in DOMAIN nodes : nodes[i] \in T
    BY <2>10
  <2> QED BY <2>1, <2>11 DEF NodesLead, Leads
<1> QED BY <1>1, <1>2, <1>6, <1>7 DEF StaleInv

LEMMA NextStale ==
  ASSUME AllRegisteredNoMove, StaleInv, TypeInv, GhostInv, [Next]_vars
  PROVE  StaleInv'
<1>1. ASSUME UNCHANGED <<slots, file_count, nodes, pc, ptr, ss_id, ss_reply, reply>>,
             \A k \in CacheSlots : entries'[k] # NoEntry =>
               /\ entries[k] # NoEntry
               /\ entries'[k].ss_id = entries[k].ss_id /\ entries'[k].filename = entries[k].filename
      PROVE  StaleInv'
  <2>1. \A s \in Servers : \A n : Leads(s, n) => Leads(s, n)'
    BY <1>1 DEF Leads, Listed, Removed
  <2>2. SlotsKnowServer' /\ Answered'
    BY <1>1 DEF StaleInv, SlotsKnowServer, Answered
  <2>3. NodesLead'
    <3> SUFFICES ASSUME NEW i \in DOMAIN nodes
                 PROVE  \E s \in Servers : s = nodes[i].file_ptr.ss /\ Leads(s, nodes[i].filename)'
      BY <1>1 DEF NodesLead
    <3>1. PICK s \in Servers : s = nodes[i].file_ptr.ss /\ Leads(s, nodes[i].filename)
      BY DEF StaleInv, NodesLead
    <3>2. PICK n : n = nodes[i].filename /\ n = nodes'[i].filename
      BY <1>1
    <3>3. Leads(s, n)'
      BY <2>1, <3>1, <3>2
    <3> QED BY <3>1, <3>2, <3>3
  <2>4. PointersLead' /\ AnswersLead'
    BY <1>1, <2>1 DEF StaleInv, PointersLead, AnswersLead
  <2>5. EntriesLead'
    <3> SUFFICES ASSUME NEW k \in CacheSlots, entries'[k] # NoEntry
                 PROVE  \E s \in Servers : s = entries'[k].ss_id /\ Leads(s, entries[k].filename)'
      BY DEF EntriesLead
    <3>1. PICK s \in Servers : s = entries[k].ss_id /\ Leads(s, entries[k].filename)
      BY <1>1 DEF StaleInv, EntriesLead
    <3>2. PICK n : n = entries[k].filename /\ n = entries'[k].filename
      BY <1>1
    <3>3. Leads(s, n)'
      BY <2>1, <3>1, <3>2
    <3> QED BY <1>1, <3>1, <3>2, <3>3
  <2> QED BY <2>2, <2>3, <2>4, <2>5 DEF StaleInv
<1>2. ASSUME NEW s \in Servers, Register(s) PROVE StaleInv'
  <2>1. registering = {} /\ s \in ToSet(ss_list)
    BY DEF AllRegisteredNoMove, GhostInv, ControlFits
  <2> QED BY <1>2, <2>1 DEF Register, RegisterServer, ListFile, CountFile, EndRegistration
<1>3. ASSUME NEW k \in CacheSlots, Expire(k) PROVE StaleInv'
  <2>1. entries \in [CacheSlots -> Entry \cup {NoEntry}] /\ entries[k] # NoEntry
    BY <1>3 DEF Expire, TypeInv, Stores, Entry
  <2>2. PICK r : r = [entries[k] EXCEPT !.expired = TRUE]
    OBVIOUS
  <2>3. entries[k] \in Entry
    BY <2>1
  <2>4. r.filename = entries[k].filename /\ r.ss_id = entries[k].ss_id
    BY <2>2, <2>3 DEF Entry
  <2>5. entries' = [entries EXCEPT ![k] = r]
    BY <1>3, <2>2 DEF Expire
  <2>6. \A j \in CacheSlots : entries'[j] = IF j = k THEN r ELSE entries[j]
    BY <2>1, <2>5
  <2>7. UNCHANGED <<slots, file_count, nodes, pc, ptr, ss_id, ss_reply, reply>>
    BY <1>3 DEF Expire
  <2> QED BY <1>1, <2>1, <2>4, <2>6, <2>7
<1>4. CASE UNCHANGED vars
  BY <1>1, <1>4 DEF vars
<1>5. ASSUME NEW c \in Conns, Serve(c) PROVE StaleInv'
  BY <1>5, ServeStale
<1> QED BY <1>2, <1>3, <1>4, <1>5 DEF Next, Done

\* A hash node, a pointer that a handler holds, a cache entry and a location sent to a client
\* all name a server that lists the file, or from whose list a DELETE or the roll-back of a
\* CREATE has taken it: neither the shifting of the array under the pointers, nor names that
\* share a cache entry, nor any interleaving of lookups, CREATEs and DELETEs gives a client a
\* server that never had the file.
THEOREM StaleLocationsExplained == AllRegisteredNoMove /\ Spec => []StaleMeansRemoved
<1> SUFFICES ASSUME AllRegisteredNoMove PROVE Spec => []StaleMeansRemoved
  OBVIOUS
<1>1. NoCreateMeanwhile
  BY DEF NoCreateMeanwhile, AllRegistered, AllRegisteredNoMove
<1>2. Spec => []TypeInv /\ []GhostInv
  BY <1>1, TypeInvHolds, GhostInvHolds
<1>3. Init => StaleInv
  BY InitStale
<1>4. StaleInv /\ TypeInv /\ GhostInv /\ [Next]_vars => StaleInv'
  BY NextStale
<1>5. StaleInv /\ TypeInv => StaleMeansRemoved
  <2> SUFFICES ASSUME StaleInv, TypeInv PROVE StaleMeansRemoved
    OBVIOUS
  <2>1. /\ SlotsKnowServer /\ NodesLead /\ PointersLead /\ EntriesLead /\ AnswersLead
        /\ Threads /\ Places /\ nodes \in Seq(Node)
    BY DEF StaleInv, TypeInv, Lists
  <2>2. ASSUME NEW i \in DOMAIN nodes
        PROVE  Leads(Deref(nodes[i].file_ptr).ss_id, nodes[i].filename)
    <3>1. nodes[i] \in Node
      BY <2>1
    <3>2. Deref(nodes[i].file_ptr).ss_id = nodes[i].file_ptr.ss
      BY <2>1, <3>1, LiveKnows DEF Node
    <3> QED BY <2>1, <3>2 DEF NodesLead
  <2>3. ASSUME NEW c \in Conns, pc[c] \in {"owner", "cache", "locate"}
        PROVE  Leads(Deref(ptr[c]).ss_id, NameOf[c])
    <3>1. ptr[c] \in Live
      BY <2>1, <2>3 DEF Places, Threads
    <3>2. Deref(ptr[c]).ss_id = ptr[c].ss
      BY <2>1, <3>1, LiveKnows
    <3> QED BY <2>1, <2>3, <3>2 DEF PointersLead
  <2> QED BY <2>1, <2>2, <2>3 DEF StaleMeansRemoved, EntriesLead, AnswersLead
<1> QED BY <1>2, <1>3, <1>4, <1>5, PTL DEF Spec
=============================================================================
