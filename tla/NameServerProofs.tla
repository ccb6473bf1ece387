-------------------------- MODULE NameServerProofs --------------------------
(***************************************************************************)
(* Proofs about NameServer for any number of storage servers, clients,     *)
(* names and slots, with calls that fail at any point.                     *)
(***************************************************************************)
EXTENDS NameServer, TLAPS

\* All storage servers registered before the first request, and nobody moves
\* files.  (A registration that overlaps a CREATE can corrupt the list, and a
\* MOVE renames whatever its pointer has come to point to.)
AllRegisteredNoMove ==
  /\ \A s \in Servers : s \in ToSet(InitialServers)
  /\ \A c \in Conns : Op[c] # "MOVE"

\* The assumption about the size of a file list, which all of this rests on.
LEMMA SizeAssumption == MaxFiles \in Nat
BY NameServerAssumption

USE SizeAssumption DEF table, registration, storage, locals

\* The slot found for a name is in use and holds it, and 0 means no slot does.
LEMMA SlotFound ==
  ASSUME ListType, OneEntryPerServer, NEW s \in Servers, NEW n
  PROVE  IF SlotOf(s, n) = 0
           THEN \A i \in 1 .. file_count[s] : slots[s][i].filename # n
           ELSE SlotOf(s, n) \in 1 .. file_count[s] /\ slots[s][SlotOf(s, n)].filename = n
<1>1. file_count[s] \in 0 .. MaxFiles
  BY DEF ListType
<1>2. CASE \A i \in 1 .. file_count[s] : slots[s][i].filename # n
  BY <1>2 DEF SlotOf
<1>3. CASE \E i \in 1 .. file_count[s] : slots[s][i].filename = n
  <2>1. PICK i \in 1 .. file_count[s] : slots[s][i].filename = n
    BY <1>3
  <2>2. \A j \in 1 .. i - 1 : slots[s][j].filename # n
    BY <1>1, <2>1 DEF OneEntryPerServer
  <2> DEFINE P(k) == /\ slots[s][k].filename = n
                     /\ \A j \in 1 .. k - 1 : slots[s][j].filename # n
             k == CHOOSE k \in 1 .. file_count[s] : P(k)
  <2>3. k \in 1 .. file_count[s] /\ P(k)
    <3>1. \E l \in 1 .. file_count[s] : P(l)
      BY <2>1, <2>2
    <3> HIDE DEF P
    <3> QED BY <3>1
  <2>4. SlotOf(s, n) = k
    BY <1>3 DEF SlotOf
  <2> QED BY <1>1, <2>3, <2>4
<1> QED BY <1>2, <1>3

\* Removing a file from a list, of whatever server: the lists stay well formed,
\* they gain no name, and the removed name is gone from that server.
LEMMA RemoveShrinks ==
  ASSUME ListType, OneEntryPerServer, NEW s, NEW n, remove_file_from_server(s, n)
  PROVE  /\ slots' \in [Servers -> [1 .. MaxFiles -> FileInfo \cup {Unused}]]
         /\ file_count' \in [Servers -> 0 .. MaxFiles]
         /\ OneEntryPerServer'
         /\ \A t \in Servers : \A i \in 1 .. file_count'[t] :
              /\ \E j \in 1 .. file_count[t] : slots[t][j].filename = slots'[t][i].filename
              /\ t = s => slots'[t][i].filename # n
<1>1. CASE s \notin Servers
  <2>1. slots' = slots /\ file_count' = file_count
    BY <1>1 DEF remove_file_from_server, ListType
  <2> QED BY <1>1, <2>1 DEF ListType, OneEntryPerServer
<1>2. CASE s \in Servers /\ SlotOf(s, n) = 0
  BY <1>2, SlotFound DEF remove_file_from_server, ListType, OneEntryPerServer
<1>3. CASE s \in Servers /\ SlotOf(s, n) # 0
  <2> DEFINE k == SlotOf(s, n)
             count == file_count[s]
  <2>1. k \in 1 .. count /\ slots[s][k].filename = n /\ count \in 0 .. MaxFiles
    BY <1>3, SlotFound DEF ListType
  <2>2. slots' = [slots EXCEPT ![s] = Shifted(slots[s], k, count)]
        /\ file_count' = [file_count EXCEPT ![s] = count - 1]
    BY <1>3 DEF remove_file_from_server
  <2> HIDE DEF k
  <2>3. Shifted(slots[s], k, count) \in [1 .. MaxFiles -> FileInfo \cup {Unused}]
    BY <1>3, <2>1 DEF Shifted, ListType
  <2>4. slots' \in [Servers -> [1 .. MaxFiles -> FileInfo \cup {Unused}]]
        /\ file_count' \in [Servers -> 0 .. MaxFiles]
    BY <1>3, <2>1, <2>2, <2>3 DEF ListType
  <2>5. \A t \in Servers : t # s => slots'[t] = slots[t] /\ file_count'[t] = file_count[t]
    BY <2>2 DEF ListType
  <2>6. file_count'[s] = count - 1
        /\ \A i \in 1 .. count - 1 : slots'[s][i] = slots[s][IF i < k THEN i ELSE i + 1]
    BY <1>3, <2>1, <2>2 DEF Shifted, ListType
  <2>7. \A i \in 1 .. count - 1 : (IF i < k THEN i ELSE i + 1) \in (1 .. count) \ {k}
    BY <2>1
  <2>8. \A i \in 1 .. file_count'[s] :
          /\ \E j \in 1 .. file_count[s] : slots[s][j].filename = slots'[s][i].filename
          /\ slots'[s][i].filename # n
    BY <1>3, <2>1, <2>6, <2>7 DEF OneEntryPerServer
  <2>9. \A i, j \in 1 .. file_count'[s] :
          slots'[s][i].filename = slots'[s][j].filename => i = j
    BY <1>3, <2>1, <2>6, <2>7 DEF OneEntryPerServer
  <2>10. OneEntryPerServer'
    BY <2>5, <2>9 DEF OneEntryPerServer
  <2> QED BY <2>4, <2>5, <2>8, <2>10
<1> QED BY <1>1, <1>2, <1>3

\* Adding a file: the lists stay well formed and gain at most that name, on
\* that server.
LEMMA AddGrows ==
  ASSUME ListType, OneEntryPerServer, NEW s \in Servers, NEW n \in Paths, NEW u \in Users,
         add_file_to_server(s, n, u)
  PROVE  /\ slots' \in [Servers -> [1 .. MaxFiles -> FileInfo \cup {Unused}]]
         /\ file_count' \in [Servers -> 0 .. MaxFiles]
         /\ OneEntryPerServer'
         /\ \A t \in Servers : \A i \in 1 .. file_count'[t] :
              \/ \E j \in 1 .. file_count[t] : slots[t][j].filename = slots'[t][i].filename
              \/ t = s /\ slots'[t][i].filename = n /\ AddResult(s, n) = "SUCCESS"
<1>1. CASE AddResult(s, n) # "SUCCESS"
  BY <1>1 DEF add_file_to_server, ListType, OneEntryPerServer
<1>2. CASE AddResult(s, n) = "SUCCESS"
  <2> DEFINE k == file_count[s] + 1
             new == [filename |-> n, owner |-> u, ss_id |-> s]
  <2>1. k \in 1 .. MaxFiles /\ SlotOf(s, n) = 0 /\ file_count[s] \in 0 .. MaxFiles
    BY <1>2 DEF AddResult, ListType
  <2>2. \A i \in 1 .. file_count[s] : slots[s][i].filename # n
    BY <2>1, SlotFound
  <2>3. slots' = [slots EXCEPT ![s][k] = new] /\ file_count' = [file_count EXCEPT ![s] = k]
    BY <1>2 DEF add_file_to_server
  <2>4. new \in FileInfo /\ new.filename = n
    BY DEF FileInfo
  <2> HIDE DEF new
  <2>5. slots' \in [Servers -> [1 .. MaxFiles -> FileInfo \cup {Unused}]]
        /\ file_count' \in [Servers -> 0 .. MaxFiles]
    BY <2>1, <2>3, <2>4 DEF ListType
  <2>6. \A t \in Servers : t # s => slots'[t] = slots[t] /\ file_count'[t] = file_count[t]
    BY <2>3 DEF ListType
  <2>7. file_count'[s] = k /\ slots'[s][k] = new
        /\ \A i \in 1 .. file_count[s] : slots'[s][i] = slots[s][i]
    BY <2>1, <2>3 DEF ListType
  <2>8. OneEntryPerServer'
    BY <2>1, <2>2, <2>4, <2>6, <2>7 DEF OneEntryPerServer
  <2>9. \A i \in 1 .. k : i = k \/ i \in 1 .. file_count[s]
    BY <2>1
  <2> QED BY <1>2, <2>4, <2>5, <2>6, <2>7, <2>8, <2>9
<1> QED BY <1>1, <1>2

-----------------------------------------------------------------------------
\* A connection that accounts for a file of its name on its server.
Vouches(c) ==
  \/ Op[c] = "CREATE" /\ pc[c] \in {"remote", "answer"}
  \/ Op[c] \in {"CREATE", "CREATEFOLDER"} /\ reply[c] = "SUCCESS"

\* What a step of c changes of the control state, seen from the other threads.
OnlyMoves(c) ==
  \A e \in Conns \ {c} : pc'[e] = pc[e] /\ reply'[e] = reply[e] /\ ss_id'[e] = ss_id[e]

\* If c goes on vouching, or did not vouch, then no file loses its account.
LEMMA StillAccounted ==
  ASSUME NEW c \in Conns, OnlyMoves(c),
         Vouches(c) => Vouches(c)' /\ ss_id'[c] = ss_id[c],
         NEW s, NEW n, Accounted(s, n)
  PROVE  Accounted(s, n)'
<1>1. CASE \E i \in DOMAIN FileList[s] : FileList[s][i].filename = n
  BY <1>1 DEF Accounted
<1>2. CASE \E d \in Conns : Vouches(d) /\ NameOf[d] = n /\ ss_id[d] = s
  <2>1. PICK d \in Conns : Vouches(d) /\ NameOf[d] = n /\ ss_id[d] = s
    BY <1>2
  <2>2. Vouches(d)' /\ ss_id'[d] = s
    <3>1. CASE d = c
      BY <2>1, <3>1
    <3>2. CASE d # c
      BY <2>1, <3>2 DEF Vouches, OnlyMoves
    <3> QED BY <3>1, <3>2
  <2> QED BY <2>1, <2>2 DEF Accounted, Vouches
<1> QED BY <1>1, <1>2 DEF Accounted, Vouches

\* Every handler's steps are taken by its own requests only, and no request is
\* answered before its last step.
LEMMA ControlStays == AllRegisteredNoMove /\ Spec => []ControlFits
<1> SUFFICES ASSUME AllRegisteredNoMove PROVE Spec => []ControlFits
  OBVIOUS
<1>1. Init => ControlFits
  BY DEF Init, ControlFits, StepsFit, PCs
<1>2. ControlFits /\ [Next]_vars => ControlFits'
  <2> SUFFICES ASSUME ControlFits, [Next]_vars
      PROVE  ControlFits'
    OBVIOUS
  <2> USE DEF ControlFits, StepsFit, PCs
  <2>1. ASSUME NEW c \in Conns, CheckNew(c)
       PROVE  ControlFits'
    BY <2>1 DEF CheckNew, Starts, Finish, Goto
  <2>2. ASSUME NEW c \in Conns, AssignServer(c)
       PROVE  ControlFits'
    <3>1. CASE ss_list = <<>>
      BY ZenonT(60), <2>2, <3>1 DEF AssignServer, Finish, Goto
    <3>2. CASE ss_list # <<>>
      <4> DEFINE current == next_ss_index % Len(ss_list)
                 s == ss_list[current + 1]
      <4>1. Len(ss_list) \in Nat \ {0} /\ ss_list \in Seq(Servers)
        BY <3>2, NameServerAssumption
      <4>2. current \in 0 .. Len(ss_list) - 1
        BY <4>1
      <4>3. s \in Servers
        BY <4>1, <4>2
      <4>4. /\ ss_id' = [ss_id EXCEPT ![c] = s] /\ Goto(c, "select") /\ pc[c] = "assign"
            /\ UNCHANGED <<ss_list, next_ss_index, registering>>
        BY <2>2, <3>2 DEF AssignServer, table, registration
      <4> HIDE DEF s, current
      <4> QED BY <4>3, <4>4 DEF Goto
    <3> QED BY <3>1, <3>2
  <2>2a. ASSUME NEW c \in Conns, AdvanceIndex(c)
       PROVE  ControlFits'
    <3>1. PICK i \in DOMAIN ss_list : next_ss_index' = i % Len(ss_list)
      BY <2>2a DEF AdvanceIndex
    <3>2. next_ss_index' \in Nat
      <4>1. ss_list \in Seq(Servers)
        BY NameServerAssumption
      <4>2. Len(ss_list) \in Nat \ {0} /\ i \in Nat
        BY <4>1
      <4> QED BY <3>1, <4>2
    <3>3. /\ Goto(c, IF Op[c] = "CREATE" THEN "add" ELSE "remote") /\ pc[c] = "select"
          /\ UNCHANGED <<ss_list, ss_id, registering>>
      BY <2>2a DEF AdvanceIndex, registration, locals
    <3> QED BY <3>2, <3>3 DEF Goto
  <2>3. ASSUME NEW c \in Conns, RecordFile(c)
       PROVE  ControlFits'
    BY <2>3 DEF RecordFile, Finish, Goto
  <2>4. ASSUME NEW c \in Conns, FindTarget(c)
       PROVE  ControlFits'
    BY <2>4 DEF FindTarget, Starts, Finish, Goto
  <2>5. ASSUME NEW c \in Conns, CheckOwner(c)
       PROVE  ControlFits'
    BY <2>5 DEF CheckOwner, Finish, Goto
  <2>6. ASSUME NEW c \in Conns, RemoteCreate(c)
       PROVE  ControlFits'
    BY <2>6 DEF RemoteCreate, Answer, Goto
  <2>7. ASSUME NEW c \in Conns, RemoteCreateFolder(c)
       PROVE  ControlFits'
    BY <2>7 DEF RemoteCreateFolder, Answer, Goto
  <2>8. ASSUME NEW c \in Conns, RemoteDelete(c)
       PROVE  ControlFits'
    BY <2>8 DEF RemoteDelete, Answer, Goto
  <2>9. ASSUME NEW c \in Conns, RemoteMove(c)
       PROVE  ControlFits'
    BY <2>9 DEF RemoteMove, Answer, Goto
  <2>10. ASSUME NEW c \in Conns, CallFails(c)
       PROVE  ControlFits'
    BY <2>10 DEF CallFails, Goto
  <2>11. ASSUME NEW c \in Conns, FinishCreate(c)
       PROVE  ControlFits'
    BY <2>11 DEF FinishCreate, Finish
  <2>12. ASSUME NEW c \in Conns, FinishCreateFolder(c)
       PROVE  ControlFits'
    BY <2>12 DEF FinishCreateFolder, Finish
  <2>13. ASSUME NEW c \in Conns, FinishDelete(c)
       PROVE  ControlFits'
    BY <2>13 DEF FinishDelete, Finish, Goto
  <2>14. ASSUME NEW c \in Conns, ForgetLocation(c)
       PROVE  ControlFits'
    BY <2>14 DEF ForgetLocation, Finish
  <2>15. ASSUME NEW c \in Conns, FinishMove(c)
       PROVE  ControlFits'
    BY <2>15 DEF FinishMove, Finish, Goto
  <2>16. ASSUME NEW c \in Conns, RenameFile(c)
       PROVE  ControlFits'
    BY <2>16 DEF RenameFile, Goto
  <2>17. ASSUME NEW c \in Conns, InsertMoved(c)
       PROVE  ControlFits'
    BY <2>17 DEF InsertMoved, Goto
  <2>18. ASSUME NEW c \in Conns, ForgetAll(c)
       PROVE  ControlFits'
    BY <2>18 DEF ForgetAll, Finish
  <2>19. ASSUME NEW c \in Conns, LookupCache(c)
       PROVE  ControlFits'
    BY <2>19 DEF LookupCache, Starts, Finish, Goto
  <2>20. ASSUME NEW c \in Conns, FindFile(c)
       PROVE  ControlFits'
    BY <2>20 DEF FindFile, Finish, Goto
  <2>21. ASSUME NEW c \in Conns, CacheLocation(c)
       PROVE  ControlFits'
    BY <2>21 DEF CacheLocation, Goto
  <2>22. ASSUME NEW c \in Conns, AnswerLocation(c)
       PROVE  ControlFits'
    BY <2>22 DEF AnswerLocation, Finish
  <2>23. ASSUME NEW s \in Servers, Register(s)
       PROVE  ControlFits'
    BY <2>23
       DEF Register, RegisterServer, ListFile, CountFile, EndRegistration, AllRegisteredNoMove
  <2>24. ASSUME NEW k \in CacheSlots, Expire(k)
       PROVE  ControlFits'
    BY <2>24 DEF Expire
  <2>25. ASSUME UNCHANGED vars
       PROVE  ControlFits'
    BY <2>25 DEF vars
  <2> HIDE DEF ControlFits
  <2> QED
    BY <2>1, <2>2, <2>2a, <2>3, <2>4, <2>5, <2>6, <2>7, <2>8, <2>9, <2>10, <2>11, <2>12,
       <2>13, <2>14, <2>15, <2>16, <2>17, <2>18, <2>19, <2>20, <2>21, <2>22, <2>23,
       <2>24, <2>25
       DEF Next, Serve, Done
<1> QED
  BY <1>1, <1>2, PTL DEF Spec

-----------------------------------------------------------------------------
ListsOK == ListType /\ OneEntryPerServer /\ NoGhostFile

\* A step of c that leaves the lists alone.
LEMMA QuietStep ==
  ASSUME NEW c \in Conns, OnlyMoves(c),
         Vouches(c) => Vouches(c)' /\ ss_id'[c] = ss_id[c],
         UNCHANGED <<slots, file_count>>, ListsOK
  PROVE  ListsOK'
<1>1. \A s, n : Accounted(s, n) => Accounted(s, n)'
  BY StillAccounted
<1>2. NoGhostFile'
  BY <1>1 DEF ListsOK, NoGhostFile, Accounted
<1> QED BY <1>2 DEF ListsOK, ListType, OneEntryPerServer

\* A step of c that adds a file for which there is an account.
LEMMA ListingStep ==
  ASSUME NEW c \in Conns, OnlyMoves(c), ~Vouches(c), ListsOK,
         NEW s \in Servers, NEW n \in Paths, NEW u \in Users,
         add_file_to_server(s, n, u), AddResult(s, n) = "SUCCESS" => Accounted(s, n)'
  PROVE  ListsOK'
<1>1. /\ ListType' /\ OneEntryPerServer'
      /\ \A t \in Servers : \A i \in 1 .. file_count'[t] :
          \/ \E j \in 1 .. file_count[t] : slots[t][j].filename = slots'[t][i].filename
          \/ t = s /\ slots'[t][i].filename = n /\ AddResult(s, n) = "SUCCESS"
  BY AddGrows DEF ListsOK, ListType
<1>2. \A t, m : Accounted(t, m) => Accounted(t, m)'
  BY StillAccounted
<1>3. NoGhostFile'
  BY <1>1, <1>2 DEF ListsOK, NoGhostFile, Accounted
<1> QED BY <1>1, <1>3 DEF ListsOK

\* A step that removes a file, after which every other file has its account.
LEMMA UnlistingStep ==
  ASSUME ListsOK, NEW s, NEW n, remove_file_from_server(s, n),
         \A t, m : Accounted(t, m) /\ (t # s \/ m # n) => Accounted(t, m)'
  PROVE  ListsOK'
<1>1. /\ ListType' /\ OneEntryPerServer'
      /\ \A t \in Servers : \A i \in 1 .. file_count'[t] :
          /\ \E j \in 1 .. file_count[t] : slots[t][j].filename = slots'[t][i].filename
          /\ t = s => slots'[t][i].filename # n
  BY RemoveShrinks DEF ListsOK, ListType
<1>2. NoGhostFile'
  <2> SUFFICES ASSUME NEW t \in Servers, NEW i \in 1 .. file_count'[t],
                      NEW m, m = slots'[t][i].filename
      PROVE  Accounted(t, m)'
    BY DEF NoGhostFile, Accounted
  <2>1. PICK j \in 1 .. file_count[t] : slots[t][j].filename = m
    BY <1>1
  <2>2. Accounted(t, m)
    BY <2>1 DEF ListsOK, NoGhostFile
  <2> QED BY <1>1, <2>2
<1> QED BY <1>1, <1>2 DEF ListsOK

\* The inductive invariant: names are on a list once, so that taking back a
\* record takes all of it, and a request that is being served is unanswered, so
\* that its account ends only with its last step.
LEMMA GhostInvHolds == AllRegisteredNoMove /\ Spec => []GhostInv
<1> SUFFICES ASSUME AllRegisteredNoMove PROVE Spec => []GhostInv
  OBVIOUS
<1>1. Init => ListsOK
  <2> SUFFICES ASSUME Init PROVE ListsOK
    OBVIOUS
  <2>1. \A s \in Servers :
          /\ file_count[s] = Len(FileList[s])
          /\ FileList[s] \in Seq(Listing) /\ Len(FileList[s]) \in 0 .. MaxFiles
    BY NameServerAssumption DEF Init, AllRegisteredNoMove
  <2>2. ASSUME NEW s \in Servers, NEW i \in 1 .. file_count[s]
        PROVE  i \in DOMAIN FileList[s] /\ slots[s][i].filename = FileList[s][i].filename
    <3>1. i \in 1 .. MaxFiles /\ i <= Len(FileList[s]) /\ i \in DOMAIN FileList[s]
      BY <2>1
    <3> QED BY <3>1 DEF Init, AllRegisteredNoMove, ListedSlots
  <2>3. file_count \in [Servers -> 0 .. MaxFiles]
    BY <2>1 DEF Init
  <2>4. ASSUME NEW s \in Servers
        PROVE  ListedSlots(s) \in [1 .. MaxFiles -> FileInfo \cup {Unused}]
    <3>1. ASSUME NEW i \in 1 .. MaxFiles, i <= Len(FileList[s])
          PROVE  FileList[s][i] \in Listing
      BY <2>1, <3>1
    <3> QED BY <3>1 DEF ListedSlots, FileInfo, Listing
  <2>5. slots \in [Servers -> [1 .. MaxFiles -> FileInfo \cup {Unused}]]
    BY <2>4 DEF Init
  <2>6. OneEntryPerServer
    <3> SUFFICES ASSUME NEW s \in Servers, NEW i \in 1 .. file_count[s],
                        NEW j \in 1 .. file_count[s],
                        slots[s][i].filename = slots[s][j].filename
        PROVE  i = j
      BY DEF OneEntryPerServer
    <3> QED BY <2>2, NameServerAssumption
  <2>7. NoGhostFile
    <3> SUFFICES ASSUME NEW s \in Servers, NEW i \in 1 .. file_count[s]
        PROVE  Accounted(s, slots[s][i].filename)
      BY DEF NoGhostFile
    <3> QED BY <2>2 DEF Accounted
  <2> QED BY <2>3, <2>5, <2>6, <2>7 DEF ListsOK, ListType
<1>2. ControlFits /\ ControlFits' /\ ListsOK /\ [Next]_vars => ListsOK'
  <2> SUFFICES ASSUME ControlFits, ControlFits', ListsOK, [Next]_vars
      PROVE  ListsOK'
    OBVIOUS
  <2>1. ASSUME NEW c \in Conns, CheckNew(c)
       PROVE  ListsOK'
    <3>1. OnlyMoves(c) /\ (Vouches(c) => Vouches(c)' /\ ss_id'[c] = ss_id[c])
          /\ UNCHANGED <<slots, file_count>>
      BY <2>1 DEF CheckNew, Starts, Finish, Goto, OnlyMoves, Vouches, ControlFits, StepsFit, PCs
    <3> QED BY <3>1, QuietStep
  <2>2. ASSUME NEW c \in Conns, AssignServer(c)
       PROVE  ListsOK'
    <3>1. OnlyMoves(c) /\ (Vouches(c) => Vouches(c)' /\ ss_id'[c] = ss_id[c])
          /\ UNCHANGED <<slots, file_count>>
      BY <2>2 DEF AssignServer, Finish, Goto, OnlyMoves, Vouches, ControlFits, StepsFit, PCs
    <3> QED BY <3>1, QuietStep
  <2>2a. ASSUME NEW c \in Conns, AdvanceIndex(c)
       PROVE  ListsOK'
    <3>1. OnlyMoves(c) /\ (Vouches(c) => Vouches(c)' /\ ss_id'[c] = ss_id[c])
          /\ UNCHANGED <<slots, file_count>>
      BY <2>2a DEF AdvanceIndex, Goto, OnlyMoves, Vouches, ControlFits, StepsFit, PCs
    <3> QED BY <3>1, QuietStep
  <2>3. ASSUME NEW c \in Conns, FindTarget(c)
       PROVE  ListsOK'
    <3>1. OnlyMoves(c) /\ (Vouches(c) => Vouches(c)' /\ ss_id'[c] = ss_id[c])
          /\ UNCHANGED <<slots, file_count>>
      BY <2>3 DEF FindTarget, Finish, Goto, OnlyMoves, Vouches, ControlFits, StepsFit, PCs
    <3> QED BY <3>1, QuietStep
  <2>4. ASSUME NEW c \in Conns, CheckOwner(c)
       PROVE  ListsOK'
    <3>1. OnlyMoves(c) /\ (Vouches(c) => Vouches(c)' /\ ss_id'[c] = ss_id[c])
          /\ UNCHANGED <<slots, file_count>>
      BY <2>4 DEF CheckOwner, Finish, Goto, OnlyMoves, Vouches, ControlFits, StepsFit, PCs
    <3> QED BY <3>1, QuietStep
  <2>5. ASSUME NEW c \in Conns, RemoteCreate(c)
       PROVE  ListsOK'
    <3>1. OnlyMoves(c) /\ (Vouches(c) => Vouches(c)' /\ ss_id'[c] = ss_id[c])
          /\ UNCHANGED <<slots, file_count>>
      BY <2>5 DEF RemoteCreate, Answer, Goto, OnlyMoves, Vouches, ControlFits, StepsFit, PCs
    <3> QED BY <3>1, QuietStep
  <2>6. ASSUME NEW c \in Conns, RemoteCreateFolder(c)
       PROVE  ListsOK'
    <3>1. OnlyMoves(c) /\ (Vouches(c) => Vouches(c)' /\ ss_id'[c] = ss_id[c])
          /\ UNCHANGED <<slots, file_count>>
      BY <2>6
         DEF RemoteCreateFolder, Answer, Goto, OnlyMoves, Vouches, ControlFits, StepsFit, PCs
    <3> QED BY <3>1, QuietStep
  <2>7. ASSUME NEW c \in Conns, RemoteDelete(c)
       PROVE  ListsOK'
    <3>1. OnlyMoves(c) /\ (Vouches(c) => Vouches(c)' /\ ss_id'[c] = ss_id[c])
          /\ UNCHANGED <<slots, file_count>>
      BY <2>7 DEF RemoteDelete, Answer, Goto, OnlyMoves, Vouches, ControlFits, StepsFit, PCs
    <3> QED BY <3>1, QuietStep
  <2>8. ASSUME NEW c \in Conns, RemoteMove(c)
       PROVE  ListsOK'
    <3>1. OnlyMoves(c) /\ (Vouches(c) => Vouches(c)' /\ ss_id'[c] = ss_id[c])
          /\ UNCHANGED <<slots, file_count>>
      BY <2>8 DEF RemoteMove, Answer, Goto, OnlyMoves, Vouches, ControlFits, StepsFit, PCs
    <3> QED BY <3>1, QuietStep
  <2>9. ASSUME NEW c \in Conns, CallFails(c)
       PROVE  ListsOK'
    <3>1. OnlyMoves(c) /\ (Vouches(c) => Vouches(c)' /\ ss_id'[c] = ss_id[c])
          /\ UNCHANGED <<slots, file_count>>
      BY <2>9 DEF CallFails, Goto, OnlyMoves, Vouches, ControlFits, StepsFit, PCs
    <3> QED BY <3>1, QuietStep
  <2>10. ASSUME NEW c \in Conns, ForgetLocation(c)
       PROVE  ListsOK'
    <3>1. OnlyMoves(c) /\ (Vouches(c) => Vouches(c)' /\ ss_id'[c] = ss_id[c])
          /\ UNCHANGED <<slots, file_count>>
      BY <2>10 DEF ForgetLocation, Finish, OnlyMoves, Vouches, ControlFits, StepsFit, PCs
    <3> QED BY <3>1, QuietStep
  <2>11. ASSUME NEW c \in Conns, FinishMove(c)
       PROVE  ListsOK'
    <3>1. OnlyMoves(c) /\ (Vouches(c) => Vouches(c)' /\ ss_id'[c] = ss_id[c])
          /\ UNCHANGED <<slots, file_count>>
      BY <2>11 DEF FinishMove, Finish, Goto, OnlyMoves, Vouches, ControlFits, StepsFit, PCs
    <3> QED BY <3>1, QuietStep
  <2>12. ASSUME NEW c \in Conns, InsertMoved(c)
       PROVE  ListsOK'
    <3>1. OnlyMoves(c) /\ (Vouches(c) => Vouches(c)' /\ ss_id'[c] = ss_id[c])
          /\ UNCHANGED <<slots, file_count>>
      BY <2>12 DEF InsertMoved, Goto, OnlyMoves, Vouches, ControlFits, StepsFit, PCs
    <3> QED BY <3>1, QuietStep
  <2>13. ASSUME NEW c \in Conns, ForgetAll(c)
       PROVE  ListsOK'
    <3>1. OnlyMoves(c) /\ (Vouches(c) => Vouches(c)' /\ ss_id'[c] = ss_id[c])
          /\ UNCHANGED <<slots, file_count>>
      BY <2>13 DEF ForgetAll, Finish, OnlyMoves, Vouches, ControlFits, StepsFit, PCs
    <3> QED BY <3>1, QuietStep
  <2>14. ASSUME NEW c \in Conns, LookupCache(c)
       PROVE  ListsOK'
    <3>1. OnlyMoves(c) /\ (Vouches(c) => Vouches(c)' /\ ss_id'[c] = ss_id[c])
          /\ UNCHANGED <<slots, file_count>>
      BY <2>14 DEF LookupCache, Finish, Goto, OnlyMoves, Vouches, ControlFits, StepsFit, PCs
    <3> QED BY <3>1, QuietStep
  <2>15. ASSUME NEW c \in Conns, FindFile(c)
       PROVE  ListsOK'
    <3>1. OnlyMoves(c) /\ (Vouches(c) => Vouches(c)' /\ ss_id'[c] = ss_id[c])
          /\ UNCHANGED <<slots, file_count>>
      BY <2>15 DEF FindFile, Finish, Goto, OnlyMoves, Vouches, ControlFits, StepsFit, PCs
    <3> QED BY <3>1, QuietStep
  <2>16. ASSUME NEW c \in Conns, CacheLocation(c)
       PROVE  ListsOK'
    <3>1. OnlyMoves(c) /\ (Vouches(c) => Vouches(c)' /\ ss_id'[c] = ss_id[c])
          /\ UNCHANGED <<slots, file_count>>
      BY <2>16 DEF CacheLocation, Goto, OnlyMoves, Vouches, ControlFits, StepsFit, PCs
    <3> QED BY <3>1, QuietStep
  <2>17. ASSUME NEW c \in Conns, AnswerLocation(c)
       PROVE  ListsOK'
    <3>1. OnlyMoves(c) /\ (Vouches(c) => Vouches(c)' /\ ss_id'[c] = ss_id[c])
          /\ UNCHANGED <<slots, file_count>>
      BY <2>17 DEF AnswerLocation, Finish, OnlyMoves, Vouches, ControlFits, StepsFit, PCs
    <3> QED BY <3>1, QuietStep
  <2>18. ASSUME NEW c \in Conns, RenameFile(c)
       PROVE  ListsOK'
    BY <2>18 DEF RenameFile, ControlFits, StepsFit, AllRegisteredNoMove
  <2>19. ASSUME NEW c \in Conns, RecordFile(c)
       PROVE  ListsOK'
    <3>1. PICK s, n : s = ss_id[c] /\ n = NameOf[c]
      OBVIOUS
    <3>2. /\ s \in Servers /\ n \in Paths /\ UserOf[c] \in Users
          /\ Op[c] = "CREATE" /\ reply[c] = "none"
      BY <3>1, <2>19, NameServerAssumption DEF RecordFile, ControlFits, StepsFit
    <3>3. add_file_to_server(s, n, UserOf[c])
      BY <3>1, <2>19 DEF RecordFile
    <3>4. OnlyMoves(c) /\ ss_id' = ss_id /\ ~Vouches(c)
      BY <2>19, <3>2 DEF RecordFile, Finish, Goto, OnlyMoves, Vouches, ControlFits
    <3>5. AddResult(s, n) = "SUCCESS" => Accounted(s, n)'
      BY <3>1, <3>3, <2>19, <3>2 DEF RecordFile, Goto, Accounted, ControlFits
    <3> QED BY <3>2, <3>3, <3>4, <3>5, ListingStep
  <2>20. ASSUME NEW c \in Conns, FinishCreateFolder(c)
       PROVE  ListsOK'
    <3>1. PICK s, n : s = ss_id[c] /\ n = NameOf[c]
      OBVIOUS
    <3>2. /\ s \in Servers /\ n \in Paths /\ UserOf[c] \in Users
          /\ Op[c] = "CREATEFOLDER" /\ reply[c] = "none"
      BY <3>1, <2>20, NameServerAssumption DEF FinishCreateFolder, ControlFits, StepsFit
    <3>3. OnlyMoves(c) /\ ss_id' = ss_id /\ ~Vouches(c)
      BY <2>20, <3>2 DEF FinishCreateFolder, Finish, OnlyMoves, Vouches, ControlFits
    <3>4. CASE ss_reply[c] = "CONNECTION_FAILED"
      BY <2>20, <3>3, <3>4, QuietStep DEF FinishCreateFolder
    <3>5. CASE ss_reply[c] # "CONNECTION_FAILED"
      <4>1. add_file_to_server(s, n, UserOf[c])
        BY <3>1, <2>20, <3>5 DEF FinishCreateFolder
      <4>2. Accounted(s, n)'
        BY <3>1, <3>3, <2>20, <3>2, <3>5
           DEF FinishCreateFolder, Finish, Accounted, ControlFits
      <4> QED BY <3>2, <3>3, <4>1, <4>2, ListingStep
    <3> QED BY <3>4, <3>5
  <2>21. ASSUME NEW c \in Conns, FinishDelete(c)
       PROVE  ListsOK'
    <3>1. PICK s, n : s = ss_id[c] /\ n = NameOf[c]
      OBVIOUS
    <3>2. OnlyMoves(c) /\ ss_id' = ss_id /\ ~Vouches(c)
      BY <2>21 DEF FinishDelete, Finish, Goto, OnlyMoves, Vouches, ControlFits
    <3>3. CASE ss_reply[c] # "SUCCESS"
      BY <2>21, <3>2, <3>3, QuietStep DEF FinishDelete
    <3>4. CASE ss_reply[c] = "SUCCESS"
      <4>1. remove_file_from_server(s, n)
        BY <3>1, <2>21, <3>4 DEF FinishDelete
      <4>2. \A t, m : Accounted(t, m) => Accounted(t, m)'
        BY <3>2, StillAccounted
      <4> QED BY <4>1, <4>2, UnlistingStep
    <3> QED BY <3>3, <3>4
  <2>22. ASSUME NEW c \in Conns, FinishCreate(c)
       PROVE  ListsOK'
    <3>1. PICK s, n : s = ss_id[c] /\ n = NameOf[c]
      OBVIOUS
    <3>2. OnlyMoves(c) /\ ss_id' = ss_id /\ Op[c] = "CREATE"
      BY <2>22 DEF FinishCreate, Finish, OnlyMoves, ControlFits
    <3>3. CASE ss_reply[c] = "SUCCESS"
      <4>1. Vouches(c)' /\ UNCHANGED <<slots, file_count>>
        BY <2>22, <3>3 DEF FinishCreate, Finish, Vouches, ControlFits
      <4> QED BY <3>2, <4>1, QuietStep
    <3>4. CASE ss_reply[c] # "SUCCESS"
      <4>1. remove_file_from_server(s, n)
        BY <3>1, <2>22, <3>4 DEF FinishCreate, RollBack
      <4>2. ASSUME NEW t, NEW m, Accounted(t, m), t # s \/ m # n
            PROVE  Accounted(t, m)'
        BY <3>1, <3>2, <4>2 DEF Accounted, OnlyMoves
      <4> QED BY <4>1, <4>2, UnlistingStep
    <3> QED BY <3>3, <3>4
  <2>23. ASSUME NEW s \in Servers, Register(s)
       PROVE  ListsOK'
    BY <2>23 DEF Register, RegisterServer, ListFile, CountFile, EndRegistration,
       ControlFits, AllRegisteredNoMove
  <2>24. ASSUME UNCHANGED <<slots, file_count, pc, reply, ss_id>>
       PROVE  ListsOK'
    BY <2>24 DEF ListsOK, ListType, OneEntryPerServer, NoGhostFile, Accounted
  <2> QED
    BY <2>1, <2>2, <2>2a, <2>3, <2>4, <2>5, <2>6, <2>7, <2>8, <2>9, <2>10, <2>11, <2>12,
       <2>13, <2>14, <2>15, <2>16, <2>17, <2>18, <2>19, <2>20, <2>21, <2>22, <2>23,
       <2>24
       DEF Next, Serve, Expire, Done, vars
<1>3. ControlFits /\ ListsOK => GhostInv
  BY DEF ListsOK, GhostInv
<1> QED
  BY <1>1, <1>2, <1>3, ControlStays, PTL DEF Spec

\* The name server lists no ghosts: every listed file was brought by its
\* server, or by a CREATE or CREATEFOLDER that succeeded, or by a CREATE that
\* waits for its server, whatever calls fail and however requests interleave.
THEOREM NoGhosts == AllRegisteredNoMove /\ Spec => []NoGhostFile
<1>1. GhostInv => NoGhostFile
  BY DEF GhostInv
<1> QED BY <1>1, GhostInvHolds, PTL

\* A server's list never has a name twice: add_file_to_server searches the list
\* and extends it in one critical section, and a removal leaves no copy behind.
THEOREM NamesListedOnce == AllRegisteredNoMove /\ Spec => []OneEntryPerServer
<1>1. GhostInv => OneEntryPerServer
  BY DEF GhostInv
<1> QED BY <1>1, GhostInvHolds, PTL
=============================================================================
