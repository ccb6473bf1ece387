------------------------------ MODULE Queries ------------------------------
(***************************************************************************)
(* The name server's questions to storage servers, and the mutexes its     *)
(* threads hold meanwhile (client_handler.c, ss_manager.c).                *)
(*                                                                         *)
(* VIEW walks through the table of storage servers holding ss_list_mutex,  *)
(* and through the files of each holding its ss_mutex; on the way it asks  *)
(* the storage server who may see a file and what its details are.  Other  *)
(* threads serve INFO and the folder and checkpoint commands, CREATE,      *)
(* LIST and the registration of clients.  Storage servers crash, and come  *)
(* back listening, but answer nothing until the name server has            *)
(* acknowledged their registration (storage_server.c).                     *)
(*                                                                         *)
(* receive_message starts again after each timeout of 60 seconds, so that  *)
(* a wait ends with an answer or a broken connection and a timeout is not  *)
(* a step.  An action is a critical section, a stretch between two, or the *)
(* part of one before or after a question.                                 *)
(***************************************************************************)
EXTENDS Integers, Sequences, SequencesExt, FiniteSets

CONSTANTS
  Conns,           \* the client connections, one thread each
  Served,          \* which are made, which servers may crash or are new: a set of sets
  Op,              \* Op[c]: the request
  UserOf,          \* UserOf[c]: its user
  FileOf,          \* FileOf[c]: its filename
  ShowAll,         \* the VIEWs with flag -a
  ShowLong,        \* the VIEWs with flag -l
  Servers,         \* the storage servers; s also names the thread that registers s
  InitialServers,  \* those already registered, in the order they did
  FileList,        \* FileList[s]: the files of s at first, with their owners
  Granted,         \* pairs of a user and a file that is in its access list
  Resembles,       \* pairs of users: the entry of the first is found in that of the second
  MayRestart,      \* the storage servers that are started again after a crash
  MaxClients,      \* MAX_CLIENTS
  MaxServers,      \* MAX_STORAGE_SERVERS
  MaxFiles,        \* MAX_FILES_PER_SERVER
  MaxLines,        \* how many files fit into the answer to VIEW
  Nobody           \* the owner of a free mutex

\* Requests that are one question to the storage server of a file.
Relayed == {"INFO", "VIEWFOLDER", "CHECKPOINT", "VIEWCHECKPOINT", "REVERT",
            "LISTCHECKPOINTS"}
Ops == Relayed \cup {"VIEW", "CREATE", "LIST", "REGISTER"}

ASSUME QueriesAssumption ==
  /\ Op \in [Conns -> Ops]
  /\ Conns \subseteq DOMAIN UserOf /\ Conns \subseteq DOMAIN FileOf
  /\ ShowAll \subseteq Conns /\ ShowLong \subseteq Conns
  /\ Served \subseteq SUBSET (Conns \cup Servers)
  /\ Conns \cap Servers = {} /\ Nobody \notin Conns \cup Servers
  /\ InitialServers \in Seq(Servers) /\ InitialServers # <<>> /\ IsInjective(InitialServers)
  /\ \A s \in Servers : FileList[s] \in Seq(ToSet(FileList[s]))
  /\ {MaxClients, MaxServers, MaxFiles, MaxLines} \subseteq Nat

VARIABLES
  ss_list,           \* storage_servers[0 .. ss_count-1]
  files,             \* files[s]: what the name server lists for s
  next_ss_index,     \* round-robin position
  clients,           \* the usernames of clients[0 .. client_count-1]
  ss_list_mutex, assignment_mutex,  \* their owners
  ss_mutex,          \* ss_mutex[s]: its owner
  stored,            \* stored[s]: the files that s has metadata for
  process,           \* process[s]: "up", "down", or "booting"
  crashes,           \* crashes[s]: how often s may still crash
  pc,                \* where each thread is
  ss_index, index,   \* the loop variables of VIEW, and of print_server_status
  lines,             \* what VIEW or LIST has listed so far
  guessed,           \* the files whose access a VIEW looked up in uninitialised metadata
  target,            \* the storage server a thread deals with
  call,              \* the question: "none", "sent", "refused", "lost", the error_code, or
                     \* "unset": success, with metadata that nobody filled in
  reply              \* the answer to the client: its msg_type and error_code

table == <<ss_list, files, next_ss_index, clients>>
mutexes == <<ss_list_mutex, assignment_mutex, ss_mutex>>
storage == <<stored, process, crashes>>
loops == <<ss_index, index, lines, guessed>>
question == <<target, call>>
vars == <<table, mutexes, storage, pc, loops, question, reply>>

Threads == Conns \cup Servers
Codes == {"SUCCESS", "FILE_NOT_FOUND", "FILE_EXISTS", "SERVER_ERROR", "CONNECTION_FAILED",
          "NO_WRITE_ACCESS"}
Message(type, code) == [msg_type |-> type, error_code |-> code]
NoReply == Message("none", "SUCCESS")

Init ==
  /\ ss_list = InitialServers
  /\ files = [s \in Servers |-> IF s \in ToSet(InitialServers) THEN FileList[s] ELSE <<>>]
  /\ next_ss_index = 1
  /\ clients = <<>>
  /\ ss_list_mutex = Nobody /\ assignment_mutex = Nobody
  /\ ss_mutex = [s \in Servers |-> Nobody]
  /\ stored = [s \in Servers |-> {f.filename : f \in ToSet(FileList[s])}]
  /\ \E made \in Served :
       LET new == (made \cap Servers) \ ToSet(InitialServers)
       IN  /\ crashes = [s \in Servers |-> IF s \in made \ new THEN 1 ELSE 0]
           /\ process = [s \in Servers |-> CASE s \in ToSet(InitialServers) -> "up"
                                              [] s \in new -> "booting"
                                              [] OTHER -> "down"]
           /\ pc = [t \in Threads |-> CASE t \in new -> "register"
                                        [] t \in Conns \cap made -> "start"
                                        [] OTHER -> "done"]
  /\ ss_index = [t \in Threads |-> 1]
  /\ index = [c \in Conns |-> 1]
  /\ lines = [c \in Conns |-> <<>>]
  /\ guessed = [c \in Conns |-> {}]
  /\ target = [c \in Conns |-> ss_list[1]]
  /\ call = [c \in Conns |-> "none"]
  /\ reply = [c \in Conns |-> NoReply]

Least(i, j) == IF i < j THEN i ELSE j

Goto(t, label) == pc' = [pc EXCEPT ![t] = label]

Answer(c, type, code) ==
  /\ Goto(c, "done")
  /\ reply' = [reply EXCEPT ![c] = Message(type, code)]

\* find_file gives a file of that name on one of these.
Holders(n) == {s \in ToSet(ss_list) : \E f \in ToSet(files[s]) : f.filename = n}
Owner(s, n) == (CHOOSE f \in ToSet(files[s]) : f.filename = n).owner
-----------------------------------------------------------------------------
(***************************************************************************)
(* Questions to storage servers                                            *)
(***************************************************************************)

\* connect_to_server and send_message: a process that listens accepts both, even while
\* it does not serve yet.
Ask(c, s) ==
  /\ target' = [target EXCEPT ![c] = s]
  /\ call' = [call EXCEPT ![c] = IF process[s] = "down" THEN "refused" ELSE "sent"]

Answered(c) == call[c] \notin {"none", "sent"}

\* What the question is about: the file VIEW is at, or the one in the request.
Subject(c) == IF Op[c] = "VIEW" THEN files[target[c]][index[c]].filename ELSE FileOf[c]

\* handle_nm_connection: the error_code of its answer.  The msg_type is never MSG_ERROR.
\* get_file_metadata_ll reports a missing entry with a positive code, which INFO takes for
\* success.  A file may fail to be opened, a checkpoint may be missing or fail to be copied,
\* a name may not be a folder, and a file may fail to be made; one that is there already is
\* taken for made.
Outcomes(op, there) ==
  CASE op \in {"VIEW", "INFO"}               -> {IF there THEN "SUCCESS" ELSE "unset"}
    [] op \in {"VIEWFOLDER", "VIEWCHECKPOINT"} -> {"SUCCESS", "FILE_NOT_FOUND"}
    [] op \in {"CHECKPOINT", "REVERT"}       -> {"SUCCESS", "FILE_NOT_FOUND", "SERVER_ERROR"}
    [] op = "CREATE"                         -> {"SUCCESS", "SERVER_ERROR"}
    [] op = "LISTCHECKPOINTS"                -> {"SUCCESS"}

\* The storage server takes the question, does what it asks and answers.
Serve(s) ==
  /\ process[s] = "up"
  /\ \E c \in Conns :
       /\ call[c] = "sent" /\ target[c] = s
       /\ \E code \in Outcomes(Op[c], Subject(c) \in stored[s]) :
            /\ call' = [call EXCEPT ![c] = code]
            /\ stored' = IF Op[c] = "CREATE" /\ code = "SUCCESS"
                         THEN [stored EXCEPT ![s] = @ \cup {Subject(c)}] ELSE stored
  /\ UNCHANGED <<table, mutexes, process, crashes, pc, loops, target, reply>>

\* The questions a storage server has been sent and not answered.
Unanswered(s) == {c \in Conns : call[c] = "sent" /\ target[c] = s}

\* The connections of a process that dies are closed.  It may have made the file that a
\* CREATE asks for without having answered.
Crash(s) ==
  /\ process[s] = "up" /\ crashes[s] > 0
  /\ \E carried_out \in SUBSET {c \in Unanswered(s) : Op[c] = "CREATE"} :
       stored' = [stored EXCEPT ![s] = @ \cup {FileOf[c] : c \in carried_out}]
  /\ process' = [process EXCEPT ![s] = "down"]
  /\ crashes' = [crashes EXCEPT ![s] = @ - 1]
  /\ call' = [c \in Conns |-> IF c \in Unanswered(s) THEN "lost" ELSE call[c]]
  /\ UNCHANGED <<table, mutexes, pc, loops, target, reply>>
-----------------------------------------------------------------------------
(***************************************************************************)
(* Registration of storage servers and of clients                          *)
(***************************************************************************)

\* start_server listens, then registers and waits for the acknowledgment.
Restart(s) ==
  /\ process[s] = "down" /\ s \in MayRestart
  /\ process' = [process EXCEPT ![s] = "booting"]
  /\ Goto(s, "register")
  /\ UNCHANGED <<table, mutexes, stored, crashes, loops, question, reply>>

RegisterLock(s) ==
  /\ pc[s] = "register" /\ ss_list_mutex = Nobody
  /\ ss_list_mutex' = s
  /\ Goto(s, "enter")
  /\ UNCHANGED <<table, assignment_mutex, ss_mutex, storage, loops, question, reply>>

\* A known server gets its addresses updated, a new one comes with its files.
Reconnect(s) ==
  /\ pc[s] = "enter" /\ s \in ToSet(ss_list) /\ ss_mutex[s] = Nobody
  /\ ss_list_mutex' = Nobody
  /\ Goto(s, "print")
  /\ ss_index' = [ss_index EXCEPT ![s] = 1]
  /\ UNCHANGED <<table, assignment_mutex, ss_mutex, storage, index, lines, guessed,
                 question, reply>>

RegisterNew(s) ==
  /\ pc[s] = "enter" /\ s \notin ToSet(ss_list) /\ Len(ss_list) < MaxServers
  /\ ss_mutex[s] = Nobody
  /\ ss_list' = Append(ss_list, s)
  /\ files' = [files EXCEPT ![s] = SubSeq(FileList[s], 1, Least(MaxFiles, Len(FileList[s])))]
  /\ ss_list_mutex' = Nobody
  /\ Goto(s, "print")
  /\ ss_index' = [ss_index EXCEPT ![s] = 1]
  /\ UNCHANGED <<next_ss_index, clients, assignment_mutex, ss_mutex, storage, index, lines,
                 guessed, question, reply>>

\* A storage server that is refused exits.
RegisterRefused(s) ==
  /\ pc[s] = "enter" /\ s \notin ToSet(ss_list) /\ Len(ss_list) >= MaxServers
  /\ ss_list_mutex' = Nobody
  /\ process' = [process EXCEPT ![s] = "down"]
  /\ Goto(s, "done")
  /\ UNCHANGED <<table, assignment_mutex, ss_mutex, stored, crashes, loops, question, reply>>

\* print_server_status takes the mutex of one server after the other.
PrintStatus(s) ==
  /\ pc[s] = "print" /\ ss_index[s] <= Len(ss_list)
  /\ ss_mutex[ss_list[ss_index[s]]] = Nobody
  /\ ss_index' = [ss_index EXCEPT ![s] = @ + 1]
  /\ UNCHANGED <<table, mutexes, storage, pc, index, lines, guessed, question, reply>>

\* The acknowledgment: now the storage server starts the threads that answer.
Acknowledge(s) ==
  /\ pc[s] = "print" /\ ss_index[s] > Len(ss_list)
  /\ process' = [process EXCEPT ![s] = "up"]
  /\ Goto(s, "done")
  /\ UNCHANGED <<table, mutexes, stored, crashes, loops, question, reply>>

\* register_client: one critical section of client_list_mutex.
RegisterClient(c) ==
  /\ pc[c] = "start" /\ Op[c] = "REGISTER"
  /\ LET known == UserOf[c] \in ToSet(clients)
         room == Len(clients) < MaxClients
     IN  /\ clients' = IF ~known /\ room THEN Append(clients, UserOf[c]) ELSE clients
         /\ Answer(c, "ACK", IF known \/ room THEN "SUCCESS" ELSE "SERVER_ERROR")
  /\ UNCHANGED <<ss_list, files, next_ss_index, mutexes, storage, loops, question>>

\* handle_list_files: the users, in one critical section of client_list_mutex.
ListClients(c) ==
  /\ pc[c] = "start" /\ Op[c] = "LIST"
  /\ lines' = [lines EXCEPT ![c] = clients]
  /\ Answer(c, "RESPONSE", "SUCCESS")
  /\ UNCHANGED <<table, mutexes, storage, ss_index, index, guessed, question>>
-----------------------------------------------------------------------------
(***************************************************************************)
(* VIEW                                                                    *)
(***************************************************************************)
ViewServer(c) == ss_list[ss_index[c]]
ViewFile(c) == files[ViewServer(c)][index[c]]

ViewLock(c) ==
  /\ pc[c] = "start" /\ Op[c] = "VIEW" /\ ss_list_mutex = Nobody
  /\ ss_list_mutex' = c
  /\ Goto(c, "server")
  /\ UNCHANGED <<table, assignment_mutex, ss_mutex, storage, loops, question, reply>>

ViewEnter(c) ==
  /\ pc[c] = "server" /\ ss_index[c] <= Len(ss_list) /\ ss_mutex[ViewServer(c)] = Nobody
  /\ ss_mutex' = [ss_mutex EXCEPT ![ViewServer(c)] = c]
  /\ index' = [index EXCEPT ![c] = 1]
  /\ Goto(c, "file")
  /\ UNCHANGED <<table, ss_list_mutex, assignment_mutex, storage, ss_index, lines,
                 guessed, question, reply>>

\* All files with -a, one's own otherwise; for others user_has_access asks.
ViewNeedsNoCheck(c) == c \in ShowAll \/ ViewFile(c).owner = UserOf[c]

ViewVisible(c) ==
  /\ pc[c] = "file" /\ index[c] <= Len(files[ViewServer(c)]) /\ ViewNeedsNoCheck(c)
  /\ Goto(c, "show")
  /\ UNCHANGED <<table, mutexes, storage, loops, question, reply>>

ViewAskAccess(c) ==
  /\ pc[c] = "file" /\ index[c] <= Len(files[ViewServer(c)]) /\ ~ViewNeedsNoCheck(c)
  /\ Ask(c, ViewServer(c))
  /\ Goto(c, "access")
  /\ UNCHANGED <<table, mutexes, storage, loops, reply>>

\* user_has_access searches the text of the answer for the name: what it may return.
user_has_access(c) ==
  LET found == {UserOf[c]} \cup {p[2] : p \in {q \in Resembles : q[1] = UserOf[c]}}
      named == \E u \in found : u = ViewFile(c).owner \/ <<u, ViewFile(c).filename>> \in Granted
  IN  CASE call[c] = "SUCCESS" -> {named}
        [] call[c] = "unset"   -> BOOLEAN
        [] OTHER               -> {FALSE}

Guess(c) == guessed' = [guessed EXCEPT ![c] =
              IF call[c] = "unset" THEN @ \cup {ViewFile(c).filename} ELSE @]

\* Mutant of ViewAccess: a file that is skipped is looked at again.
ViewAccessAgain(c) ==
  /\ pc[c] = "access" /\ Answered(c)
  /\ \E seen \in user_has_access(c) : Goto(c, IF seen THEN "show" ELSE "file")
  /\ Guess(c)
  /\ call' = [call EXCEPT ![c] = "none"]
  /\ UNCHANGED <<table, mutexes, storage, ss_index, index, lines, target, reply>>

ViewAccess(c) ==
  /\ pc[c] = "access" /\ Answered(c)
  /\ \E seen \in user_has_access(c) :
       IF seen THEN Goto(c, "show") /\ UNCHANGED index
               ELSE Goto(c, "file") /\ index' = [index EXCEPT ![c] = @ + 1]
  /\ Guess(c)
  /\ call' = [call EXCEPT ![c] = "none"]
  /\ UNCHANGED <<table, mutexes, storage, ss_index, lines, target, reply>>

\* One more line, or the answer is full: both mutexes are given back and it is sent.
ViewLine(c, line) ==
  IF Len(lines[c]) < MaxLines
  THEN /\ lines' = [lines EXCEPT ![c] = Append(@, line)]
       /\ index' = [index EXCEPT ![c] = @ + 1]
       /\ Goto(c, "file")
       /\ UNCHANGED <<ss_list_mutex, ss_mutex, reply>>
  ELSE /\ ss_mutex' = [ss_mutex EXCEPT ![ViewServer(c)] = Nobody]
       /\ ss_list_mutex' = Nobody
       /\ Answer(c, "RESPONSE", "SUCCESS")
       /\ UNCHANGED <<lines, index>>

ViewShow(c) ==
  /\ pc[c] = "show" /\ c \notin ShowLong
  /\ ViewLine(c, [ss |-> ViewServer(c), filename |-> ViewFile(c).filename, details |-> FALSE])
  /\ UNCHANGED <<table, assignment_mutex, storage, ss_index, guessed, question>>

\* get_file_details.
ViewAskDetails(c) ==
  /\ pc[c] = "show" /\ c \in ShowLong
  /\ Ask(c, ViewServer(c))
  /\ Goto(c, "details")
  /\ UNCHANGED <<table, mutexes, storage, loops, reply>>

ViewDetails(c) ==
  /\ pc[c] = "details" /\ Answered(c)
  /\ ViewLine(c, [ss |-> ViewServer(c), filename |-> ViewFile(c).filename,
                  details |-> call[c] \in {"SUCCESS", "unset"}])
  /\ call' = [call EXCEPT ![c] = "none"]
  /\ UNCHANGED <<table, assignment_mutex, storage, ss_index, guessed, target>>

ViewLeave(c) ==
  /\ pc[c] = "file" /\ index[c] > Len(files[ViewServer(c)])
  /\ ss_mutex' = [ss_mutex EXCEPT ![ViewServer(c)] = Nobody]
  /\ ss_index' = [ss_index EXCEPT ![c] = @ + 1]
  /\ Goto(c, "server")
  /\ UNCHANGED <<table, ss_list_mutex, assignment_mutex, storage, index, lines,
                 guessed, question, reply>>

ViewEnd(c) ==
  /\ pc[c] = "server" /\ ss_index[c] > Len(ss_list)
  /\ ss_list_mutex' = Nobody
  /\ Answer(c, "RESPONSE", "SUCCESS")
  /\ UNCHANGED <<table, assignment_mutex, ss_mutex, storage, loops, question>>
-----------------------------------------------------------------------------
(***************************************************************************)
(* INFO, and the folder and checkpoint commands                            *)
(***************************************************************************)

RelayMissing(c) ==
  /\ pc[c] = "start" /\ Op[c] \in Relayed /\ Holders(FileOf[c]) = {}
  /\ Answer(c, "ERROR", "FILE_NOT_FOUND")
  /\ UNCHANGED <<table, mutexes, storage, loops, question>>

RelayAsk(c) ==
  /\ pc[c] = "start" /\ Op[c] \in Relayed
  /\ \E s \in Holders(FileOf[c]) :
       IF Op[c] = "REVERT" /\ Owner(s, FileOf[c]) # UserOf[c]
       THEN Answer(c, "ERROR", "NO_WRITE_ACCESS") /\ UNCHANGED question
       ELSE Ask(c, s) /\ Goto(c, "relay") /\ UNCHANGED reply
  /\ UNCHANGED <<table, mutexes, storage, loops>>

\* CHECKPOINT and REVERT look at the msg_type of the storage server's answer and send
\* one of their own; the others pass on type and code.  INFO's answer is a MSG_RESPONSE.
RelayAnswer(c) ==
  /\ pc[c] = "relay" /\ Answered(c)
  /\ IF call[c] = "refused" THEN Answer(c, "ERROR", "CONNECTION_FAILED")
     ELSE IF call[c] = "lost" THEN Answer(c, "ERROR", "SERVER_ERROR")
     ELSE IF Op[c] \in {"CHECKPOINT", "REVERT"} THEN Answer(c, "RESPONSE", "SUCCESS")
     ELSE Answer(c, IF Op[c] = "INFO" THEN "RESPONSE" ELSE "ACK",
                 IF call[c] = "unset" THEN "SUCCESS" ELSE call[c])
  /\ UNCHANGED <<table, mutexes, storage, loops, question>>
-----------------------------------------------------------------------------
(***************************************************************************)
(* CREATE                                                                  *)
(***************************************************************************)
CreateFind(c) ==
  /\ pc[c] = "start" /\ Op[c] = "CREATE"
  /\ IF Holders(FileOf[c]) = {} THEN Goto(c, "assign") /\ UNCHANGED reply
                                ELSE Answer(c, "ACK", "FILE_EXISTS")
  /\ UNCHANGED <<table, mutexes, storage, loops, question>>

\* get_available_storage_server waits for a server's mutex with assignment_mutex held.
AssignLock(c) ==
  /\ pc[c] = "assign" /\ assignment_mutex = Nobody
  /\ assignment_mutex' = c
  /\ Goto(c, "pick")
  /\ UNCHANGED <<table, ss_list_mutex, ss_mutex, storage, loops, question, reply>>

\* Mutant of AssignPick: the round-robin position does not wrap around.
AssignOnward(c) ==
  /\ pc[c] = "pick" /\ ss_mutex[ss_list[next_ss_index]] = Nobody
  /\ target' = [target EXCEPT ![c] = ss_list[next_ss_index]]
  /\ next_ss_index' = next_ss_index + 1
  /\ assignment_mutex' = Nobody
  /\ Goto(c, "add")
  /\ UNCHANGED <<ss_list, files, clients, ss_list_mutex, ss_mutex, storage, loops, call, reply>>

AssignPick(c) ==
  /\ pc[c] = "pick" /\ ss_mutex[ss_list[next_ss_index]] = Nobody
  /\ target' = [target EXCEPT ![c] = ss_list[next_ss_index]]
  /\ next_ss_index' = (next_ss_index % Len(ss_list)) + 1
  /\ assignment_mutex' = Nobody
  /\ Goto(c, "add")
  /\ UNCHANGED <<ss_list, files, clients, ss_list_mutex, ss_mutex, storage, loops, call, reply>>

\* add_file_to_server.
CreateAdd(c) ==
  LET s == target[c]
  IN  /\ pc[c] = "add" /\ ss_mutex[s] = Nobody
      /\ \/ /\ Len(files[s]) >= MaxFiles
            /\ Answer(c, "ACK", "SERVER_ERROR")
            /\ UNCHANGED <<files, question>>
         \/ /\ Len(files[s]) < MaxFiles /\ s \in Holders(FileOf[c])
            /\ Answer(c, "ACK", "FILE_EXISTS")
            /\ UNCHANGED <<files, question>>
         \/ /\ Len(files[s]) < MaxFiles /\ s \notin Holders(FileOf[c])
            /\ files' = [files EXCEPT ![s] =
                           Append(@, [filename |-> FileOf[c], owner |-> UserOf[c]])]
            /\ Ask(c, s)
            /\ Goto(c, "created")
            /\ UNCHANGED reply
      /\ UNCHANGED <<ss_list, next_ss_index, clients, mutexes, storage, loops>>

\* Mutant of Created: every answer of the storage server is taken for success.
CreatedAnyhow(c) ==
  /\ pc[c] = "created" /\ call[c] \in Codes
  /\ Answer(c, "ACK", "SUCCESS")
  /\ UNCHANGED <<table, mutexes, storage, loops, question>>

Created(c) ==
  /\ pc[c] = "created" /\ call[c] = "SUCCESS"
  /\ Answer(c, "ACK", "SUCCESS")
  /\ UNCHANGED <<table, mutexes, storage, loops, question>>

\* Mutant of CreateRemove: without ss_mutex.
RemoveUnlocked(c) ==
  /\ pc[c] = "created" /\ Answered(c) /\ call[c] # "SUCCESS"
  /\ files' = [files EXCEPT ![target[c]] =
                 RemoveFirstMatch(@, LAMBDA f : f.filename = FileOf[c])]
  /\ Answer(c, "ACK", "CONNECTION_FAILED")
  /\ UNCHANGED <<ss_list, next_ss_index, clients, mutexes, storage, loops, question>>

\* remove_file_from_server, when the storage server failed or could not be asked.
CreateRemove(c) ==
  /\ pc[c] = "created" /\ Answered(c) /\ call[c] # "SUCCESS"
  /\ ss_mutex[target[c]] = Nobody
  /\ files' = [files EXCEPT ![target[c]] =
                 RemoveFirstMatch(@, LAMBDA f : f.filename = FileOf[c])]
  /\ Answer(c, "ACK", IF call[c] \in Codes THEN call[c] ELSE "CONNECTION_FAILED")
  /\ UNCHANGED <<ss_list, next_ss_index, clients, mutexes, storage, loops, question>>
-----------------------------------------------------------------------------
Register(s) == \/ RegisterLock(s) \/ Reconnect(s) \/ RegisterNew(s) \/ RegisterRefused(s)
               \/ PrintStatus(s) \/ Acknowledge(s)

View(c) == \/ ViewLock(c) \/ ViewEnter(c) \/ ViewVisible(c) \/ ViewAskAccess(c) \/ ViewAccess(c)
           \/ ViewShow(c) \/ ViewAskDetails(c) \/ ViewDetails(c) \/ ViewLeave(c) \/ ViewEnd(c)

Create(c) == \/ CreateFind(c) \/ AssignLock(c) \/ AssignPick(c) \/ CreateAdd(c)
             \/ Created(c) \/ CreateRemove(c)

Handle(c) == \/ View(c) \/ Create(c)
             \/ RelayMissing(c) \/ RelayAsk(c) \/ RelayAnswer(c)
             \/ RegisterClient(c) \/ ListClients(c)

\* Every client has its answer and no storage server is starting.
Quiet == (\A t \in Threads : pc[t] = "done") /\ UNCHANGED vars

Next == \/ \E c \in Conns : Handle(c)
        \/ \E s \in Servers : Register(s) \/ Serve(s) \/ Crash(s) \/ Restart(s)
        \/ Quiet

Spec == Init /\ [][Next]_vars

\* As long as some thread can go on, or a storage server that is up can answer, some of
\* them does: no thread needs to be favoured.  Crashes and restarts may or may not happen.
FairSpec ==
  Spec /\ WF_vars((\E c \in Conns : Handle(c)) \/ (\E s \in Servers : Register(s) \/ Serve(s)))
-----------------------------------------------------------------------------
(***************************************************************************)
(* The client: what its user is told (client_nm_comm.c)                    *)
(***************************************************************************)

\* The functions that test the error_code of the answer, and not only its msg_type.
TestsCode == {"VIEW", "LIST", "INFO", "CREATE", "REGISTER"}

ToldSuccess(c) ==
  /\ pc[c] = "done" /\ reply[c].msg_type \notin {"none", "ERROR"}
  /\ Op[c] \in TestsCode => reply[c].error_code = "SUCCESS"
-----------------------------------------------------------------------------
(***************************************************************************)
(* Properties                                                              *)
(***************************************************************************)
TypeOK ==
  /\ ss_list \in Seq(Servers) /\ next_ss_index \in DOMAIN ss_list
  /\ DOMAIN files = Servers /\ DOMAIN stored = Servers
  /\ {ss_list_mutex, assignment_mutex} \subseteq Threads \cup {Nobody}
  /\ ss_mutex \in [Servers -> Conns \cup {Nobody}]
  /\ process \in [Servers -> {"up", "down", "booting"}]
  /\ target \in [Conns -> Servers]
  /\ call \in [Conns -> {"none", "sent", "refused", "lost", "unset"} \cup Codes]
  /\ \A c \in Conns : reply[c].error_code \in Codes

\* The lines of a VIEW for the server it is at.
Listed(c) ==
  {l.filename : l \in {m \in ToSet(lines[c]) : m.ss = ViewServer(c)}}

Passed(c) ==
  {files[ViewServer(c)][k] : k \in {k \in DOMAIN files[ViewServer(c)] : k < index[c]}}

\* A VIEW at its index-th file has listed, of those before it, every file its user owns
\* (with -a, every file), and no file its user may not see unless the storage server had
\* no metadata to answer from, although files are created and taken back, storage servers
\* fail and answers are missing while it asks.
ViewConsistent ==
  \A c \in Conns : Op[c] = "VIEW" /\ pc[c] \in {"file", "access", "show", "details"} =>
    LET own == {f \in Passed(c) : c \in ShowAll \/ f.owner = UserOf[c]}
        granted == {f \in Passed(c) : \/ <<UserOf[c], f.filename>> \in Granted
                                      \/ f.filename \in guessed[c]}
    IN  /\ {f.filename : f \in own} \subseteq Listed(c)
        /\ Listed(c) \subseteq {f.filename : f \in own \cup granted}

\* A client tells its user that a file was created only when the storage server has it
\* and the name server lists it there, whatever other CREATEs of the name take back and
\* whatever crashes on the way.
SuccessIsReal ==
  \A c \in Conns : Op[c] = "CREATE" /\ ToldSuccess(c) =>
    FileOf[c] \in stored[target[c]] /\ target[c] \in Holders(FileOf[c])

AllDone == \A t \in Threads : pc[t] = "done"

\* Every request is answered, and every storage server that registers gets to serve or is
\* refused: no thread waits for ever for a mutex or an answer.
RequestsAnswered == <>[]AllDone

\* A VIEW waits for the answer of a storage server that starts, and the thread that
\* registers this server has yet to take a mutex the VIEW holds: ss_list_mutex, or in
\* print_server_status the server's ss_mutex.
ViewWaitsForStart(c) ==
  LET s == target[c]
  IN  /\ Op[c] = "VIEW" /\ call[c] = "sent" /\ process[s] = "booting"
      /\ \/ pc[s] = "register"
         \/ pc[s] = "print" /\ \E k \in ss_index[s] .. Len(ss_list) : ss_list[k] = s

\* There is one deadlock: every request is answered and every storage server that
\* registers gets to serve or is refused, unless a VIEW and the storage server it asks
\* wait for each other.
OnlyStartsBlock == <>[](AllDone \/ \E c \in Conns : ViewWaitsForStart(c))
=============================================================================
