------------------------------ MODULE Transfer ------------------------------
(***************************************************************************)
(* READ, STREAM and EXEC: a file travels over a connection in messages,    *)
(* while writers, UNDO, DELETE and CREATE work on it (FileLifetime).       *)
(*                                                                         *)
(* For READ and STREAM the sender is the storage server's thread           *)
(* (ss_client_comm.c) and the receiver the client (client_ss_comm.c).  For *)
(* EXEC the receiver is the name server (client_handler.c), which then     *)
(* runs what it has received as a script.  The connection delivers         *)
(* messages in order until it is lost: one side is gone and the other gets *)
(* to know it, or nothing comes through and nobody does.                   *)
(*                                                                         *)
(* A file is as long as it has words, and a word fits into a message       *)
(* (STREAM cuts one off after 4095 bytes).                                 *)
(***************************************************************************)
EXTENDS FileLifetime

CONSTANTS
  SmallFile,  \* the longest file that goes with the first message of READ
  ChunkSize,  \* the length of a buffer, and of the longest chunk
  ScriptOf,   \* ScriptOf[c]: the temporary file of an EXEC: its user and the second
  NoScript,   \* a temporary file that is not there
  MaxBreaks   \* bound: connections that are lost

Readers == {c \in Conns : Op[c] \in Reads}

ASSUME TransferAssumption ==
  /\ SmallFile \in Nat /\ ChunkSize \in Nat \ {0} /\ MaxBreaks \in Nat
  /\ Readers \subseteq DOMAIN ScriptOf

\* No connection writes the file in place while a reader is served: there is no UNDO and
\* no rollback of a writer that is gone, and a CREATE only where nobody else can have put
\* the file there since it found no entry (README, section 4).
ReadersApart ==
  \A made \in Served : made \cap Readers # {} =>
    \A c \in made :
      /\ Op[c] # "UNDO" /\ c \notin MayVanish
      /\ Op[c] = "CREATE" =>
           \A d \in made \ {c} : Op[d] # "WRITE" /\ Op[d] # "CREATE"

\* No two EXECs of a user fall into one second.
ScriptsApart == \A c \in Readers, d \in Readers : ScriptOf[c] = ScriptOf[d] => c = d

VARIABLES
  size,       \* the file size the sender was told by ftell
  pos,        \* how far it has read
  buffer,     \* what it has read and not sent
  chan,       \* the messages on their way
  link,       \* whether the connection works
  rcv,        \* where the receiver is
  announced,  \* the file size the receiver was told
  got,        \* what it has received
  scripts,    \* the temporary files of EXEC
  ran,        \* what it has run
  opened,     \* what was in the file when the sender opened it
  breaks      \* connections lost so far

sender == <<size, pos, buffer, opened>>
receiver == <<rcv, announced, got, scripts, ran>>
transferVars == <<sender, chan, link, receiver, breaks>>
vars == <<lifetimeVars, transferVars>>

Waiting == {"first", "more"}
Final == {"complete", "failed", "refused", "ran"}

\* "broken" is noticed by both sides, "silent" by neither.
Links == {"up", "broken", "silent"}

TransferInit ==
  /\ Init
  /\ size = [c \in Readers |-> 0]
  /\ pos = [c \in Readers |-> 0]
  /\ buffer = [c \in Readers |-> <<>>]
  /\ chan = [c \in Readers |-> <<>>]
  /\ link = [c \in Readers |-> "up"]
  /\ rcv = [c \in Readers |-> IF pc[c] = "start" THEN "first" ELSE "refused"]
  /\ announced = [c \in Readers |-> 0]
  /\ got = [c \in Readers |-> <<>>]
  /\ scripts = [s \in {ScriptOf[c] : c \in Readers} |-> NoScript]
  /\ ran = [c \in Readers |-> NoScript]
  /\ opened = [c \in Readers |-> <<>>]
  /\ breaks = 0
-----------------------------------------------------------------------------
(***************************************************************************)
(* The storage server                                                      *)
(***************************************************************************)
Message(kind, n, data) == [kind |-> kind, size |-> n, data |-> data]

\* send_message.  On a connection that is lost, the message goes nowhere, and the thread
\* goes on or is told, closes the file and returns.
Send(c, m, next) ==
  \E label \in {next, "done"} :
    /\ link[c] = "up" => label = next
    /\ chan' = IF link[c] = "up" THEN [chan EXCEPT ![c] = Append(@, m)] ELSE chan
    /\ src' = IF label = "done" THEN [src EXCEPT ![c] = NoFile] ELSE src
    /\ Goto(c, label)

\* has_read_access_ll.  For EXEC the name server has checked, and the storage server
\* does not.
StartRead(c) ==
  /\ pc[c] = "start"
  /\ IF known \/ Op[c] = "EXEC"
     THEN Goto(c, "open") /\ UNCHANGED <<chan, src>>
     ELSE Send(c, Message("error", 0, <<>>), "done")
  /\ UNCHANGED <<disk, memory, mutexes, dst, at, obj, result, sender, link, receiver, breaks>>

OpenMissing(c) ==
  /\ pc[c] = "open" /\ file = NoFile
  /\ Send(c, Message("error", 0, <<>>), "done")
  /\ UNCHANGED <<disk, memory, mutexes, dst, at, obj, result, sender, link, receiver, breaks>>

\* fopen and ftell.
OpenFile(c) ==
  /\ pc[c] = "open" /\ file # NoFile
  /\ src' = [src EXCEPT ![c] = file]
  /\ size' = [size EXCEPT ![c] = Len(content[file])]
  /\ opened' = [opened EXCEPT ![c] = content[file]]
  /\ Goto(c, IF Op[c] = "STREAM" THEN "chunks" ELSE "first")
  /\ UNCHANGED <<disk, memory, mutexes, dst, at, obj, result, pos, buffer,
                 chan, link, receiver, breaks>>

Least(m, n) == IF m < n THEN m ELSE n

\* fread of up to n words; READ does not read past the size it has announced.
Block(c, n) ==
  LET text == content[src[c]]
      end == IF Op[c] = "READ" THEN Least(size[c], Len(text)) ELSE Len(text)
  IN  SubSeq(text, pos[c] + 1, Least(pos[c] + n, end))

\* The first message: the size, and for a small READ the file.
SendFirst(c) ==
  /\ pc[c] = "first"
  /\ IF Op[c] = "READ" /\ size[c] <= SmallFile
     THEN Send(c, Message("first", size[c], Block(c, size[c])), "done")
     ELSE Send(c, Message("first", size[c], <<>>), "chunks")
  /\ UNCHANGED <<disk, memory, mutexes, dst, at, obj, result, sender, link, receiver, breaks>>

ReadBlock(c) ==
  /\ pc[c] = "chunks" /\ buffer[c] = <<>> /\ Block(c, ChunkSize) # <<>>
  /\ buffer' = [buffer EXCEPT ![c] = Block(c, ChunkSize)]
  /\ pos' = [pos EXCEPT ![c] = @ + Len(Block(c, ChunkSize))]
  /\ UNCHANGED <<lifetimeVars, size, opened, chan, link, receiver, breaks>>

\* STREAM sends word by word, READ and EXEC the whole buffer.
SendChunk(c) ==
  /\ pc[c] = "chunks" /\ buffer[c] # <<>>
  /\ LET n == IF Op[c] = "STREAM" THEN 1 ELSE Len(buffer[c])
     IN  /\ Send(c, Message("chunk", n, SubSeq(buffer[c], 1, n)), "chunks")
         /\ buffer' = [buffer EXCEPT ![c] = SubSeq(@, n + 1, Len(@))]
  /\ UNCHANGED <<disk, memory, mutexes, dst, at, obj, result, size, pos, opened,
                 link, receiver, breaks>>

SendStop(c) ==
  /\ pc[c] = "chunks" /\ buffer[c] = <<>> /\ Block(c, ChunkSize) = <<>>
  /\ Send(c, Message("stop", 0, <<>>), "done")
  /\ UNCHANGED <<disk, memory, mutexes, dst, at, obj, result, sender, link, receiver, breaks>>

\* The thread's next step is a send_message.
Sends(c) ==
  \/ pc[c] = "start" /\ ~known /\ Op[c] # "EXEC"
  \/ pc[c] = "open" /\ file = NoFile
  \/ pc[c] = "first"
  \/ pc[c] = "chunks" /\ (buffer[c] # <<>> \/ Block(c, ChunkSize) = <<>>)

\* send_message to a peer that is gone: SIGPIPE, which nobody ignores, ends the storage
\* server with all its threads.  It is started again with what is on the disk; a request
\* that has not begun is for the new one.  What the old one had sent still arrives, and
\* then the end of the connection.
Killed(c) ==
  /\ Sends(c) /\ link[c] = "broken"
  /\ cache' = <<>> /\ live' = {}
  /\ words' = [o \in Objects |-> <<>>]
  /\ refcount' = [o \in Objects |-> 0]
  /\ marked' = [o \in Objects |-> FALSE]
  /\ commit_mutex' = Nobody /\ undo_mutex' = Nobody
  /\ pc' = [d \in Conns |-> IF d # c /\ pc[d] = "start" THEN "start" ELSE "done"]
  /\ at' = [d \in Conns |-> "call"]
  /\ obj' = [d \in Conns |-> NoObject]
  /\ src' = [d \in Conns |-> NoFile]
  /\ dst' = [d \in Conns |-> NoFile]
  /\ link' = [r \in Readers |-> IF link[r] = "up" /\ pc[r] \notin {"start", "done"}
                               THEN "broken" ELSE link[r]]
  /\ UNCHANGED <<disk, result, sender, chan, receiver, breaks>>

\* The connection is lost, and with it some of the messages on their way.
Break(c) ==
  /\ link[c] = "up" /\ rcv[c] \in Waiting /\ breaks < MaxBreaks
  /\ \E how \in Links \ {"up"} : link' = [link EXCEPT ![c] = how]
  /\ \E n \in 0 .. Len(chan[c]) : chan' = [chan EXCEPT ![c] = SubSeq(@, 1, n)]
  /\ breaks' = breaks + 1
  /\ UNCHANGED <<lifetimeVars, sender, receiver>>
-----------------------------------------------------------------------------
(***************************************************************************)
(* The client, or for EXEC the name server                                 *)
(***************************************************************************)
Arrives(c, kind) ==
  /\ rcv[c] \in Waiting /\ chan[c] # <<>> /\ Head(chan[c]).kind = kind
  /\ chan' = [chan EXCEPT ![c] = Tail(@)]

ReceiverAt(c, label) == rcv' = [rcv EXCEPT ![c] = label]

ReceiveError(c) ==
  /\ Arrives(c, "error")
  /\ ReceiverAt(c, "refused")
  /\ UNCHANGED <<lifetimeVars, sender, link, announced, got, scripts, ran, breaks>>

\* The size decides whether this was all.  EXEC allocates a buffer of that size.
ReceiveFirst(c) ==
  /\ Arrives(c, "first")
  /\ LET n == Head(chan[c]).size
     IN  /\ announced' = [announced EXCEPT ![c] = n]
         /\ got' = [got EXCEPT ![c] = Head(chan[c]).data]
         /\ ReceiverAt(c, IF Op[c] = "READ" THEN IF n <= SmallFile THEN "complete" ELSE "more"
                                            ELSE IF n = 0 THEN "script" ELSE "more")
  /\ UNCHANGED <<lifetimeVars, sender, link, scripts, ran, breaks>>

\* EXEC stops receiving once it has as many bytes as announced.
ReceiveChunk(c) ==
  /\ Arrives(c, "chunk")
  /\ got' = [got EXCEPT ![c] = @ \o Head(chan[c]).data]
  /\ ReceiverAt(c, IF Op[c] = "EXEC" /\ Len(got'[c]) >= announced[c] THEN "script" ELSE "more")
  /\ UNCHANGED <<lifetimeVars, sender, link, announced, scripts, ran, breaks>>

\* STOP: "File transfer complete", "End of stream", or the script is run.
ReceiveStop(c) ==
  /\ Arrives(c, "stop")
  /\ ReceiverAt(c, IF Op[c] = "EXEC" THEN "script" ELSE "complete")
  /\ UNCHANGED <<lifetimeVars, sender, link, announced, got, scripts, ran, breaks>>

\* The receiver gets to know that there is nothing more to come: the connection broke, or
\* the storage server's thread has closed it (close_socket, after the handler's return).
Closed(c) == link[c] = "broken" \/ (link[c] = "up" /\ pc[c] = "done")

\* Mutant of ConnectionLost: the loop that receives ends as if the file had.
LostAsEnd(c) ==
  /\ rcv[c] \in Waiting /\ chan[c] = <<>> /\ Closed(c)
  /\ ReceiverAt(c, IF Op[c] = "EXEC" THEN "script" ELSE "complete")
  /\ UNCHANGED <<lifetimeVars, sender, chan, link, announced, got, scripts, ran, breaks>>

\* Mutant of ConnectionLost: the loop over the chunks goes on when receive_message fails.
LostInLoop(c) ==
  /\ rcv[c] = "first" /\ chan[c] = <<>> /\ Closed(c)
  /\ ReceiverAt(c, "failed")
  /\ UNCHANGED <<lifetimeVars, sender, chan, link, announced, got, scripts, ran, breaks>>

\* receive_message fails: an error is printed or answered.  A timeout is no failure: recv is
\* called again, however often.
ConnectionLost(c) ==
  /\ rcv[c] \in Waiting /\ chan[c] = <<>> /\ Closed(c)
  /\ ReceiverAt(c, "failed")
  /\ UNCHANGED <<lifetimeVars, sender, chan, link, announced, got, scripts, ran, breaks>>

WriteScript(c) ==
  /\ rcv[c] = "script"
  /\ scripts' = [scripts EXCEPT ![ScriptOf[c]] = got[c]]
  /\ ReceiverAt(c, "run")
  /\ UNCHANGED <<lifetimeVars, sender, chan, link, announced, got, ran, breaks>>

\* fopen of the temporary file fails.
ScriptFails(c) ==
  /\ rcv[c] = "script"
  /\ ReceiverAt(c, "failed")
  /\ UNCHANGED <<lifetimeVars, sender, chan, link, announced, got, scripts, ran, breaks>>

RunScript(c) ==
  /\ rcv[c] = "run"
  /\ ran' = [ran EXCEPT ![c] = scripts[ScriptOf[c]]]
  /\ ReceiverAt(c, "unlink")
  /\ UNCHANGED <<lifetimeVars, sender, chan, link, announced, got, scripts, breaks>>

\* popen fails, and the temporary file is unlinked.
RunFails(c) ==
  /\ rcv[c] = "run"
  /\ scripts' = [scripts EXCEPT ![ScriptOf[c]] = NoScript]
  /\ ReceiverAt(c, "failed")
  /\ UNCHANGED <<lifetimeVars, sender, chan, link, announced, got, ran, breaks>>

UnlinkScript(c) ==
  /\ rcv[c] = "unlink"
  /\ scripts' = [scripts EXCEPT ![ScriptOf[c]] = NoScript]
  /\ ReceiverAt(c, "ran")
  /\ UNCHANGED <<lifetimeVars, sender, chan, link, announced, got, ran, breaks>>
-----------------------------------------------------------------------------
SendStep(c) ==
  \/ StartRead(c) \/ OpenMissing(c) \/ OpenFile(c)
  \/ SendFirst(c) \/ ReadBlock(c) \/ SendChunk(c) \/ SendStop(c)

ReceiveStep(c) ==
  \/ ReceiveError(c) \/ ReceiveFirst(c) \/ ReceiveChunk(c) \/ ReceiveStop(c)
  \/ ConnectionLost(c) \/ WriteScript(c) \/ ScriptFails(c)
  \/ RunScript(c) \/ RunFails(c) \/ UnlinkScript(c)

Update(c) == UpdateStep(c) /\ UNCHANGED transferVars

\* The receiver waits for a message that will not come, and is not told.
WaitsInVain(c) == rcv[c] \in Waiting /\ chan[c] = <<>> /\ link[c] = "silent"

Done == /\ Ended
        /\ \A c \in Readers : pc[c] = "done" /\ (rcv[c] \in Final \/ WaitsInVain(c))
        /\ UNCHANGED vars

Next ==
  \/ \E c \in Conns \ Readers : Update(c)
  \/ \E c \in Readers : SendStep(c) \/ Killed(c) \/ ReceiveStep(c) \/ Break(c)
  \/ Done

Spec == TransferInit /\ [][Next]_vars

\* As long as a transfer can go on, at the sender or at the receiver, some transfer does.
FairSpec ==
  Spec /\ WF_vars(\E c \in Readers : SendStep(c) \/ ReceiveStep(c))
-----------------------------------------------------------------------------
(***************************************************************************)
(* Properties                                                              *)
(***************************************************************************)
TypeOK ==
  /\ LifetimeTypeOK
  /\ size \in [Readers -> Nat] /\ pos \in [Readers -> Nat]
  /\ announced \in [Readers -> Nat] /\ link \in [Readers -> Links]
  /\ rcv \in [Readers -> Waiting \cup Final \cup {"script", "run", "unlink"}]

\* A client that is told its READ or STREAM is complete has what was in the file when
\* the server opened it, and an EXEC runs just that, no matter what is written, renamed,
\* deleted or created meanwhile and where the connection breaks.
CompleteIsWhole ==
  \A c \in Readers :
    /\ rcv[c] = "complete" => got[c] = opened[c]
    /\ ran[c] # NoScript => ran[c] = opened[c]

\* handle_exec copies chunks into a buffer of the announced size and never past it.
ExecBufferHolds ==
  \A c \in Readers : Op[c] = "EXEC" => Len(got[c]) <= announced[c]

\* Every transfer comes to an end the receiver knows of, though connections break and a
\* thread may take the whole server with it, unless its own connection was lost and
\* nothing shows it.
TransferEnds == <>(\A c \in Readers : rcv[c] \in Final \/ WaitsInVain(c))

\* "Connection timeout (60 seconds)" (ARCHITECTURE.md) and "Retry once more"
\* (network_utils.c): a receiver does not wait for ever, whatever becomes of the
\* connection.
TimeoutsEnd == <>(\A c \in Readers : rcv[c] \in Final)
=============================================================================
