--------------------------- MODULE QueriesProofs ----------------------------
(***************************************************************************)
(* Proofs about Queries: a VIEW lists what it should although it waits for *)
(* storage servers on the way, and a CREATE that is told success has its   *)
(* file, for any number of clients, storage servers and files.             *)
(***************************************************************************)
EXTENDS Queries, ListLemmas

\* What the name server keeps of a file, and what VIEW prints of one.
NewEntry(c) == [filename |-> FileOf[c], owner |-> UserOf[c]]
Entry == (UNION {ToSet(FileList[s]) : s \in Servers}) \cup {NewEntry(c) : c \in Conns}
Names == {e.filename : e \in Entry}
Users == {UserOf[c] : c \in Conns}
Line == [ss : Servers, filename : Names, details : BOOLEAN]

\* The places of VIEW inside a server's critical section, all of its places, those of
\* CREATE, and all.
Inside == {"file", "access", "show", "details"}
Viewing == Inside \cup {"server"}
Creating == {"assign", "pick", "add", "created"}
Labels == Viewing \cup Creating \cup {"start", "done", "relay", "register", "enter", "print"}

\* What a place says about the request.
Places ==
  \A c \in Conns :
    /\ pc[c] \in Viewing => Op[c] = "VIEW"
    /\ pc[c] \in Creating => Op[c] = "CREATE"
    /\ pc[c] = "relay" => Op[c] \in Relayed
    /\ call[c] = "sent" => Op[c] \in Relayed \cup {"VIEW", "CREATE"}

\* The types that the steps rely on, beyond TypeOK.
Types ==
  /\ ss_list # <<>> /\ IsInjective(ss_list)
  /\ files \in [Servers -> Seq(Entry)] /\ stored \in [Servers -> SUBSET Names]
  /\ clients \in Seq(Users)
  /\ pc \in [Threads -> Labels]
  /\ ss_index \in [Threads -> Nat \ {0}] /\ index \in [Conns -> Nat \ {0}]
  /\ lines \in [Conns -> Seq(Line) \cup Seq(Users)] /\ guessed \in [Conns -> SUBSET Names]
  /\ \A c \in Conns : Op[c] = "VIEW" => lines[c] \in Seq(Line)
  /\ reply \in [Conns -> [msg_type : {"none", "ACK", "ERROR", "RESPONSE"}, error_code : Codes]]

\* Inside a critical section a VIEW is at a server of the list and has its mutex.
Holding(c) ==
  pc[c] \in Inside => ss_index[c] <= Len(ss_list) /\ ss_mutex[ViewServer(c)] = c

\* The lines of a VIEW are about the servers it has come to.
Visited(c) ==
  /\ Op[c] = "VIEW" /\ pc[c] = "start" => lines[c] = <<>>
  /\ pc[c] \in Viewing =>
       \A l \in ToSet(lines[c]) : \E k \in DOMAIN ss_list :
         /\ l.ss = ss_list[k] /\ k <= ss_index[c]
         /\ pc[c] = "server" => k < ss_index[c]

\* The files a user sees without a question; those the answer to one may let it see, which
\* is searched for the user's name; and those that were guessed about.
Sees(c, f) == c \in ShowAll \/ f.owner = UserOf[c]
FoundAs(c) == {UserOf[c]} \cup {p[2] : p \in {q \in Resembles : q[1] = UserOf[c]}}
MaySee(c, f) == \/ Sees(c, f) \/ f.filename \in guessed[c]
                \/ \E u \in FoundAs(c) : u = f.owner \/ <<u, f.filename>> \in Granted

\* The file a VIEW waits for is one of the server's: one that needs to be asked about, or
\* one that may be shown.
Pending(c) ==
  /\ pc[c] \in {"access", "show", "details"} => index[c] <= Len(files[ViewServer(c)])
  /\ pc[c] = "access" => ~Sees(c, ViewFile(c))
  /\ pc[c] \in {"show", "details"} => MaySee(c, ViewFile(c))

\* ViewConsistent, file by file and line by line.
Shown(c) ==
  pc[c] \in Inside =>
    /\ \A k \in DOMAIN files[ViewServer(c)] :
         k < index[c] /\ Sees(c, files[ViewServer(c)][k]) =>
           \E l \in ToSet(lines[c]) :
             l.ss = ViewServer(c) /\ l.filename = files[ViewServer(c)][k].filename
    /\ \A l \in ToSet(lines[c]) : l.ss = ViewServer(c) =>
         \E k \in DOMAIN files[ViewServer(c)] :
           /\ k < index[c] /\ MaySee(c, files[ViewServer(c)][k])
           /\ l.filename = files[ViewServer(c)][k].filename

InView(c) == Holding(c) /\ Visited(c) /\ Pending(c) /\ Shown(c)

\* A CREATE that has its entry in a server's list, and has not taken it back.
Claims(c) ==
  /\ Op[c] = "CREATE"
  /\ \/ pc[c] = "created"
     \/ /\ pc[c] = "done" /\ reply[c].msg_type # "none"
        /\ reply[c].error_code = "SUCCESS"

\* A list of files has just one entry for the name n.
Once(fs, n) == \E k \in DOMAIN fs : \A j \in DOMAIN fs : (fs[j].filename = n) <=> (j = k)

\* The entry is there, and the file once the storage server has said so; no two CREATEs
\* have the same.
Claim(c) ==
  /\ pc[c] \in {"add", "created"} => target[c] \in ToSet(ss_list)
  /\ Claims(c) =>
       /\ target[c] \in ToSet(ss_list) /\ Once(files[target[c]], FileOf[c])
       /\ call[c] = "SUCCESS" \/ pc[c] = "done" => FileOf[c] \in stored[target[c]]
       /\ \A d \in Conns : Claims(d) /\ c # d => target[c] # target[d] \/ FileOf[c] # FileOf[d]

TypeInv == TypeOK /\ Types /\ Places
ViewInv == \A c \in Conns : InView(c)
ClaimInv == \A c \in Conns : Claim(c)
-----------------------------------------------------------------------------
USE QueriesAssumption DEF table, mutexes, storage, loops, question, vars, Threads

\* The lists of names and of entries are what is put into them.
LEMMA EntryTypes ==
  /\ \A s \in Servers : FileList[s] \in Seq(Entry)
  /\ \A c \in Conns : /\ NewEntry(c) \in Entry
                      /\ FileOf[c] \in Names /\ UserOf[c] \in Users
  /\ \A e \in Entry : e.filename \in Names
<1>1. ASSUME NEW s \in Servers PROVE FileList[s] \in Seq(Entry)
  <2>1. ToSet(FileList[s]) \subseteq Entry /\ FileList[s] \in Seq(ToSet(FileList[s]))
    BY DEF Entry
  <2> HIDE DEF Entry
  <2> QED BY <2>1, SeqMonotonic
<1>2. ASSUME NEW c \in Conns
      PROVE  /\ NewEntry(c) \in Entry
             /\ FileOf[c] \in Names /\ UserOf[c] \in Users
  <2>1. NewEntry(c) \in Entry
    BY DEF Entry
  <2>2. NewEntry(c).filename = FileOf[c]
    BY DEF NewEntry
  <2>3. FileOf[c] \in Names
    BY <2>1, <2>2 DEF Names
  <2> QED BY <2>1, <2>3 DEF Users
<1>3. \A e \in Entry : e.filename \in Names
  BY DEF Names
<1> QED BY <1>1, <1>2, <1>3

\* The server and the file a VIEW is at.
LEMMA ViewAt ==
  ASSUME TypeInv, NEW c \in Conns, Holding(c), pc[c] \in Inside
  PROVE  /\ ss_index[c] \in DOMAIN ss_list /\ ViewServer(c) \in Servers
         /\ files[ViewServer(c)] \in Seq(Entry) /\ Len(files[ViewServer(c)]) \in Nat
         /\ index[c] <= Len(files[ViewServer(c)]) =>
              ViewFile(c) \in Entry /\ ViewFile(c).filename \in Names
<1>1. /\ ss_list \in Seq(Servers) /\ ss_index[c] \in Nat \ {0} /\ ss_index[c] <= Len(ss_list)
      /\ files \in [Servers -> Seq(Entry)] /\ index[c] \in Nat \ {0}
  BY DEF TypeInv, TypeOK, Types, Holding
<1>2. ss_index[c] \in DOMAIN ss_list /\ ViewServer(c) \in Servers
  BY <1>1 DEF ViewServer
<1>3. files[ViewServer(c)] \in Seq(Entry) /\ Len(files[ViewServer(c)]) \in Nat
  BY <1>1, <1>2, LenProperties
<1>4. index[c] <= Len(files[ViewServer(c)]) => ViewFile(c) \in Entry
  BY <1>1, <1>3 DEF ViewFile
<1> QED BY <1>2, <1>3, <1>4, EntryTypes

\* The storage server answers with one of the codes.
LEMMA OutcomeCodes ==
  ASSUME NEW op \in Relayed \cup {"VIEW", "CREATE"}, NEW there \in BOOLEAN,
         NEW code \in Outcomes(op, there)
  PROVE  code \in Codes \cup {"unset"}
BY DEF Outcomes, Relayed, Codes

\* The facts of TypeInv that a step is checked against.
LEMMA TypeFacts ==
  ASSUME TypeInv
  PROVE  /\ ss_list \in Seq(Servers) /\ next_ss_index \in DOMAIN ss_list
         /\ Len(ss_list) \in Nat \ {0} /\ DOMAIN ss_list = 1 .. Len(ss_list)
         /\ ss_mutex \in [Servers -> Conns \cup {Nobody}]
         /\ process \in [Servers -> {"up", "down", "booting"}]
         /\ target \in [Conns -> Servers]
         /\ call \in [Conns -> {"none", "sent", "refused", "lost", "unset"} \cup Codes]
         /\ files \in [Servers -> Seq(Entry)] /\ stored \in [Servers -> SUBSET Names]
         /\ clients \in Seq(Users) /\ pc \in [Threads -> Labels]
         /\ ss_index \in [Threads -> Nat \ {0}] /\ index \in [Conns -> Nat \ {0}]
         /\ lines \in [Conns -> Seq(Line) \cup Seq(Users)]
         /\ guessed \in [Conns -> SUBSET Names]
         /\ reply \in [Conns -> [msg_type : {"none", "ACK", "ERROR", "RESPONSE"},
                                 error_code : Codes]]
<1>1. ss_list \in Seq(Servers) /\ ss_list # <<>>
  BY DEF TypeInv, TypeOK, Types
<1>2. Len(ss_list) \in Nat \ {0} /\ DOMAIN ss_list = 1 .. Len(ss_list)
  BY <1>1, EmptySeq, LenProperties
<1> QED BY <1>1, <1>2 DEF TypeInv, TypeOK, Types

\* A thread goes to another place and answers.
LEMMA AnswerTypes ==
  ASSUME TypeInv, NEW c \in Conns, NEW type \in {"ACK", "ERROR", "RESPONSE"}, NEW code \in Codes,
         Answer(c, type, code)
  PROVE  /\ pc' \in [Threads -> Labels] /\ pc'[c] = "done"
         /\ \A d \in Threads \ {c} : pc'[d] = pc[d]
         /\ reply' \in [Conns -> [msg_type : {"none", "ACK", "ERROR", "RESPONSE"},
                                  error_code : Codes]]
         /\ reply'[c] = Message(type, code)
         /\ \A d \in Conns \ {c} : reply'[d] = reply[d]
<1>1. "done" \in Labels
  BY DEF Labels
<1>2. pc' = [pc EXCEPT ![c] = "done"] /\ pc \in [Threads -> Labels]
  BY TypeFacts DEF Answer, Goto
<1>3. Message(type, code) \in [msg_type : {"none", "ACK", "ERROR", "RESPONSE"}, error_code : Codes]
  BY DEF Message
<1> QED BY <1>1, <1>2, <1>3, TypeFacts DEF Answer

LEMMA GotoTypes ==
  ASSUME TypeInv, NEW t \in Threads, NEW label \in Labels, Goto(t, label)
  PROVE  /\ pc' \in [Threads -> Labels] /\ pc'[t] = label
         /\ \A d \in Threads \ {t} : pc'[d] = pc[d]
BY TypeFacts DEF Goto

LEMMA AskTypes ==
  ASSUME TypeInv, NEW c \in Conns, NEW s \in Servers, Ask(c, s)
  PROVE  /\ target' \in [Conns -> Servers] /\ target'[c] = s
         /\ call' \in [Conns -> {"none", "sent", "refused", "lost", "unset"} \cup Codes]
         /\ call'[c] \in {"sent", "refused"}
         /\ \A d \in Conns \ {c} : target'[d] = target[d] /\ call'[d] = call[d]
BY ZenonT(60), TypeFacts DEF Ask

\* What is left to show when a step of a client's thread leaves the table of storage
\* servers and the storage servers alone, and of its own request only moves on.
LEMMA TypesKept ==
  ASSUME TypeInv, NEW c \in Conns, UNCHANGED <<ss_list, storage>>, clients' \in Seq(Users),
         next_ss_index' \in DOMAIN ss_list, files' \in [Servers -> Seq(Entry)],
         {ss_list_mutex', assignment_mutex'} \subseteq Threads \cup {Nobody},
         ss_mutex' \in [Servers -> Conns \cup {Nobody}],
         target' \in [Conns -> Servers],
         call' \in [Conns -> {"none", "sent", "refused", "lost", "unset"} \cup Codes],
         pc' \in [Threads -> Labels],
         ss_index' \in [Threads -> Nat \ {0}], index' \in [Conns -> Nat \ {0}],
         lines' \in [Conns -> Seq(Line) \cup Seq(Users)], guessed' \in [Conns -> SUBSET Names],
         reply' \in [Conns -> [msg_type : {"none", "ACK", "ERROR", "RESPONSE"},
                               error_code : Codes]],
         \A d \in Conns \ {c} : pc'[d] = pc[d] /\ call'[d] = call[d] /\ lines'[d] = lines[d],
         Op[c] = "VIEW" => lines'[c] \in Seq(Line),
         pc'[c] \in Viewing => Op[c] = "VIEW", pc'[c] \in Creating => Op[c] = "CREATE",
         pc'[c] = "relay" => Op[c] \in Relayed,
         call'[c] = "sent" => Op[c] \in Relayed \cup {"VIEW", "CREATE"}
  PROVE  TypeInv'
<1>1. TypeOK'
  BY DEF TypeInv, TypeOK
<1>2. Types'
  BY DEF TypeInv, Types
<1>3. Places'
  BY DEF TypeInv, Places
<1> QED BY <1>1, <1>2, <1>3 DEF TypeInv

\* The steps of VIEW keep the types.
LEMMA ViewTypes ==
  ASSUME TypeInv, NEW c \in Conns, InView(c), View(c)
  PROVE  TypeInv'
<1>1. /\ c \in Threads /\ c \in Threads \cup {Nobody}
      /\ {ss_list_mutex, assignment_mutex} \subseteq Threads \cup {Nobody}
      /\ \A l \in Viewing \cup {"done"} : l \in Labels
      /\ Viewing \cap Creating = {} /\ "relay" \notin Viewing
      /\ pc[c] \in Viewing \cup {"start"} /\ (pc[c] = "start" => Op[c] = "VIEW")
      /\ "SUCCESS" \in Codes
  BY DEF TypeInv, TypeOK, Labels, Viewing, Inside, Creating, View, ViewLock, ViewEnter,
     ViewVisible, ViewAskAccess, ViewAccess, ViewShow, ViewAskDetails, ViewDetails, ViewLeave,
     ViewEnd, Codes
<1>2. /\ Op[c] = "VIEW" /\ lines[c] \in Seq(Line)
      /\ call[c] = "sent" => Op[c] \in Relayed \cup {"VIEW", "CREATE"}
  BY <1>1 DEF TypeInv, Types, Places
<1>3. pc[c] \in Inside =>
        /\ ViewServer(c) \in Servers
        /\ index[c] <= Len(files[ViewServer(c)]) =>
              ViewFile(c) \in Entry /\ ViewFile(c).filename \in Names
  BY ViewAt DEF InView
<1>4. pc[c] \in {"access", "show", "details"} =>
        ViewFile(c) \in Entry /\ ViewFile(c).filename \in Names /\ ViewServer(c) \in Servers
  BY <1>3 DEF InView, Pending, Inside
<1>5. ASSUME NEW label \in Viewing, Goto(c, label)
      PROVE  /\ pc' \in [Threads -> Labels] /\ pc'[c] = label
             /\ \A d \in Conns \ {c} : pc'[d] = pc[d]
             /\ pc'[c] \notin Creating /\ pc'[c] # "relay"
  BY <1>1, <1>5, GotoTypes
<1>6. /\ "server" \in Viewing /\ "file" \in Viewing /\ "show" \in Viewing /\ "access" \in Viewing
      /\ "details" \in Viewing /\ "done" \notin Viewing \cup Creating
  BY DEF Viewing, Inside, Creating
<1>7. ASSUME Answer(c, "RESPONSE", "SUCCESS")
      PROVE  /\ pc' \in [Threads -> Labels] /\ pc'[c] = "done"
             /\ \A d \in Conns \ {c} : pc'[d] = pc[d]
             /\ reply' \in [Conns -> [msg_type : {"none", "ACK", "ERROR", "RESPONSE"},
                                      error_code : Codes]]
  BY <1>1, <1>7, AnswerTypes
<1>8. /\ next_ss_index \in DOMAIN ss_list /\ files \in [Servers -> Seq(Entry)]
       /\ {ss_list_mutex, assignment_mutex} \subseteq Threads \cup {Nobody}
       /\ ss_mutex \in [Servers -> Conns \cup {Nobody}]
       /\ target \in [Conns -> Servers]
       /\ call \in [Conns -> {"none", "sent", "refused", "lost", "unset"} \cup Codes]
       /\ pc \in [Threads -> Labels]
       /\ ss_index \in [Threads -> Nat \ {0}] /\ index \in [Conns -> Nat \ {0}]
       /\ lines \in [Conns -> Seq(Line) \cup Seq(Users)] /\ guessed \in [Conns -> SUBSET Names]
       /\ reply \in [Conns -> [msg_type : {"none", "ACK", "ERROR", "RESPONSE"},
                               error_code : Codes]]
       /\ ss_list \in Seq(Servers) /\ clients \in Seq(Users)
  BY <1>1, TypeFacts
<1>9. UNCHANGED <<table, assignment_mutex, storage>>
  BY DEF View, ViewLock, ViewEnter, ViewVisible, ViewAskAccess, ViewAccess, ViewShow,
     ViewAskDetails, ViewDetails, ViewLeave, ViewEnd
<1> DEFINE Goal ==
         /\ ss_list_mutex' \in Threads \cup {Nobody}
         /\ ss_mutex' \in [Servers -> Conns \cup {Nobody}]
         /\ target' \in [Conns -> Servers]
         /\ call' \in [Conns -> {"none", "sent", "refused", "lost", "unset"} \cup Codes]
         /\ pc' \in [Threads -> Labels]
         /\ ss_index' \in [Threads -> Nat \ {0}] /\ index' \in [Conns -> Nat \ {0}]
         /\ lines' \in [Conns -> Seq(Line) \cup Seq(Users)]
         /\ guessed' \in [Conns -> SUBSET Names]
         /\ reply' \in [Conns -> [msg_type : {"none", "ACK", "ERROR", "RESPONSE"},
                                  error_code : Codes]]
         /\ \A d \in Conns \ {c} : pc'[d] = pc[d] /\ call'[d] = call[d] /\ lines'[d] = lines[d]
         /\ lines'[c] \in Seq(Line) /\ pc'[c] \in Viewing \cup {"done"}
<1>10. SUFFICES Goal
  <2>1. {ss_list_mutex', assignment_mutex'} \subseteq Threads \cup {Nobody}
    BY <1>8, <1>9
  <2>2. /\ next_ss_index' \in DOMAIN ss_list /\ files' \in [Servers -> Seq(Entry)]
        /\ UNCHANGED <<ss_list, storage>> /\ clients' \in Seq(Users)
    BY <1>8, <1>9
  <2>3. /\ pc'[c] \in Viewing => Op[c] = "VIEW"
        /\ pc'[c] \in Creating => Op[c] = "CREATE"
        /\ pc'[c] = "relay" => Op[c] \in Relayed
        /\ call'[c] = "sent" => Op[c] \in Relayed \cup {"VIEW", "CREATE"}
    BY SMTT(30), <1>1, <1>2, <1>6
  <2> QED BY <2>1, <2>2, <2>3, TypesKept
<1>11. 1 \in Nat \ {0} /\ index[c] + 1 \in Nat \ {0} /\ ss_index[c] + 1 \in Nat \ {0}
  <2>1. index[c] \in Nat \ {0} /\ ss_index[c] \in Nat \ {0}
    BY <1>1, <1>8
  <2>2. 1 \in Nat \ {0} /\ \A i \in Nat \ {0} : i + 1 \in Nat \ {0}
    OBVIOUS
  <2> QED BY ONLY <2>1, <2>2
<1>12. CASE ViewLock(c)
  BY ZenonT(60), <1>1, <1>2, <1>5, <1>6, <1>12, <1>8 DEF ViewLock
<1>13. CASE ViewEnter(c)
  <2>1. /\ ss_mutex' \in [Servers -> Conns \cup {Nobody}] /\ index' \in [Conns -> Nat \ {0}]
    BY <1>13, <1>8, <1>11 DEF ViewEnter
  <2>2. /\ UNCHANGED <<ss_list_mutex, ss_index, lines, guessed, target, call, reply>>
        /\ Goto(c, "file")
    BY <1>13 DEF ViewEnter
  <2>3. /\ pc' \in [Threads -> Labels] /\ pc'[c] \in Viewing \cup {"done"}
        /\ \A d \in Conns \ {c} : pc'[d] = pc[d]
    BY <1>5, <1>6, <2>2
  <2>4. \A d \in Conns \ {c} : pc'[d] = pc[d] /\ call'[d] = call[d] /\ lines'[d] = lines[d]
    BY <2>2, <2>3
  <2> QED BY <1>2, <1>8, <2>1, <2>2, <2>3, <2>4
<1>14. CASE ViewVisible(c)
  BY ZenonT(60), <1>1, <1>2, <1>5, <1>6, <1>14, <1>8 DEF ViewVisible
<1>15. CASE ViewAskAccess(c)
  <2>1. /\ target' \in [Conns -> Servers]
        /\ call' \in [Conns -> {"none", "sent", "refused", "lost", "unset"} \cup Codes]
        /\ \A d \in Conns \ {c} : call'[d] = call[d]
    BY <1>3, <1>15, AskTypes DEF ViewAskAccess, Inside
  <2> QED BY ZenonT(60), <1>1, <1>2, <1>5, <1>6, <1>15, <2>1, <1>8 DEF ViewAskAccess
<1>16. CASE ViewAccess(c)
  <2>1. /\ call' \in [Conns -> {"none", "sent", "refused", "lost", "unset"} \cup Codes]
        /\ call'[c] = "none" /\ \A d \in Conns \ {c} : call'[d] = call[d]
    BY <1>16, <1>8 DEF ViewAccess
  <2>2. guessed' \in [Conns -> SUBSET Names]
    <3>1. guessed' = guessed \/
          guessed' = [guessed EXCEPT ![c] = guessed[c] \cup {ViewFile(c).filename}]
      BY <1>16, <1>8 DEF ViewAccess, Guess
    <3>2. guessed[c] \cup {ViewFile(c).filename} \in SUBSET Names
      BY <1>4, <1>16, <1>8 DEF ViewAccess
    <3> DEFINE more == guessed[c] \cup {ViewFile(c).filename}
    <3> HIDE DEF more
    <3>3. guessed' = guessed \/ guessed' = [guessed EXCEPT ![c] = more]
      BY <3>1 DEF more
    <3>4. more \in SUBSET Names
      BY <3>2 DEF more
    <3> DEFINE Sets == SUBSET Names
    <3>5. guessed \in [Conns -> Sets] /\ more \in Sets
      BY <1>8, <3>4
    <3> HIDE DEF Sets
    <3>6. guessed' \in [Conns -> Sets]
      BY <3>3, <3>5
    <3> QED BY <3>6 DEF Sets
  <2>3. index' \in [Conns -> Nat \ {0}] /\ (Goto(c, "show") \/ Goto(c, "file"))
    <3>1. PICK seen \in user_has_access(c) :
            IF seen THEN Goto(c, "show") /\ UNCHANGED index
                    ELSE Goto(c, "file") /\ index' = [index EXCEPT ![c] = index[c] + 1]
      BY <1>16 DEF ViewAccess
    <3>2. CASE seen
      BY <1>8, <3>1, <3>2
    <3>3. CASE ~seen
      <4>1. Goto(c, "file") /\ index' = [index EXCEPT ![c] = index[c] + 1]
        BY <3>1, <3>3
      <4>2. index' \in [Conns -> Nat \ {0}]
        BY <1>8, <1>11, <4>1
      <4> QED BY <4>1, <4>2
    <3> QED BY <3>2, <3>3
  <2>4. /\ pc' \in [Threads -> Labels] /\ pc'[c] \in Viewing
        /\ \A d \in Conns \ {c} : pc'[d] = pc[d]
        /\ pc'[c] \notin Creating /\ pc'[c] # "relay"
    BY <1>5, <1>6, <2>3
  <2>5. UNCHANGED <<table, mutexes, storage, ss_index, lines, target, reply>>
    BY <1>16 DEF ViewAccess
  <2> QED BY <1>1, <1>2, <2>1, <2>2, <2>3, <2>4, <2>5, <1>8
<1>17. ASSUME NEW line \in Line, ViewLine(c, line), pc[c] \in {"show", "details"},
              UNCHANGED <<table, assignment_mutex, storage, ss_index, guessed, target>>,
              call' \in [Conns -> {"none", "sent", "refused", "lost", "unset"} \cup Codes],
              \A d \in Conns \ {c} : call'[d] = call[d]
       PROVE  Goal
  <2>1. CASE Len(lines[c]) < MaxLines
    <3>1. /\ lines' = [lines EXCEPT ![c] = Append(lines[c], line)]
          /\ index' = [index EXCEPT ![c] = index[c] + 1] /\ Goto(c, "file")
          /\ UNCHANGED <<ss_list_mutex, ss_mutex, reply>>
      BY <1>17, <2>1 DEF ViewLine
    <3>2. Append(lines[c], line) \in Seq(Line)
      BY <1>2, AppendProperties
    <3>3. /\ lines' \in [Conns -> Seq(Line) \cup Seq(Users)] /\ lines'[c] \in Seq(Line)
          /\ \A d \in Conns \ {c} : lines'[d] = lines[d]
      <4> DEFINE longer == Append(lines[c], line)
      <4>1. longer \in Seq(Line) /\ lines' = [lines EXCEPT ![c] = longer]
        BY <3>1, <3>2
      <4> HIDE DEF longer
      <4> QED BY <4>1, <1>8
    <3>4. index' \in [Conns -> Nat \ {0}]
      BY <1>8, <1>11, <3>1
    <3>5. /\ pc' \in [Threads -> Labels] /\ pc'[c] \in Viewing /\ \A d \in Conns \ {c} : pc'[d] = pc[d]
      BY <1>5, <1>6, <3>1
    <3>6. /\ ss_list_mutex' \in Threads \cup {Nobody}
          /\ ss_mutex' \in [Servers -> Conns \cup {Nobody}] /\ target' \in [Conns -> Servers]
          /\ ss_index' \in [Threads -> Nat \ {0}] /\ guessed' \in [Conns -> SUBSET Names]
          /\ reply' \in [Conns -> [msg_type : {"none", "ACK", "ERROR", "RESPONSE"},
                                   error_code : Codes]]
      BY <1>17, <1>8, <3>1
    <3> QED BY <1>17, <3>3, <3>4, <3>5, <3>6
  <2>2. CASE ~(Len(lines[c]) < MaxLines)
    <3>1. /\ ss_mutex' = [ss_mutex EXCEPT ![ViewServer(c)] = Nobody]
          /\ ss_list_mutex' = Nobody /\ Answer(c, "RESPONSE", "SUCCESS")
          /\ UNCHANGED <<lines, index>>
      BY <1>17, <2>2 DEF ViewLine
    <3>2. ss_mutex' \in [Servers -> Conns \cup {Nobody}]
      BY <3>1, <1>8
    <3>3. {ss_list_mutex', assignment_mutex'} \subseteq Threads \cup {Nobody}
      BY <1>1, <1>17, <3>1
    <3>4. /\ pc' \in [Threads -> Labels] /\ pc'[c] = "done"
          /\ \A d \in Conns \ {c} : pc'[d] = pc[d]
          /\ reply' \in [Conns -> [msg_type : {"none", "ACK", "ERROR", "RESPONSE"},
                                   error_code : Codes]]
      BY <1>7, <3>1
    <3> QED BY <1>1, <1>2, <1>6, <1>17, <3>1, <3>2, <3>3, <3>4, <1>8
  <2> QED BY <2>1, <2>2
<1>18. CASE ViewShow(c)
  <2> DEFINE line == [ss |-> ViewServer(c), filename |-> ViewFile(c).filename, details |-> FALSE]
  <2>1. line \in Line
    BY <1>4, <1>18 DEF ViewShow, Line
  <2>2. ViewLine(c, line) /\ UNCHANGED <<table, assignment_mutex, storage, ss_index, guessed,
                                         target, call>>
    BY <1>18 DEF ViewShow
  <2>3. /\ call' \in [Conns -> {"none", "sent", "refused", "lost", "unset"} \cup Codes]
        /\ \A d \in Conns \ {c} : call'[d] = call[d]
        /\ pc[c] \in {"show", "details"}
    BY <1>18, <1>8, <2>2 DEF ViewShow
  <2> HIDE DEF line, Goal
  <2> QED BY <1>17, <2>1, <2>2, <2>3
<1>19. CASE ViewAskDetails(c)
  <2>1. /\ target' \in [Conns -> Servers]
        /\ call' \in [Conns -> {"none", "sent", "refused", "lost", "unset"} \cup Codes]
        /\ \A d \in Conns \ {c} : call'[d] = call[d]
    BY <1>4, <1>19, AskTypes DEF ViewAskDetails
  <2> QED BY ZenonT(60), <1>1, <1>2, <1>5, <1>6, <1>19, <2>1, <1>8 DEF ViewAskDetails
<1>20. CASE ViewDetails(c)
  <2> DEFINE line == [ss |-> ViewServer(c), filename |-> ViewFile(c).filename,
                      details |-> call[c] \in {"SUCCESS", "unset"}]
  <2>1. line \in Line
    BY <1>4, <1>20 DEF ViewDetails, Line
  <2>2. ViewLine(c, line) /\ UNCHANGED <<table, assignment_mutex, storage, ss_index, guessed,
                                         target>>
    BY <1>20 DEF ViewDetails
  <2>3. /\ call' \in [Conns -> {"none", "sent", "refused", "lost", "unset"} \cup Codes]
        /\ \A d \in Conns \ {c} : call'[d] = call[d]
    BY <1>20, <1>8 DEF ViewDetails
  <2> HIDE DEF line
  <2> QED BY <1>17, <1>20, <2>1, <2>2, <2>3 DEF ViewDetails
<1>21. CASE ViewLeave(c)
  <2>1. ss_mutex' \in [Servers -> Conns \cup {Nobody}] /\ ss_index' \in [Threads -> Nat \ {0}]
    BY <1>1, <1>21, <1>8, <1>11 DEF ViewLeave
  <2> QED BY ZenonT(60), <1>1, <1>2, <1>5, <1>6, <1>21, <2>1, <1>8 DEF ViewLeave
<1>22. CASE ViewEnd(c)
  <2>1. {ss_list_mutex', assignment_mutex'} \subseteq Threads \cup {Nobody}
    BY <1>1, <1>22 DEF ViewEnd
  <2> QED BY <1>1, <1>2, <1>6, <1>7, <1>22, <2>1, <1>8 DEF ViewEnd
<1> QED
  BY <1>12, <1>13, <1>14, <1>15, <1>16, <1>18, <1>19, <1>20, <1>21, <1>22 DEF View

\* The steps of the other requests keep the types.
LEMMA RequestTypes ==
  ASSUME TypeInv, ClaimInv, NEW c \in Conns, Handle(c), ~View(c)
  PROVE  TypeInv'
<1>1. /\ {ss_list_mutex, assignment_mutex} \subseteq Threads \cup {Nobody} /\ c \in Threads
      /\ \A l \in Creating \cup {"done", "relay"} : l \in Labels /\ l \notin Viewing
      /\ "relay" \notin Creating /\ "done" \notin Creating /\ "VIEW" \notin Relayed
      /\ {"SUCCESS", "FILE_NOT_FOUND", "FILE_EXISTS", "SERVER_ERROR", "CONNECTION_FAILED",
          "NO_WRITE_ACCESS"} \subseteq Codes
  BY DEF TypeInv, TypeOK, Labels, Viewing, Inside, Creating, Codes, Relayed
<1>2. /\ next_ss_index \in DOMAIN ss_list /\ files \in [Servers -> Seq(Entry)]
      /\ ss_mutex \in [Servers -> Conns \cup {Nobody}]
      /\ target \in [Conns -> Servers]
      /\ call \in [Conns -> {"none", "sent", "refused", "lost", "unset"} \cup Codes]
      /\ pc \in [Threads -> Labels]
      /\ ss_index \in [Threads -> Nat \ {0}] /\ index \in [Conns -> Nat \ {0}]
      /\ lines \in [Conns -> Seq(Line) \cup Seq(Users)] /\ guessed \in [Conns -> SUBSET Names]
      /\ reply \in [Conns -> [msg_type : {"none", "ACK", "ERROR", "RESPONSE"},
                              error_code : Codes]]
      /\ ss_list \in Seq(Servers) /\ clients \in Seq(Users)
      /\ Len(ss_list) \in Nat \ {0} /\ DOMAIN ss_list = 1 .. Len(ss_list)
  BY TypeFacts
<1>3. UNCHANGED <<ss_list, ss_list_mutex, ss_mutex, storage, ss_index, index, guessed>>
  BY DEF Handle, Create, CreateFind, AssignLock, AssignPick, CreateAdd, Created, CreateRemove,
     RelayMissing, RelayAsk, RelayAnswer, RegisterClient, ListClients
<1> DEFINE Place == /\ pc' \in [Threads -> Labels] /\ \A d \in Conns \ {c} : pc'[d] = pc[d]
                    /\ reply' \in [Conns -> [msg_type : {"none", "ACK", "ERROR", "RESPONSE"},
                                             error_code : Codes]]
                    /\ \/ pc'[c] = "done"
                       \/ pc'[c] = "relay" /\ Op[c] \in Relayed
                       \/ pc'[c] \in Creating /\ Op[c] = "CREATE"
           Asks == /\ target' \in [Conns -> Servers]
                   /\ call' \in [Conns -> {"none", "sent", "refused", "lost", "unset"} \cup Codes]
                   /\ \A d \in Conns \ {c} : call'[d] = call[d]
                   /\ call'[c] = "sent" => Op[c] \in Relayed \cup {"VIEW", "CREATE"}
           Lists == /\ next_ss_index' \in DOMAIN ss_list /\ files' \in [Servers -> Seq(Entry)]
                    /\ clients' \in Seq(Users) /\ assignment_mutex' \in Threads \cup {Nobody}
                    /\ lines' \in [Conns -> Seq(Line) \cup Seq(Users)]
                    /\ \A d \in Conns \ {c} : lines'[d] = lines[d]
                    /\ Op[c] = "VIEW" => lines'[c] \in Seq(Line)
<1>4. SUFFICES Place /\ Asks /\ Lists
  <2>1. {ss_list_mutex', assignment_mutex'} \subseteq Threads \cup {Nobody}
    BY <1>1, <1>3
  <2>2. /\ pc'[c] \notin Viewing
        /\ pc'[c] \in Creating => Op[c] = "CREATE"
        /\ pc'[c] = "relay" => Op[c] \in Relayed
    BY <1>1
  <2>3. /\ ss_mutex' \in [Servers -> Conns \cup {Nobody}]
        /\ ss_index' \in [Threads -> Nat \ {0}] /\ index' \in [Conns -> Nat \ {0}]
        /\ guessed' \in [Conns -> SUBSET Names]
    BY <1>2, <1>3
  <2> QED BY <1>3, <2>1, <2>2, <2>3, TypesKept
<1>5. /\ UNCHANGED question => Asks
      /\ UNCHANGED <<next_ss_index, files, clients, assignment_mutex, lines>> => Lists
      /\ lines[c] \in Seq(Line) \/ Op[c] # "VIEW"
  <2>1. lines[c] \in Seq(Line) \/ Op[c] # "VIEW"
    BY DEF TypeInv, Types
  <2>2. call[c] = "sent" => Op[c] \in Relayed \cup {"VIEW", "CREATE"}
    BY DEF TypeInv, Places
  <2>3. UNCHANGED question => Asks
    BY <1>2, <2>2
  <2>4. UNCHANGED <<next_ss_index, files, clients, assignment_mutex, lines>> => Lists
    <3>1. /\ next_ss_index \in DOMAIN ss_list /\ files \in [Servers -> Seq(Entry)]
          /\ clients \in Seq(Users) /\ assignment_mutex \in Threads \cup {Nobody}
          /\ lines \in [Conns -> Seq(Line) \cup Seq(Users)]
      BY <1>1, <1>2
    <3> QED BY <2>1, <3>1
  <2> QED BY <2>1, <2>3, <2>4
<1>6. ASSUME NEW type \in {"ACK", "ERROR", "RESPONSE"}, NEW code \in Codes, Answer(c, type, code)
      PROVE  Place
  <2>1. /\ pc' \in [Threads -> Labels] /\ pc'[c] = "done"
        /\ \A d \in Threads \ {c} : pc'[d] = pc[d]
        /\ reply' \in [Conns -> [msg_type : {"none", "ACK", "ERROR", "RESPONSE"},
                                 error_code : Codes]]
    <3> DEFINE m == Message(type, code)
    <3>1. m \in [msg_type : {"none", "ACK", "ERROR", "RESPONSE"}, error_code : Codes]
      BY <1>6 DEF Message
    <3>2. pc' = [pc EXCEPT ![c] = "done"] /\ reply' = [reply EXCEPT ![c] = m]
      BY <1>6 DEF Answer, Goto
    <3> HIDE DEF m
    <3> QED BY <1>1, <1>2, <3>1, <3>2
  <2> QED BY <2>1
<1>7. ASSUME NEW label, Goto(c, label), UNCHANGED reply,
             \/ label = "relay" /\ Op[c] \in Relayed
             \/ label \in Creating /\ Op[c] = "CREATE"
      PROVE  Place
  <2>1. label \in Labels
    BY <1>1, <1>7
  <2>2. /\ pc' \in [Threads -> Labels] /\ pc'[c] = label
        /\ \A d \in Threads \ {c} : pc'[d] = pc[d]
    BY <1>1, <1>7, <2>1, GotoTypes
  <2>3. reply' \in [Conns -> [msg_type : {"none", "ACK", "ERROR", "RESPONSE"},
                              error_code : Codes]]
    BY <1>2, <1>7
  <2> QED BY <1>7, <2>2, <2>3
<1>8. ASSUME NEW s \in Servers, Ask(c, s), Op[c] \in Relayed \cup {"VIEW", "CREATE"}
      PROVE  Asks
  BY <1>8, AskTypes
<1>9. Creating = {"assign", "pick", "add", "created"}
  BY DEF Creating
<1>10. pc[c] \in Creating => Op[c] = "CREATE"
  BY DEF TypeInv, Places
<1> HIDE DEF Place, Asks, Lists
<1>11. CASE CreateFind(c)
  <2>1. Place
    <3>1. CASE Holders(FileOf[c]) = {}
      BY <1>7, <1>9, <1>11, <3>1 DEF CreateFind
    <3>2. CASE Holders(FileOf[c]) # {}
      BY <1>1, <1>6, <1>11, <3>2 DEF CreateFind
    <3> QED BY <3>1, <3>2
  <2> QED BY <1>5, <1>11, <2>1 DEF CreateFind
<1>12. CASE AssignLock(c)
  <2>1. Place
    BY <1>7, <1>9, <1>10, <1>12 DEF AssignLock
  <2>2. Lists
    BY <1>1, <1>2, <1>5, <1>12 DEF AssignLock, Lists
  <2> QED BY <1>5, <1>12, <2>1, <2>2 DEF AssignLock
<1>13. CASE AssignPick(c)
  <2>1. Place
    BY <1>7, <1>9, <1>10, <1>13 DEF AssignPick
  <2>2. next_ss_index' \in DOMAIN ss_list
    <3>1. next_ss_index \in Nat /\ Len(ss_list) \in Nat \ {0} /\ DOMAIN ss_list = 1 .. Len(ss_list)
      BY <1>2
    <3>2. next_ss_index % Len(ss_list) \in 0 .. Len(ss_list) - 1
      BY <3>1
    <3> QED BY <1>13, <3>1, <3>2 DEF AssignPick
  <2>3. Lists
    BY <1>1, <1>2, <1>5, <1>13, <2>2 DEF AssignPick, Lists
  <2>4. Asks
    <3>1. ss_list[next_ss_index] \in Servers
      BY <1>2
    <3> QED BY <1>2, <1>10, <1>9, <1>13, <3>1 DEF AssignPick, Asks
  <2> QED BY <2>1, <2>3, <2>4
<1>14. CASE CreateAdd(c)
  <2>1. CASE UNCHANGED <<files, question>>
    <3>1. \/ Answer(c, "ACK", "SERVER_ERROR")
          \/ Answer(c, "ACK", "FILE_EXISTS")
          \/ Goto(c, "created") /\ UNCHANGED reply
      BY <1>14 DEF CreateAdd
    <3>2. Place
      BY <1>1, <1>6, <1>7, <1>9, <1>10, <1>14, <3>1 DEF CreateAdd
    <3> QED BY <1>5, <1>14, <2>1, <3>2 DEF CreateAdd
  <2>2. CASE ~UNCHANGED <<files, question>>
    <3> DEFINE s == target[c]
    <3>1. /\ files' = [files EXCEPT ![s] = Append(files[s], NewEntry(c))]
          /\ Ask(c, s) /\ Goto(c, "created") /\ UNCHANGED reply
      BY <1>14, <2>2 DEF CreateAdd, NewEntry
    <3>2. s \in Servers /\ Append(files[s], NewEntry(c)) \in Seq(Entry)
      BY <1>2, EntryTypes, AppendProperties
    <3>3. Place /\ Asks
      BY <1>7, <1>8, <1>9, <1>10, <1>14, <3>1, <3>2 DEF CreateAdd
    <3>4. files' \in [Servers -> Seq(Entry)]
      <4> DEFINE longer == Append(files[s], NewEntry(c))
      <4>1. longer \in Seq(Entry) /\ files' = [files EXCEPT ![s] = longer]
        BY <3>1, <3>2
      <4> HIDE DEF longer
      <4> QED BY <1>2, <4>1
    <3>5. Lists
      BY <1>1, <1>2, <1>5, <1>14, <3>4 DEF CreateAdd, Lists
    <3> QED BY <3>3, <3>5
  <2> QED BY <2>1, <2>2
<1>15. CASE Created(c)
  BY <1>1, <1>5, <1>6, <1>15 DEF Created
<1>16. CASE CreateRemove(c)
  <2>1. Place
    BY <1>1, <1>6, <1>16 DEF CreateRemove
  <2> DEFINE s == target[c]
             shorter == RemoveFirstMatch(files[s], LAMBDA f : f.filename = FileOf[c])
  <2>2. shorter \in Seq(Entry)
    <3>1. /\ files[s] \in Seq(Entry)
          /\ \E i \in 1 .. Len(files[s]) : files[s][i].filename = FileOf[c]
      <4>1. Once(files[s], FileOf[c])
        BY <1>10, <1>9, <1>16 DEF ClaimInv, Claim, Claims, CreateRemove
      <4>2. files[s] \in Seq(Entry)
        BY <1>2
      <4>3. DOMAIN files[s] = 1 .. Len(files[s])
        BY <4>2
      <4>4. \E k \in DOMAIN files[s] : files[s][k].filename = FileOf[c]
        BY <4>1 DEF Once
      <4> QED BY <4>2, <4>3, <4>4
    <3> DEFINE l == files[s]
               n == FileOf[c]
    <3>2. l \in Seq(Entry) /\ \E i \in 1 .. Len(l) : l[i].filename = n
      BY <3>1
    <3> HIDE DEF l, n
    <3>3. PICK i \in 1 .. Len(l) :
            RemoveFirstMatch(l, LAMBDA f : f.filename = n) = RemoveAt(l, i)
      BY <3>2, RemoveNamedProperties
    <3>4. RemoveAt(l, i) \in Seq(Entry)
      BY <3>2, RemoveAtProperties
    <3> QED BY <3>3, <3>4 DEF l, n
  <2>3. files' = [files EXCEPT ![s] = shorter]
    BY <1>16 DEF CreateRemove
  <2> HIDE DEF shorter
  <2>4. files' \in [Servers -> Seq(Entry)]
    BY <1>2, <2>2, <2>3
  <2>5. Lists /\ Asks
    BY <1>1, <1>2, <1>5, <1>16, <2>4 DEF CreateRemove, Lists
  <2> QED BY <2>1, <2>5
<1>17. CASE RelayMissing(c)
  BY <1>1, <1>5, <1>6, <1>17 DEF RelayMissing
<1>18. CASE RelayAsk(c)
  <2>1. Lists
    BY <1>5, <1>18 DEF RelayAsk
  <2>2. PICK s \in Holders(FileOf[c]) :
          IF Op[c] = "REVERT" /\ Owner(s, FileOf[c]) # UserOf[c]
          THEN Answer(c, "ERROR", "NO_WRITE_ACCESS") /\ UNCHANGED question
          ELSE Ask(c, s) /\ Goto(c, "relay") /\ UNCHANGED reply
    BY <1>18 DEF RelayAsk
  <2>3. s \in Servers
    BY <1>2 DEF Holders, ToSet
  <2>4. CASE Answer(c, "ERROR", "NO_WRITE_ACCESS") /\ UNCHANGED question
    BY <1>1, <1>5, <1>6, <2>1, <2>4
  <2>5. CASE Ask(c, s) /\ Goto(c, "relay") /\ UNCHANGED reply
    BY <1>7, <1>8, <1>18, <2>1, <2>3, <2>5 DEF RelayAsk
  <2> QED BY <2>2, <2>4, <2>5
<1>19. CASE RelayAnswer(c)
  <2>1. call[c] \notin {"refused", "lost", "unset"} => call[c] \in Codes
    BY <1>2, <1>19 DEF RelayAnswer, Answered
  <2>2. \E type \in {"ACK", "ERROR", "RESPONSE"}, code \in Codes : Answer(c, type, code)
    BY <1>1, <1>19, <2>1 DEF RelayAnswer
  <2> QED BY <1>5, <1>6, <1>19, <2>2 DEF RelayAnswer
<1>20. CASE RegisterClient(c)
  <2>1. Place /\ Asks
    BY <1>1, <1>5, <1>6, <1>20 DEF RegisterClient
  <2>2. clients' \in Seq(Users)
    BY <1>2, <1>20, EntryTypes, AppendProperties DEF RegisterClient
  <2> QED BY <1>1, <1>2, <1>5, <1>20, <2>1, <2>2 DEF RegisterClient, Lists
<1>21. CASE ListClients(c)
  <2>1. Place /\ Asks
    BY <1>1, <1>5, <1>6, <1>21 DEF ListClients
  <2>2. lines' \in [Conns -> Seq(Line) \cup Seq(Users)]
    BY <1>2, <1>21 DEF ListClients
  <2> QED BY ZenonT(60), <1>1, <1>2, <1>21, <2>1, <2>2 DEF ListClients, Lists
<1> QED
  BY <1>11, <1>12, <1>13, <1>14, <1>15, <1>16, <1>17, <1>18, <1>19, <1>20, <1>21
  DEF Handle, Create
-----------------------------------------------------------------------------
(***************************************************************************)
(* Storage servers.                                                        *)
(***************************************************************************)
ServerStep(s) == Register(s) \/ Serve(s) \/ Crash(s) \/ Restart(s)

\* A storage server that registers comes behind the others, which keep their place and
\* their files.
LEMMA ServersGrow ==
  ASSUME TypeInv, NEW s \in Servers, ServerStep(s)
  PROVE  /\ ss_list' \in Seq(Servers) /\ ss_list' # <<>> /\ IsInjective(ss_list')
         /\ DOMAIN ss_list \subseteq DOMAIN ss_list' /\ Len(ss_list) <= Len(ss_list')
         /\ \A k \in DOMAIN ss_list : ss_list'[k] = ss_list[k]
         /\ files' \in [Servers -> Seq(Entry)]
         /\ \A x \in ToSet(ss_list) : files'[x] = files[x]
<1>1. /\ ss_list \in Seq(Servers) /\ ss_list # <<>> /\ IsInjective(ss_list)
      /\ Len(ss_list) \in Nat \ {0} /\ DOMAIN ss_list = 1 .. Len(ss_list)
      /\ files \in [Servers -> Seq(Entry)]
  BY TypeFacts DEF TypeInv, Types
<1>2. CASE UNCHANGED <<ss_list, files>>
  BY <1>1, <1>2
<1>3. CASE RegisterNew(s)
  <2>1. /\ s \notin ToSet(ss_list) /\ ss_list' = Append(ss_list, s)
        /\ files' = [files EXCEPT ![s] = SubSeq(FileList[s], 1, Least(MaxFiles, Len(FileList[s])))]
    BY <1>3 DEF RegisterNew
  <2>2. /\ ss_list' \in Seq(Servers) /\ Len(ss_list') = Len(ss_list) + 1
        /\ DOMAIN ss_list' = 1 .. Len(ss_list) + 1
        /\ \A k \in 1 .. Len(ss_list) : ss_list'[k] = ss_list[k]
        /\ ss_list'[Len(ss_list) + 1] = s
    BY <1>1, <2>1, AppendProperties
  <2>3. \A k \in 1 .. Len(ss_list) : ss_list[k] # s
    BY <1>1, <2>1 DEF ToSet
  <2>4. IsInjective(ss_list')
    <3> DEFINE n == Len(ss_list)
               l == ss_list'
    <3>1. /\ n \in Nat /\ DOMAIN l = 1 .. n + 1 /\ l[n + 1] = s
          /\ \A k \in 1 .. n : l[k] # s
          /\ \A i, j \in 1 .. n : l[i] = l[j] => i = j
      <4>1. \A i, j \in 1 .. n : ss_list[i] = ss_list[j] => i = j
        BY <1>1 DEF IsInjective
      <4> QED BY <1>1, <2>2, <2>3, <4>1
    <3> HIDE DEF n, l
    <3>2. \A i, j \in 1 .. n + 1 : l[i] = l[j] => i = j
      <4>1. \A i \in 1 .. n + 1 : i = n + 1 \/ i \in 1 .. n
        BY <3>1
      <4> QED BY <3>1, <4>1
    <3>3. IsInjective(l)
      BY <3>1, <3>2 DEF IsInjective
    <3> QED BY <3>3 DEF l
  <2>5. SubSeq(FileList[s], 1, Least(MaxFiles, Len(FileList[s]))) \in Seq(Entry)
    <3> DEFINE n == Least(MaxFiles, Len(FileList[s]))
    <3>1. FileList[s] \in Seq(Entry) /\ Len(FileList[s]) \in Nat /\ MaxFiles \in Nat
      BY EntryTypes, LenProperties
    <3>2. n \in Nat /\ n <= Len(FileList[s])
      BY <3>1 DEF Least
    <3> HIDE DEF n
    <3>3. \A i \in 1 .. n : FileList[s][i] \in Entry
      BY <3>1, <3>2
    <3>4. SubSeq(FileList[s], 1, n) \in Seq(Entry)
      BY <3>2, <3>3, SubSeqProperties
    <3> QED BY <3>4 DEF n
  <2> DEFINE sent == SubSeq(FileList[s], 1, Least(MaxFiles, Len(FileList[s])))
  <2>6. sent \in Seq(Entry) /\ files' = [files EXCEPT ![s] = sent]
    BY <2>1, <2>5
  <2> HIDE DEF sent
  <2>7. /\ files' \in [Servers -> Seq(Entry)]
        /\ \A x \in ToSet(ss_list) : files'[x] = files[x]
    <3>1. \A x \in ToSet(ss_list) : x \in Servers /\ x # s
      BY <1>1, <2>1 DEF ToSet
    <3> QED BY <1>1, <2>6, <3>1
  <2>8. ss_list' # <<>>
    BY <1>1, <2>2, EmptySeq
  <2>9. DOMAIN ss_list \subseteq DOMAIN ss_list' /\ Len(ss_list) <= Len(ss_list')
    <3> DEFINE n == Len(ss_list)
    <3>1. n \in Nat /\ DOMAIN ss_list = 1 .. n /\ DOMAIN ss_list' = 1 .. n + 1 /\ Len(ss_list') = n + 1
      BY <1>1, <2>2
    <3> HIDE DEF n
    <3>2. 1 .. n \subseteq 1 .. n + 1 /\ n <= n + 1
      BY <3>1
    <3> QED BY <3>1, <3>2 DEF n
  <2> QED BY <1>1, <2>2, <2>4, <2>7, <2>8, <2>9
<1> QED
  BY <1>2, <1>3 DEF ServerStep, Register, RegisterLock, Reconnect, RegisterRefused, PrintStatus,
     Acknowledge, Serve, Crash, Restart

\* What a storage server's steps leave alone: everything a client's thread keeps but the
\* state of its question, and the mutexes of the lists.
LEMMA ServerFrame ==
  ASSUME TypeInv, NEW s \in Servers, ServerStep(s)
  PROVE  /\ UNCHANGED <<ss_mutex, index, lines, guessed, target, reply, next_ss_index, clients,
                        assignment_mutex>>
         /\ \A c \in Conns : pc'[c] = pc[c] /\ ss_index'[c] = ss_index[c] /\ c # s
         /\ pc' \in [Threads -> Labels] /\ ss_index' \in [Threads -> Nat \ {0}]
         /\ ss_list_mutex' \in Threads \cup {Nobody}
         /\ process' \in [Servers -> {"up", "down", "booting"}]
<1>1. /\ pc \in [Threads -> Labels] /\ ss_index \in [Threads -> Nat \ {0}]
      /\ process \in [Servers -> {"up", "down", "booting"}] /\ s \in Threads
      /\ \A c \in Conns : c # s /\ c \in Threads
      /\ ss_list_mutex \in Threads \cup {Nobody}
  <2>1. ss_list_mutex \in Threads \cup {Nobody}
    BY DEF TypeInv, TypeOK
  <2>2. s \in Threads /\ \A c \in Conns : c # s /\ c \in Threads
    OBVIOUS
  <2> QED BY <2>1, <2>2, TypeFacts
<1>2. {"enter", "print", "done", "register"} \subseteq Labels /\ 1 \in Nat \ {0}
  BY DEF Labels
<1>3. ss_index[s] + 1 \in Nat \ {0}
  <2>1. ss_index[s] \in Nat \ {0}
    BY <1>1
  <2> QED BY <2>1
<1> USE DEF Goto
<1>4. CASE RegisterLock(s)
  BY <1>1, <1>2, <1>4 DEF RegisterLock
<1>5. CASE Reconnect(s)
  BY <1>1, <1>2, <1>5 DEF Reconnect
<1>6. CASE RegisterNew(s)
  BY <1>1, <1>2, <1>6 DEF RegisterNew
<1>7. CASE RegisterRefused(s)
  BY <1>1, <1>2, <1>7 DEF RegisterRefused
<1>8. CASE PrintStatus(s)
  BY <1>1, <1>2, <1>3, <1>8 DEF PrintStatus
<1>9. CASE Acknowledge(s)
  BY <1>1, <1>2, <1>9 DEF Acknowledge
<1>10. CASE Serve(s)
  BY <1>1, <1>10 DEF Serve
<1>11. CASE Crash(s)
  BY <1>1, <1>11 DEF Crash
<1>12. CASE Restart(s)
  BY <1>1, <1>2, <1>12 DEF Restart
<1> QED
  BY <1>4, <1>5, <1>6, <1>7, <1>8, <1>9, <1>10, <1>11, <1>12 DEF ServerStep, Register

\* What happens to questions: one is answered, or those to s are lost.  An answer to CREATE
\* that says success comes with the file.
LEMMA ServerAnswers ==
  ASSUME TypeInv, NEW s \in Servers, ServerStep(s)
  PROVE  /\ call' \in [Conns -> {"none", "sent", "refused", "lost", "unset"} \cup Codes]
         /\ stored' \in [Servers -> SUBSET Names]
         /\ \A x \in Servers : stored[x] \subseteq stored'[x]
         /\ \A c \in Conns :
              \/ call'[c] = call[c]
              \/ call[c] = "sent" /\ call'[c] # "sent"
         /\ \A c \in Conns : Op[c] = "CREATE" /\ call'[c] = "SUCCESS" /\ call[c] # "SUCCESS" =>
              FileOf[c] \in stored'[target[c]]
<1>1. /\ call \in [Conns -> {"none", "sent", "refused", "lost", "unset"} \cup Codes]
      /\ stored \in [Servers -> SUBSET Names] /\ target \in [Conns -> Servers]
  BY TypeFacts
<1>2. CASE UNCHANGED <<call, stored>>
  BY <1>1, <1>2
<1>3. CASE Crash(s)
  <2> DEFINE Sets == SUBSET Names
  <2>1. /\ call' \in [Conns -> {"none", "sent", "refused", "lost", "unset"} \cup Codes]
        /\ \A c \in Conns : \/ call'[c] = call[c]
                            \/ call[c] = "sent" /\ call'[c] = "lost"
    BY <1>1, <1>3 DEF Crash, Unanswered
  <2>2. PICK made \in SUBSET {c \in Unanswered(s) : Op[c] = "CREATE"} :
          stored' = [stored EXCEPT ![s] = @ \cup {FileOf[c] : c \in made}]
    BY <1>3 DEF Crash
  <2> DEFINE more == stored[s] \cup {FileOf[c] : c \in made}
  <2>3. \A c \in made : FileOf[c] \in Names
    BY EntryTypes DEF Unanswered
  <2>4. more \in Sets /\ stored \in [Servers -> Sets] /\ stored[s] \subseteq more
    BY <1>1, <2>3
  <2>5. stored' = [stored EXCEPT ![s] = more]
    BY <2>2
  <2> HIDE DEF more, Sets
  <2>6. /\ stored' \in [Servers -> Sets] /\ stored'[s] = more
        /\ \A x \in Servers \ {s} : stored'[x] = stored[x]
    BY <2>4, <2>5
  <2>7. \A x \in Servers : stored[x] \subseteq stored'[x]
    <3>1. \A x \in Servers : x = s \/ stored'[x] = stored[x]
      BY <2>6
    <3> QED BY <2>4, <2>6, <3>1
  <2> QED BY <2>1, <2>6, <2>7 DEF Sets
<1>4. CASE Serve(s)
  <2>1. PICK c \in Conns :
          /\ call[c] = "sent" /\ target[c] = s
          /\ \E code \in Outcomes(Op[c], Subject(c) \in stored[s]) :
               /\ call' = [call EXCEPT ![c] = code]
               /\ stored' = IF Op[c] = "CREATE" /\ code = "SUCCESS"
                            THEN [stored EXCEPT ![s] = @ \cup {Subject(c)}] ELSE stored
    BY <1>4 DEF Serve
  <2>2. PICK code \in Outcomes(Op[c], Subject(c) \in stored[s]) :
          /\ call[c] = "sent" /\ target[c] = s /\ call' = [call EXCEPT ![c] = code]
          /\ stored' = IF Op[c] = "CREATE" /\ code = "SUCCESS"
                       THEN [stored EXCEPT ![s] = @ \cup {Subject(c)}] ELSE stored
    BY <2>1
  <2>3. code \in Codes \cup {"unset"} /\ code # "sent"
    <3>1. Op[c] \in Relayed \cup {"VIEW", "CREATE"}
      BY <2>2 DEF TypeInv, Places
    <3>2. (Subject(c) \in stored[s]) \in BOOLEAN
      OBVIOUS
    <3>3. code \in Codes \cup {"unset"}
      BY <3>1, <3>2, <2>2 DEF Outcomes, Relayed, Codes
    <3> QED BY <3>3 DEF Codes
  <2>4. /\ call' \in [Conns -> {"none", "sent", "refused", "lost", "unset"} \cup Codes]
        /\ \A d \in Conns : \/ call'[d] = call[d]
                            \/ call[d] = "sent" /\ call'[d] # "sent"
    BY <1>1, <2>2, <2>3
  <2>5. CASE Op[c] = "CREATE" /\ code = "SUCCESS"
    <3> DEFINE more == stored[s] \cup {FileOf[c]}
               Sets == SUBSET Names
    <3>1. Subject(c) = FileOf[c] /\ FileOf[c] \in Names
      BY <2>5, EntryTypes DEF Subject
    <3>2. stored' = [stored EXCEPT ![s] = more]
      BY <2>2, <2>5, <3>1
    <3>3. more \in Sets /\ stored \in [Servers -> Sets] /\ stored[s] \subseteq more
          /\ FileOf[c] \in more
      BY <1>1, <3>1
    <3> HIDE DEF more, Sets
    <3>4. /\ stored' \in [Servers -> Sets] /\ stored'[s] = more
          /\ \A x \in Servers \ {s} : stored'[x] = stored[x]
      BY <3>2, <3>3
    <3>5. \A x \in Servers : stored[x] \subseteq stored'[x]
      <4>1. \A x \in Servers : x = s \/ stored'[x] = stored[x]
        BY <3>4
      <4> QED BY <3>3, <3>4, <4>1
    <3>6. \A d \in Conns : call'[d] # call[d] => d = c
      BY <1>1, <2>2
    <3> QED BY <2>2, <2>4, <3>3, <3>4, <3>5, <3>6 DEF Sets
  <2>6. CASE ~(Op[c] = "CREATE" /\ code = "SUCCESS")
    <3>1. stored' = stored
      BY <2>2, <2>6
    <3>2. \A d \in Conns : call'[d] # call[d] => d = c /\ call'[d] = code
      BY <1>1, <2>2
    <3> QED BY <1>1, <2>4, <2>6, <3>1, <3>2
  <2> QED BY <2>5, <2>6
<1> QED
  BY <1>2, <1>3, <1>4 DEF ServerStep, Register, RegisterLock, Reconnect, RegisterNew,
     RegisterRefused, PrintStatus, Acknowledge, Restart

LEMMA ServerTypes ==
  ASSUME TypeInv, NEW s \in Servers, ServerStep(s)
  PROVE  TypeInv'
<1>1. /\ ss_list' \in Seq(Servers) /\ ss_list' # <<>> /\ IsInjective(ss_list')
      /\ DOMAIN ss_list \subseteq DOMAIN ss_list' /\ files' \in [Servers -> Seq(Entry)]
  BY ServersGrow
<1>2. /\ call' \in [Conns -> {"none", "sent", "refused", "lost", "unset"} \cup Codes]
      /\ stored' \in [Servers -> SUBSET Names]
      /\ \A c \in Conns : call'[c] = "sent" => call[c] = "sent"
  BY ServerAnswers
<1>3. TypeOK'
  <2>1. TypeOK /\ DOMAIN files' = Servers /\ DOMAIN stored' = Servers
    BY <1>1, <1>2 DEF TypeInv
  <2>2. next_ss_index' \in DOMAIN ss_list' /\ ss_list_mutex' \in Threads \cup {Nobody}
    BY <1>1, <2>1, ServerFrame DEF TypeOK
  <2>3. /\ process' \in [Servers -> {"up", "down", "booting"}]
        /\ UNCHANGED <<ss_mutex, target, reply, assignment_mutex>>
    BY ServerFrame
  <2>4. /\ assignment_mutex' \in Threads \cup {Nobody}
        /\ ss_mutex' \in [Servers -> Conns \cup {Nobody}]
        /\ target' \in [Conns -> Servers]
        /\ \A c \in Conns : reply'[c].error_code \in Codes
    BY <2>1, <2>3 DEF TypeOK
  <2>5. {ss_list_mutex', assignment_mutex'} \subseteq Threads \cup {Nobody}
    BY <2>2, <2>4
  <2> QED BY <1>1, <1>2, <2>1, <2>2, <2>3, <2>4, <2>5 DEF TypeOK
<1>4. Types'
  BY <1>1, <1>2, ServerFrame DEF TypeInv, Types
<1>5. Places'
  BY <1>2, ServerFrame DEF TypeInv, Places
<1> QED BY <1>3, <1>4, <1>5 DEF TypeInv
-----------------------------------------------------------------------------
(***************************************************************************)
(* VIEW.                                                                   *)
(***************************************************************************)

\* A step of a client's thread changes nothing of another's, and no list of files whose
\* mutex another thread has.
LEMMA HandleFrame ==
  ASSUME TypeInv, NEW c \in Conns, InView(c), Handle(c)
  PROVE  /\ UNCHANGED <<ss_list, storage>>
         /\ \A d \in Conns \ {c} :
              /\ pc'[d] = pc[d] /\ ss_index'[d] = ss_index[d] /\ index'[d] = index[d]
              /\ lines'[d] = lines[d] /\ guessed'[d] = guessed[d] /\ target'[d] = target[d]
              /\ call'[d] = call[d] /\ reply'[d] = reply[d]
         /\ \A x \in Servers : ss_mutex[x] \notin {c, Nobody} =>
              ss_mutex'[x] = ss_mutex[x] /\ files'[x] = files[x]
<1>1. /\ pc \in [Threads -> Labels] /\ ss_index \in [Threads -> Nat \ {0}]
      /\ index \in [Conns -> Nat \ {0}] /\ lines \in [Conns -> Seq(Line) \cup Seq(Users)]
      /\ guessed \in [Conns -> SUBSET Names] /\ target \in [Conns -> Servers]
      /\ call \in [Conns -> {"none", "sent", "refused", "lost", "unset"} \cup Codes]
      /\ reply \in [Conns -> [msg_type : {"none", "ACK", "ERROR", "RESPONSE"},
                              error_code : Codes]]
      /\ ss_mutex \in [Servers -> Conns \cup {Nobody}] /\ files \in [Servers -> Seq(Entry)]
      /\ \A d \in Conns : d \in Threads
  BY TypeFacts
<1>2. UNCHANGED <<ss_list, storage>>
  BY DEF Handle, View, ViewLock, ViewEnter, ViewVisible, ViewAskAccess, ViewAccess, ViewShow,
     ViewAskDetails, ViewDetails, ViewLeave, ViewEnd, Create, CreateFind, AssignLock, AssignPick,
     CreateAdd, Created, CreateRemove, RelayMissing, RelayAsk, RelayAnswer, RegisterClient,
     ListClients
<1>3. \A d \in Conns \ {c} :
              /\ pc'[d] = pc[d] /\ ss_index'[d] = ss_index[d] /\ index'[d] = index[d]
              /\ lines'[d] = lines[d] /\ guessed'[d] = guessed[d] /\ target'[d] = target[d]
              /\ call'[d] = call[d] /\ reply'[d] = reply[d]
  <2> SUFFICES ASSUME NEW d \in Conns \ {c}
               PROVE  /\ pc'[d] = pc[d] /\ ss_index'[d] = ss_index[d] /\ index'[d] = index[d]
                      /\ lines'[d] = lines[d] /\ guessed'[d] = guessed[d]
                      /\ target'[d] = target[d] /\ call'[d] = call[d] /\ reply'[d] = reply[d]
    OBVIOUS
  <2> USE <1>1 DEF Goto, Answer, Ask, Guess, ViewLine
  <2>1. CASE ViewLock(c)
    BY <2>1 DEF ViewLock
  <2>2. CASE ViewEnter(c)
    BY <2>2 DEF ViewEnter
  <2>3. CASE ViewVisible(c)
    BY <2>3 DEF ViewVisible
  <2>4. CASE ViewAskAccess(c)
    BY <2>4 DEF ViewAskAccess
  <2>5. CASE ViewAccess(c)
    <3>1. UNCHANGED <<ss_index, lines, target, reply>> /\ call' = [call EXCEPT ![c] = "none"]
      BY <2>5 DEF ViewAccess
    <3>2. guessed'[d] = guessed[d]
      BY <2>5 DEF ViewAccess
    <3>3. \/ Goto(c, "show") /\ UNCHANGED index
          \/ Goto(c, "file") /\ index' = [index EXCEPT ![c] = @ + 1]
      <4>1. PICK seen \in user_has_access(c) :
              IF seen THEN Goto(c, "show") /\ UNCHANGED index
                      ELSE Goto(c, "file") /\ index' = [index EXCEPT ![c] = @ + 1]
        BY <2>5 DEF ViewAccess
      <4> QED BY <4>1
    <3> QED BY <3>1, <3>2, <3>3
  <2>6. CASE ViewShow(c)
    <3> DEFINE line == [ss |-> ViewServer(c), filename |-> ViewFile(c).filename, details |-> FALSE]
    <3>1. ViewLine(c, line) /\ UNCHANGED <<ss_index, guessed, target, call>>
      BY <2>6 DEF ViewShow
    <3> HIDE DEF line
    <3>2. CASE Len(lines[c]) < MaxLines
      BY <3>1, <3>2
    <3>3. CASE ~(Len(lines[c]) < MaxLines)
      BY <3>1, <3>3
    <3> QED BY <3>2, <3>3
  <2>7. CASE ViewAskDetails(c)
    BY <2>7 DEF ViewAskDetails
  <2>8. CASE ViewDetails(c)
    <3> DEFINE line == [ss |-> ViewServer(c), filename |-> ViewFile(c).filename,
                        details |-> call[c] \in {"SUCCESS", "unset"}]
    <3>1. /\ ViewLine(c, line) /\ UNCHANGED <<ss_index, guessed, target>>
          /\ call' = [call EXCEPT ![c] = "none"]
      BY <2>8 DEF ViewDetails
    <3> HIDE DEF line
    <3>2. CASE Len(lines[c]) < MaxLines
      BY <3>1, <3>2
    <3>3. CASE ~(Len(lines[c]) < MaxLines)
      BY <3>1, <3>3
    <3> QED BY <3>2, <3>3
  <2>9. CASE ViewLeave(c)
    BY <2>9 DEF ViewLeave
  <2>10. CASE ViewEnd(c)
    BY <2>10 DEF ViewEnd
  <2>11. CASE CreateFind(c)
    <3>1. CASE Holders(FileOf[c]) = {}
      BY <2>11, <3>1 DEF CreateFind
    <3>2. CASE Holders(FileOf[c]) # {}
      <4>1. Answer(c, "ACK", "FILE_EXISTS") /\ UNCHANGED <<loops, question>>
        <5> HIDE DEF Answer
        <5> QED BY <2>11, <3>2 DEF CreateFind
      <4> QED BY <4>1
    <3> QED BY <3>1, <3>2
  <2>12. CASE AssignLock(c)
    BY <2>12 DEF AssignLock
  <2>13. CASE AssignPick(c)
    BY <2>13 DEF AssignPick
  <2>14. CASE CreateAdd(c)
    BY SMTT(30), <2>14 DEF CreateAdd
  <2>15. CASE Created(c)
    BY <2>15 DEF Created
  <2>16. CASE CreateRemove(c)
    BY <2>16 DEF CreateRemove
  <2>17. CASE RelayMissing(c)
    BY <2>17 DEF RelayMissing
  <2>18. CASE RelayAsk(c)
    <3>1. PICK s \in Holders(FileOf[c]) :
            IF Op[c] = "REVERT" /\ Owner(s, FileOf[c]) # UserOf[c]
            THEN Answer(c, "ERROR", "NO_WRITE_ACCESS") /\ UNCHANGED question
            ELSE Ask(c, s) /\ Goto(c, "relay") /\ UNCHANGED reply
      BY <2>18 DEF RelayAsk
    <3>2. UNCHANGED loops
      BY <2>18 DEF RelayAsk
    <3>3. CASE Answer(c, "ERROR", "NO_WRITE_ACCESS") /\ UNCHANGED question
      BY <3>2, <3>3
    <3>4. CASE Ask(c, s) /\ Goto(c, "relay") /\ UNCHANGED reply
      BY <3>2, <3>4
    <3> QED BY <3>1, <3>3, <3>4
  <2>19. CASE RelayAnswer(c)
    <3>1. \E type, code : Answer(c, type, code)
      <4> HIDE DEF Answer
      <4> QED BY <2>19 DEF RelayAnswer
    <3>2. UNCHANGED <<loops, question>>
      BY <2>19 DEF RelayAnswer
    <3> QED BY <3>1, <3>2
  <2>20. CASE RegisterClient(c)
    BY <2>20 DEF RegisterClient
  <2>21. CASE ListClients(c)
    BY <2>21 DEF ListClients
  <2> QED
    BY <2>1, <2>2, <2>3, <2>4, <2>5, <2>6, <2>7, <2>8, <2>9, <2>10, <2>11, <2>12, <2>13, <2>14,
       <2>15, <2>16, <2>17, <2>18, <2>19, <2>20, <2>21 DEF Handle, View, Create
<1>4. ASSUME NEW x \in Servers, ss_mutex[x] \notin {c, Nobody}
      PROVE  ss_mutex'[x] = ss_mutex[x] /\ files'[x] = files[x]
  <2>1. pc[c] \in Inside => ViewServer(c) # x
    BY <1>4 DEF InView, Holding
  <2>2. files'[x] = files[x]
    BY <1>1, <1>4 DEF Handle, View, ViewLock, ViewEnter, ViewVisible, ViewAskAccess, ViewAccess,
       ViewShow, ViewAskDetails, ViewDetails, ViewLeave, ViewEnd, Create, CreateFind, AssignLock,
       AssignPick, CreateAdd, Created, CreateRemove, RelayMissing, RelayAsk, RelayAnswer,
       RegisterClient, ListClients
  <2>3. ss_mutex'[x] = ss_mutex[x]
    BY <1>1, <1>4, <2>1 DEF Inside, ViewLine, Handle, View, ViewLock, ViewEnter, ViewVisible,
       ViewAskAccess, ViewAccess, ViewShow, ViewAskDetails, ViewDetails, ViewLeave, ViewEnd,
       Create, CreateFind, AssignLock, AssignPick, CreateAdd, Created, CreateRemove,
       RelayMissing, RelayAsk, RelayAnswer, RegisterClient, ListClients
  <2> QED BY <2>2, <2>3
<1> QED BY <1>2, <1>3, <1>4

\* A VIEW is not disturbed by what others do: new servers come behind the one it is at,
\* and they leave the files of that one alone.
LEMMA ViewFramed ==
  ASSUME TypeInv, NEW c \in Conns, InView(c), pc'[c] = pc[c], ss_index'[c] = ss_index[c],
         index'[c] = index[c], lines'[c] = lines[c], guessed'[c] = guessed[c],
         Len(ss_list) <= Len(ss_list'), DOMAIN ss_list \subseteq DOMAIN ss_list',
         Len(ss_list') \in Nat,
         \A k \in DOMAIN ss_list : ss_list'[k] = ss_list[k],
         \A x \in ToSet(ss_list) : ss_mutex[x] = c => ss_mutex'[x] = c /\ files'[x] = files[x]
  PROVE  InView(c)'
<1>1. /\ ss_list \in Seq(Servers) /\ Len(ss_list) \in Nat /\ ss_index[c] \in Nat
  BY TypeFacts
<1>2. /\ \A f : Sees(c, f)' <=> Sees(c, f)
      /\ \A f : MaySee(c, f)' <=> MaySee(c, f)
  BY DEF Sees, MaySee
<1>3. pc[c] \in Inside => /\ ss_index[c] <= Len(ss_list') /\ ViewServer(c)' = ViewServer(c)
                          /\ ss_mutex'[ViewServer(c)] = c
                          /\ files'[ViewServer(c)] = files[ViewServer(c)]
                          /\ ViewFile(c)' = ViewFile(c)
  <2> HAVE pc[c] \in Inside
  <2>1. ss_index[c] \in DOMAIN ss_list /\ ss_mutex[ViewServer(c)] = c /\ ss_index[c] <= Len(ss_list)
    BY ViewAt DEF InView, Holding
  <2>2. ViewServer(c) \in ToSet(ss_list) /\ ViewServer(c)' = ViewServer(c)
    BY <2>1 DEF ViewServer, ToSet
  <2>3. ss_mutex'[ViewServer(c)] = c /\ files'[ViewServer(c)] = files[ViewServer(c)]
    BY <2>1, <2>2
  <2>4. ViewFile(c)' = ViewFile(c)
    BY <2>2, <2>3 DEF ViewFile
  <2>5. ss_index[c] <= Len(ss_list')
    BY <1>1, <2>1
  <2> QED BY <2>2, <2>3, <2>4, <2>5
<1>4. Holding(c)'
  BY <1>3 DEF Holding
<1>5. Visited(c)'
  <2>1. Op[c] = "VIEW" /\ pc'[c] = "start" => lines'[c] = <<>>
    BY DEF InView, Visited
  <2>2. ASSUME pc'[c] \in Viewing, NEW l \in ToSet(lines'[c])
        PROVE  \E k \in DOMAIN ss_list' :
                 /\ l.ss = ss_list'[k] /\ k <= ss_index'[c]
                 /\ pc'[c] = "server" => k < ss_index'[c]
    <3>1. PICK k \in DOMAIN ss_list : /\ l.ss = ss_list[k] /\ k <= ss_index[c]
                                      /\ pc[c] = "server" => k < ss_index[c]
      BY <2>2 DEF InView, Visited
    <3> QED BY <3>1
  <2> QED BY <2>1, <2>2 DEF Visited
<1>6. Pending(c)'
  <2>1. Pending(c)
    BY DEF InView
  <2> QED BY <1>2, <1>3, <2>1 DEF Pending, Inside
<1>7. Shown(c)'
  <2>1. Shown(c)
    BY DEF InView
  <2>2. CASE pc[c] \in Inside
    <3>1. PICK v, fs, ls, n : v = ViewServer(c) /\ fs = files[v] /\ ls = lines[c] /\ n = index[c]
      OBVIOUS
    <3>2. v = ViewServer(c)' /\ fs = files'[v] /\ ls = lines'[c] /\ n = index'[c]
      BY <1>3, <2>2, <3>1
    <3>3. /\ \A k \in DOMAIN fs : k < n /\ Sees(c, fs[k]) =>
               \E l \in ToSet(ls) : l.ss = v /\ l.filename = fs[k].filename
          /\ \A l \in ToSet(ls) : l.ss = v =>
               \E k \in DOMAIN fs : /\ k < n /\ MaySee(c, fs[k])
                                    /\ l.filename = fs[k].filename
      BY <2>1, <2>2, <3>1 DEF Shown
    <3>4. /\ \A k \in DOMAIN fs : k < n /\ Sees(c, fs[k])' =>
               \E l \in ToSet(ls) : l.ss = v /\ l.filename = fs[k].filename
          /\ \A l \in ToSet(ls) : l.ss = v =>
               \E k \in DOMAIN fs : /\ k < n /\ MaySee(c, fs[k])'
                                    /\ l.filename = fs[k].filename
      BY <1>2, <3>3
    <3> QED BY <3>2, <3>4 DEF Shown
  <2>3. CASE pc[c] \notin Inside
    BY <2>3 DEF Shown
  <2> QED BY <2>2, <2>3
<1> QED BY <1>4, <1>5, <1>6, <1>7 DEF InView

\* Nor is one that has not begun or is over.
LEMMA OutOfView ==
  ASSUME NEW c \in Conns, pc'[c] \notin Viewing \cup {"start"}
  PROVE  InView(c)'
BY DEF InView, Holding, Visited, Pending, Shown, Viewing, Inside

\* A file that is not listed is passed.
LEMMA ViewPass ==
  ASSUME TypeInv, NEW c \in Conns, pc[c] \in Inside, InView(c), pc'[c] = "file",
         UNCHANGED <<ss_list, files, ss_mutex, ss_index, lines>>, index'[c] = index[c] + 1,
         guessed[c] \subseteq guessed'[c], index[c] <= Len(files[ViewServer(c)]),
         ~Sees(c, ViewFile(c))
  PROVE  InView(c)'
<1>1. PICK v, fs, ls, n : v = ViewServer(c) /\ fs = files[v] /\ ls = lines[c] /\ n = index[c]
  OBVIOUS
<1>2. v = ViewServer(c)' /\ fs = files'[v] /\ ls = lines'[c] /\ index'[c] = n + 1
  BY <1>1 DEF ViewServer
<1>3. fs \in Seq(Entry) /\ n \in Nat /\ DOMAIN fs \subseteq Nat /\ ~Sees(c, fs[n])
  <2>1. fs \in Seq(Entry) /\ n \in Nat /\ ~Sees(c, fs[n])
    BY <1>1, ViewAt, TypeFacts DEF InView, ViewFile
  <2>2. DOMAIN fs = 1 .. Len(fs)
    BY <2>1
  <2> QED BY <2>1, <2>2
<1>4. /\ \A k \in DOMAIN fs : k < n /\ Sees(c, fs[k]) =>
           \E l \in ToSet(ls) : l.ss = v /\ l.filename = fs[k].filename
      /\ \A l \in ToSet(ls) : l.ss = v =>
           \E k \in DOMAIN fs : k < n /\ MaySee(c, fs[k]) /\ l.filename = fs[k].filename
  BY <1>1 DEF InView, Shown
<1>5. \A f : (Sees(c, f)' <=> Sees(c, f)) /\ (MaySee(c, f) => MaySee(c, f)')
  BY DEF Sees, MaySee
<1>6. \A k \in DOMAIN fs : (k < n => k < n + 1) /\ (k < n + 1 => k < n \/ k = n)
  BY <1>3
<1>7. /\ \A k \in DOMAIN fs : k < n + 1 /\ Sees(c, fs[k])' =>
           \E l \in ToSet(ls) : l.ss = v /\ l.filename = fs[k].filename
      /\ \A l \in ToSet(ls) : l.ss = v =>
           \E k \in DOMAIN fs : k < n + 1 /\ MaySee(c, fs[k])' /\ l.filename = fs[k].filename
  BY <1>3, <1>4, <1>5, <1>6
<1>8. Shown(c)'
  BY <1>2, <1>7 DEF Shown
<1>9. Holding(c)' /\ Visited(c)' /\ Pending(c)'
  BY DEF InView, Holding, Visited, Pending, ViewServer, Viewing, Inside
<1> QED BY <1>8, <1>9 DEF InView

\* A file that is listed is passed.
LEMMA ViewList ==
  ASSUME TypeInv, NEW c \in Conns, pc[c] \in {"show", "details"}, InView(c), pc'[c] = "file",
         UNCHANGED <<ss_list, files, ss_mutex, ss_index, guessed>>, index'[c] = index[c] + 1,
         NEW line, line.ss = ViewServer(c), line.filename = ViewFile(c).filename,
         lines[c] \in Seq(Line), line \in Line, lines'[c] = Append(lines[c], line)
  PROVE  InView(c)'
<1>1. PICK v, fs, ls, n : v = ViewServer(c) /\ fs = files[v] /\ ls = lines[c] /\ n = index[c]
  OBVIOUS
<1>2. v = ViewServer(c)' /\ fs = files'[v] /\ index'[c] = n + 1
  BY <1>1 DEF ViewServer
<1>3. ToSet(lines'[c]) = ToSet(ls) \cup {line}
  <2>1. \A i \in 1 .. Len(ls) + 1 : i = Len(ls) + 1 \/ i \in 1 .. Len(ls)
    BY <1>1, LenProperties
  <2>2. /\ Len(lines'[c]) = Len(ls) + 1 /\ DOMAIN lines'[c] = 1 .. Len(ls) + 1
        /\ \A i \in 1 .. Len(ls) : lines'[c][i] = ls[i]
        /\ lines'[c][Len(ls) + 1] = line /\ DOMAIN ls = 1 .. Len(ls) /\ Len(ls) \in Nat
    BY <1>1, AppendProperties, LenProperties
  <2>3. 1 .. Len(ls) \subseteq 1 .. Len(ls) + 1 /\ Len(ls) + 1 \in 1 .. Len(ls) + 1
    BY <2>2
  <2> QED BY SMTT(30), <2>1, <2>2, <2>3 DEF ToSet
<1>4. /\ pc[c] \in Inside /\ fs \in Seq(Entry) /\ n \in Nat \ {0} /\ DOMAIN fs = 1 .. Len(fs)
      /\ Len(fs) \in Nat /\ n <= Len(fs) /\ MaySee(c, fs[n])
      /\ line.ss = v /\ line.filename = fs[n].filename /\ ss_index[c] \in DOMAIN ss_list
      /\ v = ss_list[ss_index[c]] /\ ss_index[c] \in Nat
  <2>1. pc[c] \in Inside
    BY DEF Inside
  <2>2. n <= Len(fs) /\ MaySee(c, fs[n])
    BY <1>1 DEF InView, Pending, ViewFile
  <2> QED BY <1>1, <2>1, <2>2, ViewAt, TypeFacts DEF InView, ViewFile, ViewServer
<1>5. /\ \A k \in DOMAIN fs : k < n /\ Sees(c, fs[k]) =>
           \E l \in ToSet(ls) : l.ss = v /\ l.filename = fs[k].filename
      /\ \A l \in ToSet(ls) : l.ss = v =>
           \E k \in DOMAIN fs : k < n /\ MaySee(c, fs[k]) /\ l.filename = fs[k].filename
  BY <1>1, <1>4 DEF InView, Shown
<1>6. \A f : (Sees(c, f)' <=> Sees(c, f)) /\ (MaySee(c, f) <=> MaySee(c, f)')
  BY DEF Sees, MaySee
<1>7. /\ \A k \in DOMAIN fs : (k < n => k < n + 1) /\ (k < n + 1 => k < n \/ k = n)
      /\ n \in DOMAIN fs /\ n < n + 1
  BY <1>4
<1>8. /\ \A k \in DOMAIN fs : k < n + 1 /\ Sees(c, fs[k])' =>
           \E l \in ToSet(ls) \cup {line} : l.ss = v /\ l.filename = fs[k].filename
      /\ \A l \in ToSet(ls) \cup {line} : l.ss = v =>
           \E k \in DOMAIN fs : k < n + 1 /\ MaySee(c, fs[k])' /\ l.filename = fs[k].filename
  BY <1>4, <1>5, <1>6, <1>7
<1>9. Shown(c)'
  BY <1>2, <1>3, <1>8 DEF Shown
<1>10. Visited(c)'
  <2>1. \A l \in ToSet(ls) \cup {line} : \E k \in DOMAIN ss_list :
          l.ss = ss_list[k] /\ k <= ss_index[c]
    <3>1. \A l \in ToSet(ls) : \E k \in DOMAIN ss_list : l.ss = ss_list[k] /\ k <= ss_index[c]
      BY <1>1, <1>4 DEF InView, Visited, Viewing
    <3>2. ss_index[c] <= ss_index[c]
      BY <1>4
    <3> QED BY <1>4, <3>1, <3>2
  <2> QED BY <1>3, <2>1 DEF Visited
<1>11. Holding(c)' /\ Pending(c)'
  BY <1>4 DEF InView, Holding, Pending, ViewServer, Inside
<1> QED BY <1>9, <1>10, <1>11 DEF InView

\* A VIEW goes from one place to another for the same file.
LEMMA ViewStay ==
  ASSUME TypeInv, NEW c \in Conns, pc[c] \in Inside, InView(c), pc'[c] \in Inside,
         UNCHANGED <<ss_list, files, ss_mutex, ss_index, lines>>, index'[c] = index[c],
         guessed[c] \subseteq guessed'[c], index[c] <= Len(files[ViewServer(c)]),
         pc'[c] = "access" => ~Sees(c, ViewFile(c)),
         pc'[c] \in {"show", "details"} => MaySee(c, ViewFile(c))'
  PROVE  InView(c)'
<1>1. PICK v, fs, ls, n : v = ViewServer(c) /\ fs = files[v] /\ ls = lines[c] /\ n = index[c]
  OBVIOUS
<1>2. v = ViewServer(c)' /\ fs = files'[v] /\ ls = lines'[c] /\ index'[c] = n
  BY <1>1 DEF ViewServer
<1>3. /\ \A k \in DOMAIN fs : k < n /\ Sees(c, fs[k]) =>
           \E l \in ToSet(ls) : l.ss = v /\ l.filename = fs[k].filename
      /\ \A l \in ToSet(ls) : l.ss = v =>
           \E k \in DOMAIN fs : k < n /\ MaySee(c, fs[k]) /\ l.filename = fs[k].filename
  BY <1>1 DEF InView, Shown
<1>4. \A f : (Sees(c, f)' <=> Sees(c, f)) /\ (MaySee(c, f) => MaySee(c, f)')
  BY DEF Sees, MaySee
<1>5. /\ \A k \in DOMAIN fs : k < n /\ Sees(c, fs[k])' =>
           \E l \in ToSet(ls) : l.ss = v /\ l.filename = fs[k].filename
      /\ \A l \in ToSet(ls) : l.ss = v =>
           \E k \in DOMAIN fs : k < n /\ MaySee(c, fs[k])' /\ l.filename = fs[k].filename
  BY <1>3, <1>4
<1>6. Shown(c)'
  BY <1>2, <1>5 DEF Shown
<1>7. Holding(c)' /\ Visited(c)'
  BY DEF InView, Holding, Visited, ViewServer, Viewing, Inside
<1>8. Pending(c)'
  <2>1. ViewFile(c)' = ViewFile(c)
    BY <1>1, <1>2 DEF ViewFile
  <2> QED BY <1>1, <1>2, <1>4, <2>1 DEF Pending
<1> QED BY <1>6, <1>7, <1>8 DEF InView

\* The steps of VIEW: what it lists is right when it goes on to the next file.
LEMMA ViewLineKept ==
  ASSUME TypeInv, NEW c \in Conns, pc[c] \in {"show", "details"}, InView(c),
         UNCHANGED <<ss_list, files, ss_index, guessed>>,
         NEW line, line \in Line, line.ss = ViewServer(c), line.filename = ViewFile(c).filename,
         ViewLine(c, line)
  PROVE  InView(c)'
<1>1. /\ pc \in [Threads -> Labels] /\ index \in [Conns -> Nat \ {0}] /\ c \in Threads
      /\ lines \in [Conns -> Seq(Line) \cup Seq(Users)]
  BY TypeFacts
<1>2. lines[c] \in Seq(Line)
  <2>1. pc[c] \in Viewing
    BY DEF Viewing, Inside
  <2> QED BY <2>1 DEF TypeInv, Types, Places
<1>3. CASE Len(lines[c]) < MaxLines
  <2>1. /\ lines' = [lines EXCEPT ![c] = Append(@, line)] /\ pc' = [pc EXCEPT ![c] = "file"]
        /\ index' = [index EXCEPT ![c] = @ + 1] /\ UNCHANGED ss_mutex
    BY <1>3 DEF ViewLine, Goto
  <2>2. pc'[c] = "file" /\ index'[c] = index[c] + 1 /\ lines'[c] = Append(lines[c], line)
    BY <1>1, <2>1
  <2> QED BY <1>2, <2>1, <2>2, ViewList
<1>4. CASE ~(Len(lines[c]) < MaxLines)
  <2>1. pc'[c] = "done"
    BY <1>1, <1>4 DEF ViewLine, Answer, Goto
  <2> QED BY <2>1, OutOfView DEF Viewing, Inside
<1> QED BY <1>3, <1>4

LEMMA ViewKept ==
  ASSUME TypeInv, NEW c \in Conns, InView(c), View(c)
  PROVE  InView(c)'
<1>1. /\ pc \in [Threads -> Labels] /\ ss_index \in [Threads -> Nat \ {0}] /\ c \in Threads
      /\ index \in [Conns -> Nat \ {0}] /\ guessed \in [Conns -> SUBSET Names]
      /\ ss_mutex \in [Servers -> Conns \cup {Nobody}] /\ ss_list \in Seq(Servers)
      /\ DOMAIN ss_list = 1 .. Len(ss_list) /\ Len(ss_list) \in Nat /\ IsInjective(ss_list)
  BY TypeFacts DEF TypeInv, Types
<1>2. UNCHANGED <<ss_list, files>>
  BY DEF View, ViewLock, ViewEnter, ViewVisible, ViewAskAccess, ViewAccess, ViewShow,
     ViewAskDetails, ViewDetails, ViewLeave, ViewEnd
<1>3. pc[c] \in {"access", "show", "details"} =>
        /\ index[c] <= Len(files[ViewServer(c)])
        /\ ViewFile(c) \in Entry /\ ViewFile(c).filename \in Names /\ ViewServer(c) \in Servers
  BY ViewAt DEF InView, Pending, Inside
<1> USE DEF Goto
<1>4. CASE ViewLock(c)
  <2>1. pc'[c] = "server" /\ lines'[c] = <<>>
    BY <1>1, <1>4 DEF ViewLock, InView, Visited
  <2>2. ToSet(lines'[c]) = {}
    BY <2>1 DEF ToSet
  <2> QED BY <2>1, <2>2 DEF InView, Holding, Visited, Pending, Shown, Inside
<1>5. CASE ViewEnter(c)
  <2>1. /\ pc'[c] = "file" /\ index'[c] = 1 /\ UNCHANGED <<ss_index, lines, guessed>>
        /\ pc[c] = "server" /\ ss_index[c] <= Len(ss_list)
    BY <1>1, <1>5 DEF ViewEnter
  <2>2. /\ ss_index[c] \in Nat \ {0} /\ ss_index[c] \in DOMAIN ss_list
        /\ \A k \in DOMAIN ss_list : k < ss_index[c] => k <= ss_index[c] /\ k # ss_index[c]
    <3>1. ss_index[c] \in Nat \ {0}
      BY <1>1
    <3>2. ss_index[c] \in DOMAIN ss_list
      BY <1>1, <2>1, <3>1
    <3>3. \A k \in DOMAIN ss_list : k \in Nat
      BY <1>1
    <3> QED BY <3>1, <3>2, <3>3
  <2>3. ViewServer(c) \in Servers /\ ViewServer(c)' = ViewServer(c)
    BY <1>1, <1>2, <2>1, <2>2 DEF ViewServer
  <2>4. Holding(c)'
    BY <1>1, <1>2, <1>5, <2>1, <2>3 DEF ViewEnter, Holding
  <2>5. \A l \in ToSet(lines[c]) : \E k \in DOMAIN ss_list :
          l.ss = ss_list[k] /\ k < ss_index[c]
    BY <2>1 DEF InView, Visited, Viewing
  <2>6. Visited(c)'
    BY <1>2, <2>1, <2>2, <2>5 DEF Visited
  <2>7. \A l \in ToSet(lines[c]) : l.ss # ViewServer(c)
    BY <1>1, <2>2, <2>5 DEF ViewServer, IsInjective
  <2>8. \A k \in DOMAIN files[ViewServer(c)] : ~(k < 1)
    <3>1. files[ViewServer(c)] \in Seq(Entry)
      BY <2>3, TypeFacts
    <3>2. DOMAIN files[ViewServer(c)] = 1 .. Len(files[ViewServer(c)])
      BY <3>1
    <3> QED BY <3>2
  <2>9. Shown(c)'
    BY <1>2, <2>1, <2>3, <2>7, <2>8 DEF Shown
  <2> QED BY <2>1, <2>4, <2>6, <2>9 DEF InView, Pending
<1>6. CASE ViewVisible(c)
  <2>1. /\ pc[c] \in Inside /\ pc'[c] = "show" /\ UNCHANGED <<ss_mutex, loops>>
        /\ index[c] <= Len(files[ViewServer(c)]) /\ Sees(c, ViewFile(c))
    BY <1>1, <1>6 DEF ViewVisible, ViewNeedsNoCheck, Sees, Inside
  <2>2. MaySee(c, ViewFile(c))'
    BY <1>2, <2>1 DEF MaySee, Sees, ViewFile, ViewServer
  <2>3. pc'[c] \in Inside
    BY <2>1 DEF Inside
  <2> QED BY <1>2, <2>1, <2>2, <2>3, ViewStay
<1>7. CASE ViewAskAccess(c)
  <2>1. /\ pc[c] \in Inside /\ pc'[c] = "access" /\ UNCHANGED <<ss_mutex, loops>>
        /\ index[c] <= Len(files[ViewServer(c)]) /\ ~Sees(c, ViewFile(c))
    BY <1>1, <1>7 DEF ViewAskAccess, ViewNeedsNoCheck, Sees, Inside
  <2>2. pc'[c] \in Inside
    BY <2>1 DEF Inside
  <2> QED BY <1>2, <2>1, <2>2, ViewStay
<1>8. CASE ViewAccess(c)
  <2>1. /\ pc[c] = "access" /\ UNCHANGED <<ss_mutex, ss_index, lines>> /\ Guess(c)
        /\ ~Sees(c, ViewFile(c)) /\ pc[c] \in Inside
    BY <1>8 DEF ViewAccess, InView, Pending, Inside
  <2>2. /\ guessed[c] \subseteq guessed'[c]
        /\ call[c] = "unset" => ViewFile(c).filename \in guessed'[c]
    <3> DEFINE more == IF call[c] = "unset" THEN guessed[c] \cup {ViewFile(c).filename}
                                            ELSE guessed[c]
    <3>1. guessed' = [guessed EXCEPT ![c] = more]
      BY <2>1 DEF Guess
    <3>2. /\ guessed[c] \subseteq more
          /\ call[c] = "unset" => ViewFile(c).filename \in more
      OBVIOUS
    <3> HIDE DEF more
    <3>3. guessed'[c] = more
      BY <1>1, <3>1
    <3> QED BY <3>2, <3>3
  <2>3. PICK seen \in user_has_access(c) :
          IF seen THEN Goto(c, "show") /\ UNCHANGED index
                  ELSE Goto(c, "file") /\ index' = [index EXCEPT ![c] = @ + 1]
    BY <1>8 DEF ViewAccess
  <2>4. CASE seen
    <3>1. pc'[c] = "show" /\ index'[c] = index[c]
      BY <1>1, <2>3, <2>4
    <3>2. \/ call[c] = "unset"
          \/ \E u \in FoundAs(c) :
               u = ViewFile(c).owner \/ <<u, ViewFile(c).filename>> \in Granted
      BY <2>4 DEF user_has_access, FoundAs
    <3>3. ViewFile(c)' = ViewFile(c)
      BY <1>2, <2>1, <3>1 DEF ViewFile, ViewServer
    <3>4. MaySee(c, ViewFile(c))'
      BY <2>2, <3>2, <3>3 DEF MaySee, FoundAs
    <3>5. pc'[c] \in Inside
      BY <3>1 DEF Inside
    <3> QED BY <1>2, <1>3, <2>1, <2>2, <3>1, <3>4, <3>5, ViewStay
  <2>5. CASE ~seen
    <3>1. pc'[c] = "file" /\ index'[c] = index[c] + 1
      BY <1>1, <2>3, <2>5
    <3> QED BY <1>2, <1>3, <2>1, <2>2, <3>1, ViewPass
  <2> QED BY <2>4, <2>5
<1>9. CASE ViewShow(c)
  <2>1. PICK line : line = [ss |-> ViewServer(c), filename |-> ViewFile(c).filename,
                            details |-> FALSE]
    OBVIOUS
  <2>2. ViewLine(c, line) /\ pc[c] = "show" /\ UNCHANGED <<ss_index, guessed>>
    BY <1>9, <2>1 DEF ViewShow
  <2>3. line \in Line /\ line.ss = ViewServer(c) /\ line.filename = ViewFile(c).filename
    BY <1>3, <2>1, <2>2 DEF Line
  <2> QED BY <1>2, <2>2, <2>3, ViewLineKept
<1>10. CASE ViewAskDetails(c)
  <2>1. pc[c] = "show" /\ pc'[c] = "details" /\ UNCHANGED <<ss_mutex, loops>>
    BY <1>1, <1>10 DEF ViewAskDetails
  <2>2. MaySee(c, ViewFile(c))'
    BY <1>2, <2>1 DEF InView, Pending, MaySee, Sees, ViewFile, ViewServer
  <2>3. pc[c] \in Inside /\ pc'[c] \in Inside
    BY <2>1 DEF Inside
  <2> QED BY <1>2, <1>3, <2>1, <2>2, <2>3, ViewStay
<1>11. CASE ViewDetails(c)
  <2>1. PICK line : line = [ss |-> ViewServer(c), filename |-> ViewFile(c).filename,
                            details |-> call[c] \in {"SUCCESS", "unset"}]
    OBVIOUS
  <2>2. ViewLine(c, line) /\ pc[c] = "details" /\ UNCHANGED <<ss_index, guessed>>
    BY <1>11, <2>1 DEF ViewDetails
  <2>3. line \in Line /\ line.ss = ViewServer(c) /\ line.filename = ViewFile(c).filename
    BY <1>3, <2>1, <2>2 DEF Line
  <2> QED BY <1>2, <2>2, <2>3, ViewLineKept
<1>12. CASE ViewLeave(c)
  <2>1. pc[c] = "file" /\ pc'[c] = "server" /\ UNCHANGED lines
    BY <1>1, <1>12 DEF ViewLeave
  <2>2. ss_index'[c] = ss_index[c] + 1 /\ ss_index[c] \in Nat
    BY <1>1, <1>12 DEF ViewLeave
  <2>3. \A l \in ToSet(lines[c]) : \E k \in DOMAIN ss_list :
          l.ss = ss_list[k] /\ k <= ss_index[c]
    BY <2>1 DEF InView, Visited, Viewing, Inside
  <2>4. \A k \in DOMAIN ss_list :
          k <= ss_index[c] => k <= ss_index[c] + 1 /\ k < ss_index[c] + 1
    <3>1. PICK i \in Nat : i = ss_index[c]
      BY <2>2
    <3>2. \A k \in Nat : k <= i => k <= i + 1 /\ k < i + 1
      BY ONLY <3>1
    <3>3. DOMAIN ss_list \subseteq Nat
      BY DEF TypeInv, TypeOK
    <3> QED BY ONLY <3>1, <3>2, <3>3
  <2>5. Visited(c)'
    BY <1>2, <2>1, <2>2, <2>3, <2>4 DEF Visited
  <2> QED BY <2>1, <2>5 DEF InView, Holding, Pending, Shown, Inside
<1>13. CASE ViewEnd(c)
  <2>1. pc'[c] = "done"
    BY <1>1, <1>13 DEF ViewEnd, Answer
  <2> QED BY <2>1, OutOfView DEF Viewing, Inside
<1> QED BY <1>4, <1>5, <1>6, <1>7, <1>8, <1>9, <1>10, <1>11, <1>12, <1>13 DEF View

\* The other requests are not at a place of VIEW.
LEMMA RequestsKept ==
  ASSUME TypeInv, NEW c \in Conns, Handle(c), ~View(c)
  PROVE  InView(c)'
<1>1. pc \in [Threads -> Labels] /\ c \in Threads
  BY TypeFacts
<1>2. SUFFICES pc'[c] \in {"assign", "pick", "add", "created", "relay", "done"}
  BY OutOfView DEF Viewing, Inside
<1>3. \/ \E type, code : Answer(c, type, code)
      \/ \E label \in {"assign", "pick", "add", "created", "relay"} : Goto(c, label)
  BY DEF Handle, Create, CreateFind, AssignLock, AssignPick, CreateAdd, Created, CreateRemove,
     RelayMissing, RelayAsk, RelayAnswer, RegisterClient, ListClients
<1> QED BY <1>1, <1>3 DEF Answer, Goto
-----------------------------------------------------------------------------
(***************************************************************************)
(* CREATE.                                                                 *)
(***************************************************************************)

\* A list in which a name is new, followed by an entry for it, has the name once; an entry
\* for another name added or taken away makes no difference.
LEMMA OnceAdded ==
  ASSUME NEW T, NEW fs \in Seq(T), NEW f \in T
  PROVE  /\ (\A k \in DOMAIN fs : fs[k].filename # f.filename) => Once(Append(fs, f), f.filename)
         /\ \A n : f.filename # n /\ Once(fs, n) => Once(Append(fs, f), n)
<1>1. PICK gs, m : gs = Append(fs, f) /\ m = Len(fs)
  OBVIOUS
<1>2. /\ m \in Nat /\ DOMAIN fs = 1 .. m /\ DOMAIN gs = 1 .. m + 1 /\ gs[m + 1] = f
      /\ \A k \in 1 .. m : gs[k] = fs[k]
  BY <1>1, AppendProperties, LenProperties
<1>3. /\ \A k \in 1 .. m + 1 : k = m + 1 \/ k \in 1 .. m
      /\ m + 1 \in 1 .. m + 1 /\ m + 1 \notin 1 .. m
      /\ \A k \in 1 .. m : k \in 1 .. m + 1 /\ k # m + 1
  BY <1>2
<1>4. ASSUME \A k \in 1 .. m : fs[k].filename # f.filename
      PROVE  Once(gs, f.filename)
  <2>1. \A j \in 1 .. m + 1 : (gs[j].filename = f.filename) <=> (j = m + 1)
    BY <1>2, <1>3, <1>4
  <2> QED BY <1>2, <1>3, <2>1 DEF Once
<1>5. ASSUME NEW n, f.filename # n, Once(fs, n)
      PROVE  Once(gs, n)
  <2>1. PICK k \in DOMAIN fs : \A j \in DOMAIN fs : (fs[j].filename = n) <=> (j = k)
    BY <1>5 DEF Once
  <2>2. k \in DOMAIN gs
    BY <1>2, <1>3
  <2>3. \A j \in DOMAIN gs : (gs[j].filename = n) <=> (j = k)
    BY <1>2, <1>3, <1>5, <2>1
  <2> QED BY <2>2, <2>3 DEF Once
<1> QED BY <1>1, <1>2, <1>4, <1>5

LEMMA OnceRemoved ==
  ASSUME NEW T, NEW fs \in Seq(T), NEW i \in 1 .. Len(fs), NEW n, fs[i].filename # n, Once(fs, n)
  PROVE  Once(RemoveAt(fs, i), n)
<1>1. PICK gs, len : gs = RemoveAt(fs, i) /\ len = Len(fs)
  OBVIOUS
<1>2. /\ len \in Nat /\ i \in 1 .. len /\ DOMAIN fs = 1 .. len /\ DOMAIN gs = 1 .. len - 1
      /\ \A j \in 1 .. len - 1 : gs[j] = IF j < i THEN fs[j] ELSE fs[j + 1]
  <2>1. /\ gs \in Seq(T) /\ Len(gs) = len - 1
        /\ \A j \in 1 .. len - 1 : gs[j] = IF j < i THEN fs[j] ELSE fs[j + 1]
    <3>1. /\ RemoveAt(fs, i) \in Seq(T) /\ Len(RemoveAt(fs, i)) = Len(fs) - 1
          /\ \A j \in 1 .. Len(fs) - 1 :
               RemoveAt(fs, i)[j] = IF j < i THEN fs[j] ELSE fs[j + 1]
      BY RemoveAtProperties
    <3> QED BY <1>1, <3>1
  <2>2. len \in Nat /\ DOMAIN fs = 1 .. len /\ DOMAIN gs = 1 .. len - 1
    BY <1>1, <2>1
  <2> QED BY <1>1, <2>1, <2>2
<1>3. PICK k \in 1 .. len : \A j \in 1 .. len : (fs[j].filename = n) <=> (j = k)
  <2>1. PICK k \in DOMAIN fs : \A j \in DOMAIN fs : (fs[j].filename = n) <=> (j = k)
    BY DEF Once
  <2>2. k \in 1 .. len /\ \A j \in 1 .. len : (fs[j].filename = n) <=> (j = k)
    BY <1>2, <2>1
  <2> QED BY <2>2
<1>4. k # i
  BY <1>2, <1>3
<1>5. PICK m : m = IF k < i THEN k ELSE k - 1
  OBVIOUS
<1>6. m \in 1 .. len - 1
  BY <1>2, <1>4, <1>5
<1>7. ASSUME NEW j \in 1 .. len - 1
      PROVE  (gs[j].filename = n) <=> (j = m)
  <2>1. CASE j < i
    <3>1. gs[j] = fs[j] /\ j \in 1 .. len
      BY <1>2, <2>1
    <3>2. (j = k) <=> (j = m)
      BY <1>2, <1>3, <1>4, <1>5, <2>1
    <3> QED BY <1>3, <3>1, <3>2
  <2>2. CASE ~(j < i)
    <3>1. gs[j] = fs[j + 1] /\ j + 1 \in 1 .. len
      BY <1>2, <2>2
    <3>2. (j + 1 = k) <=> (j = m)
      BY <1>2, <1>3, <1>4, <1>5, <2>2
    <3> QED BY <1>3, <3>1, <3>2
  <2> QED BY <2>1, <2>2
<1>8. m \in DOMAIN gs /\ \A j \in DOMAIN gs : (gs[j].filename = n) <=> (j = m)
  BY <1>2, <1>6, <1>7
<1> QED BY <1>1, <1>8 DEF Once

\* A step that leaves the lists and the stored files alone.
LEMMA ClaimsKept ==
  ASSUME ClaimInv, NEW c \in Conns, UNCHANGED <<ss_list, files, stored>>,
         \A d \in Conns \ {c} : /\ pc'[d] = pc[d] /\ target'[d] = target[d]
                                /\ call'[d] = call[d] /\ reply'[d] = reply[d],
         pc'[c] = "add" => target'[c] \in ToSet(ss_list),
         pc'[c] # "created",
         Claims(c)' => Claims(c) /\ call[c] = "SUCCESS" /\ target'[c] = target[c]
  PROVE  ClaimInv'
<1>1. \A d \in Conns : Claims(d)' => Claims(d) /\ target'[d] = target[d]
  BY DEF Claims
<1> SUFFICES ASSUME NEW d \in Conns PROVE Claim(d)'
  BY DEF ClaimInv
<1>2. pc'[d] \in {"add", "created"} => target'[d] \in ToSet(ss_list')
  BY DEF ClaimInv, Claim
<1>3. ASSUME Claims(d)'
      PROVE  /\ target'[d] \in ToSet(ss_list') /\ Once(files'[target'[d]], FileOf[d])
             /\ call'[d] = "SUCCESS" \/ pc'[d] = "done" => FileOf[d] \in stored'[target'[d]]
             /\ \A e \in Conns : Claims(e)' /\ d # e =>
                  target'[d] # target'[e] \/ FileOf[d] # FileOf[e]
  <2>1. Claims(d) /\ Claim(d) /\ target'[d] = target[d]
    BY <1>1, <1>3 DEF ClaimInv
  <2>2. FileOf[d] \in stored[target[d]] \/ (call'[d] # "SUCCESS" /\ pc'[d] # "done")
    BY <1>3, <2>1 DEF Claim
  <2> QED BY <1>1, <2>1, <2>2 DEF Claim
<1> QED BY <1>2, <1>3 DEF Claim

\* add_file_to_server: the name was not listed, so the new entry is the only one.
LEMMA AddKept ==
  ASSUME TypeInv, ClaimInv, NEW c \in Conns, NEW s \in Servers, s = target[c], pc[c] = "add",
         s \notin Holders(FileOf[c]), UNCHANGED <<ss_list, stored>>,
         files' = [files EXCEPT ![s] = Append(@, NewEntry(c))],
         \A d \in Conns \ {c} : /\ pc'[d] = pc[d] /\ target'[d] = target[d]
                                /\ call'[d] = call[d] /\ reply'[d] = reply[d],
         target'[c] = s, call'[c] \in {"sent", "refused"}, pc'[c] = "created"
  PROVE  ClaimInv'
<1>1. s \in ToSet(ss_list)
  BY DEF ClaimInv, Claim
<1>2. /\ files \in [Servers -> Seq(Entry)] /\ target \in [Conns -> Servers]
      /\ NewEntry(c) \in Entry /\ NewEntry(c).filename = FileOf[c]
  BY TypeFacts, EntryTypes DEF NewEntry
<1>3. PICK fs : fs = files[s]
  OBVIOUS
<1>4. fs \in Seq(Entry) /\ \A k \in DOMAIN fs : fs[k].filename # FileOf[c]
  <2>1. \A f \in ToSet(fs) : f.filename # FileOf[c]
    BY <1>1, <1>3 DEF Holders
  <2> QED BY <1>2, <1>3, <2>1 DEF ToSet
<1>5. PICK gs : gs = Append(fs, NewEntry(c))
  OBVIOUS
<1>6. /\ gs \in Seq(Entry) /\ Once(gs, FileOf[c])
      /\ \A n : FileOf[c] # n /\ Once(fs, n) => Once(gs, n)
  BY <1>2, <1>4, <1>5, AppendProperties, OnceAdded
<1>7. files'[s] = gs /\ \A x \in Servers \ {s} : files'[x] = files[x]
  BY <1>2, <1>3, <1>5, <1>6
<1>8. ASSUME NEW d \in Conns \ {c}, Claims(d)
       PROVE  target[d] # s \/ FileOf[d] # FileOf[c]
  <2>1. Once(files[target[d]], FileOf[d])
    BY <1>8 DEF ClaimInv, Claim
  <2> QED BY <1>3, <1>4, <2>1 DEF Once
<1>9. ASSUME NEW d \in Conns \ {c}, Claims(d)
       PROVE  Once(files'[target'[d]], FileOf[d])
  <2>1. Once(files[target[d]], FileOf[d]) /\ target[d] \in Servers
    BY <1>2, <1>9 DEF ClaimInv, Claim
  <2>2. CASE target[d] # s
    BY <1>7, <2>1, <2>2
  <2>3. CASE target[d] = s
    <3>1. FileOf[c] # FileOf[d] /\ Once(fs, FileOf[d])
      BY <1>3, <1>8, <1>9, <2>1, <2>3
    <3>2. Once(gs, FileOf[d])
      BY <1>6, <3>1
    <3> QED BY <1>7, <2>3, <3>2
  <2> QED BY <2>2, <2>3
<1>10. \A d \in Conns \ {c} : Claims(d)' <=> Claims(d)
  BY DEF Claims
<1> SUFFICES ASSUME NEW d \in Conns PROVE Claim(d)'
  BY DEF ClaimInv
<1>11. CASE d = c
  <2>1. \A e \in Conns : Claims(e)' /\ c # e => target'[c] # target'[e] \/ FileOf[c] # FileOf[e]
    BY <1>8, <1>10
  <2>2. Once(files'[target'[c]], FileOf[c])
    BY <1>6, <1>7
  <2> QED BY <1>1, <1>11, <2>1, <2>2 DEF Claim
<1>12. CASE d # c
  <2>1. Claim(d)
    BY DEF ClaimInv
  <2>2. CASE Claims(d)
    <3>1. \A e \in Conns : Claims(e)' /\ d # e => target'[d] # target'[e] \/ FileOf[d] # FileOf[e]
      <4> SUFFICES ASSUME NEW e \in Conns, Claims(e)', d # e
                   PROVE  target'[d] # target'[e] \/ FileOf[d] # FileOf[e]
        OBVIOUS
      <4>1. CASE e = c
        BY <1>8, <1>12, <2>2, <4>1
      <4>2. CASE e # c
        BY <1>10, <1>12, <2>1, <2>2, <4>2 DEF Claim
      <4> QED BY <4>1, <4>2
    <3>2. Once(files'[target'[d]], FileOf[d])
      BY <1>9, <1>12, <2>2
    <3>3. /\ target'[d] \in ToSet(ss_list')
          /\ call'[d] = "SUCCESS" \/ pc'[d] = "done" => FileOf[d] \in stored'[target'[d]]
      BY <1>12, <2>1, <2>2 DEF Claim
    <3> QED BY <3>1, <3>2, <3>3 DEF Claim
  <2>3. CASE ~Claims(d)
    BY <1>10, <1>12, <2>1, <2>3 DEF Claim
  <2> QED BY <2>2, <2>3
<1> QED BY <1>11, <1>12

\* remove_file_from_server: a CREATE that failed takes back its own entry and no other.
LEMMA RemoveKept ==
  ASSUME TypeInv, ClaimInv, NEW c \in Conns, Op[c] = "CREATE", pc[c] = "created",
         NEW s \in Servers, s = target[c],
         UNCHANGED <<ss_list, stored>>,
         files' = [files EXCEPT ![s] = RemoveFirstMatch(@, LAMBDA f : f.filename = FileOf[c])],
         \A d \in Conns \ {c} : /\ pc'[d] = pc[d] /\ target'[d] = target[d]
                                /\ call'[d] = call[d] /\ reply'[d] = reply[d],
         pc'[c] = "done", reply'[c].error_code # "SUCCESS"
  PROVE  ClaimInv'
<1>1. files \in [Servers -> Seq(Entry)] /\ target \in [Conns -> Servers]
  BY TypeFacts
<1>2. PICK fs, name : fs = files[s] /\ name = FileOf[c]
  OBVIOUS
<1>3. fs \in Seq(Entry) /\ DOMAIN fs = 1 .. Len(fs)
  <2>1. fs \in Seq(Entry)
    BY <1>1, <1>2
  <2> QED BY <2>1
<1>4. Claims(c) /\ Once(fs, name)
  BY <1>2 DEF ClaimInv, Claim, Claims
<1>5. \E i \in 1 .. Len(fs) : fs[i].filename = name
  BY <1>3, <1>4 DEF Once
<1>6. PICK i \in 1 .. Len(fs) :
        /\ fs[i].filename = name
        /\ \A j \in 1 .. i - 1 : fs[j].filename # name
        /\ RemoveFirstMatch(fs, LAMBDA f : f.filename = name) = RemoveAt(fs, i)
  BY <1>3, <1>5, RemoveNamedProperties
<1>7. PICK gs : gs = RemoveAt(fs, i)
  OBVIOUS
<1>8. gs \in Seq(Entry) /\ \A n : name # n /\ Once(fs, n) => Once(gs, n)
  BY <1>3, <1>6, <1>7, RemoveAtProperties, OnceRemoved
<1>9. files'[s] = gs /\ \A x \in Servers \ {s} : files'[x] = files[x]
  <2>1. RemoveFirstMatch(fs, LAMBDA f : f.filename = name) = gs
    BY <1>6, <1>7
  <2>2. files' = [files EXCEPT ![s] = RemoveFirstMatch(files[s], LAMBDA f : f.filename = FileOf[c])]
    OBVIOUS
  <2>3. files' = [files EXCEPT ![s] = RemoveFirstMatch(fs, LAMBDA f : f.filename = name)]
    BY <1>2, <2>2
  <2>4. files' = [files EXCEPT ![s] = gs]
    BY <2>1, <2>3
  <2> QED BY <1>1, <1>8, <2>4
<1>10. ASSUME NEW d \in Conns \ {c}, Claims(d)
       PROVE  Once(files'[target'[d]], FileOf[d])
  <2>1. Once(files[target[d]], FileOf[d]) /\ target[d] \in Servers
    BY <1>1, <1>10 DEF ClaimInv, Claim
  <2>2. CASE target[d] # s
    BY <1>9, <2>1, <2>2
  <2>3. CASE target[d] = s
    <3>1. FileOf[d] # name
      BY <1>2, <1>4, <1>10, <2>3 DEF ClaimInv, Claim
    <3> QED BY <1>2, <1>8, <1>9, <2>1, <2>3, <3>1
  <2> QED BY <2>2, <2>3
<1>11. ~Claims(c)' /\ \A d \in Conns \ {c} : Claims(d)' <=> Claims(d)
  BY DEF Claims
<1> SUFFICES ASSUME NEW d \in Conns PROVE Claim(d)'
  BY DEF ClaimInv
<1>12. CASE d = c
  BY <1>11, <1>12 DEF Claim
<1>13. CASE d # c
  <2>1. Claim(d)
    BY DEF ClaimInv
  <2>2. CASE Claims(d)
    <3>1. \A e \in Conns : Claims(e)' /\ d # e => target'[d] # target'[e] \/ FileOf[d] # FileOf[e]
      BY <1>11, <1>13, <2>1, <2>2 DEF Claim
    <3>2. Once(files'[target'[d]], FileOf[d])
      BY <1>10, <1>13, <2>2
    <3>3. /\ target'[d] \in ToSet(ss_list')
          /\ call'[d] = "SUCCESS" \/ pc'[d] = "done" => FileOf[d] \in stored'[target'[d]]
      BY <1>13, <2>1, <2>2 DEF Claim
    <3> QED BY <3>1, <3>2, <3>3 DEF Claim
  <2>3. CASE ~Claims(d)
    BY <1>11, <1>13, <2>1, <2>3 DEF Claim
  <2> QED BY <2>2, <2>3
<1> QED BY <1>12, <1>13

\* The steps of the client's threads.
LEMMA ClaimStep ==
  ASSUME TypeInv, TypeInv', ClaimInv, NEW c \in Conns, InView(c), Handle(c)
  PROVE  ClaimInv'
<1>1. /\ pc \in [Threads -> Labels] /\ c \in Threads /\ target \in [Conns -> Servers]
      /\ call \in [Conns -> {"none", "sent", "refused", "lost", "unset"} \cup Codes]
      /\ reply \in [Conns -> [msg_type : {"none", "ACK", "ERROR", "RESPONSE"},
                              error_code : Codes]]
      /\ ss_list \in Seq(Servers) /\ next_ss_index \in DOMAIN ss_list
  BY TypeFacts
<1>2. /\ UNCHANGED <<ss_list, stored>>
      /\ \A d \in Conns \ {c} : /\ pc'[d] = pc[d] /\ target'[d] = target[d]
                                /\ call'[d] = call[d] /\ reply'[d] = reply[d]
  BY HandleFrame
<1>3. pc[c] \in Creating => Op[c] = "CREATE"
  BY DEF TypeInv, Places
<1>4. CASE Op[c] # "CREATE"
  <2>1. UNCHANGED files
    BY <1>3, <1>4 DEF Creating, Handle, View, ViewLock, ViewEnter, ViewVisible, ViewAskAccess,
       ViewAccess, ViewShow, ViewAskDetails, ViewDetails, ViewLeave, ViewEnd, Create, CreateFind,
       AssignLock, AssignPick, CreateAdd, Created, CreateRemove, RelayMissing, RelayAsk,
       RelayAnswer, RegisterClient, ListClients
  <2>2. pc'[c] \notin {"add", "created"} /\ ~Claims(c)'
    BY <1>4 DEF TypeInv, Places, Creating, Claims
  <2> QED BY <1>2, <2>1, <2>2, ClaimsKept
<1>5. ASSUME NEW type, NEW code, Answer(c, type, code), UNCHANGED files, code # "SUCCESS"
      PROVE  ClaimInv'
  <2>1. pc'[c] = "done" /\ reply'[c].error_code # "SUCCESS"
    BY <1>1, <1>5 DEF Answer, Goto, Message
  <2> QED BY <1>2, <1>5, <2>1, ClaimsKept DEF Claims
<1>6. ASSUME NEW label \in {"assign", "pick", "add"}, Goto(c, label), UNCHANGED files,
             label = "add" => target'[c] \in ToSet(ss_list)
      PROVE  ClaimInv'
  <2>1. pc'[c] = label
    BY <1>1, <1>6 DEF Goto
  <2> QED BY <1>2, <1>6, <2>1, ClaimsKept DEF Claims
<1>7. CASE Op[c] = "CREATE"
  <2>1. Create(c)
    <3>1. ~View(c)
      BY <1>7 DEF View, ViewLock, ViewEnter, ViewVisible, ViewAskAccess,
       ViewAccess, ViewShow, ViewAskDetails, ViewDetails, ViewLeave, ViewEnd, TypeInv, Places,
       Viewing, Inside
    <3>2. ~(RelayMissing(c) \/ RelayAsk(c) \/ RegisterClient(c) \/ ListClients(c))
      BY <1>7 DEF RelayMissing, RelayAsk, RegisterClient, ListClients, Relayed
    <3>3. ~RelayAnswer(c)
      BY <1>7 DEF RelayAnswer, TypeInv, Places, Relayed
    <3> QED BY <3>1, <3>2, <3>3 DEF Handle
  <2>2. CASE CreateFind(c)
    <3>1. UNCHANGED files
      BY <2>2 DEF CreateFind
    <3>2. CASE Holders(FileOf[c]) = {}
      <4>1. Goto(c, "assign")
        BY <2>2, <3>2 DEF CreateFind
      <4> QED BY <1>6, <3>1, <4>1
    <3>3. CASE Holders(FileOf[c]) # {}
      <4>1. Answer(c, "ACK", "FILE_EXISTS")
        BY <2>2, <3>3 DEF CreateFind
      <4> QED BY <1>5, <3>1, <4>1
    <3> QED BY <3>2, <3>3
  <2>3. CASE AssignLock(c)
    <3>1. Goto(c, "pick") /\ UNCHANGED files
      BY <2>3 DEF AssignLock
    <3> QED BY <1>6, <3>1
  <2>4. CASE AssignPick(c)
    <3>1. Goto(c, "add") /\ UNCHANGED files /\ target'[c] = ss_list[next_ss_index]
      BY <1>1, <2>4 DEF AssignPick
    <3>2. target'[c] \in ToSet(ss_list)
      BY <1>1, <3>1 DEF ToSet
    <3> QED BY <1>6, <3>1, <3>2
  <2>5. CASE CreateAdd(c)
    <3>1. \/ Answer(c, "ACK", "SERVER_ERROR") /\ UNCHANGED files
          \/ Answer(c, "ACK", "FILE_EXISTS") /\ UNCHANGED files
          \/ /\ target[c] \notin Holders(FileOf[c])
             /\ files' = [files EXCEPT ![target[c]] = Append(@, NewEntry(c))]
             /\ Ask(c, target[c]) /\ Goto(c, "created")
      BY <2>5 DEF CreateAdd, NewEntry
    <3>2. CASE Answer(c, "ACK", "SERVER_ERROR") /\ UNCHANGED files
      BY <1>5, <3>2
    <3>3. CASE Answer(c, "ACK", "FILE_EXISTS") /\ UNCHANGED files
      BY <1>5, <3>3
    <3>4. CASE /\ target[c] \notin Holders(FileOf[c])
               /\ files' = [files EXCEPT ![target[c]] = Append(@, NewEntry(c))]
               /\ Ask(c, target[c]) /\ Goto(c, "created")
      <4>1. PICK s \in Servers : s = target[c]
        BY <1>1
      <4>2. /\ s \notin Holders(FileOf[c])
            /\ files' = [files EXCEPT ![s] = Append(@, NewEntry(c))]
        BY <3>4, <4>1
      <4>3. target'[c] = s /\ call'[c] \in {"sent", "refused"} /\ pc'[c] = "created"
        BY <1>1, <3>4, <4>1 DEF Ask, Goto
      <4>4. pc[c] = "add"
        BY <2>5 DEF CreateAdd
      <4> QED BY <1>2, <4>1, <4>2, <4>3, <4>4, AddKept
    <3> QED BY <3>1, <3>2, <3>3, <3>4
  <2>6. CASE Created(c)
    <3>1. UNCHANGED <<files, target>> /\ pc'[c] = "done" /\ pc[c] = "created" /\ call[c] = "SUCCESS"
      BY <1>1, <2>6 DEF Created, Answer, Goto
    <3>2. Claims(c)
      BY <1>7, <3>1 DEF Claims
    <3> QED BY <1>2, <3>1, <3>2, ClaimsKept
  <2>7. CASE CreateRemove(c)
    <3>1. PICK s \in Servers : s = target[c]
      BY <1>1
    <3>2. /\ files' = [files EXCEPT ![s] = RemoveFirstMatch(@, LAMBDA f : f.filename = FileOf[c])]
          /\ pc[c] = "created" /\ call[c] # "SUCCESS"
      BY <2>7, <3>1 DEF CreateRemove
    <3>3. PICK code : Answer(c, "ACK", code) /\ code # "SUCCESS"
      BY <2>7, <3>2 DEF CreateRemove
    <3>4. pc'[c] = "done" /\ reply'[c].error_code # "SUCCESS"
      BY <1>1, <3>3 DEF Answer, Goto, Message
    <3> QED BY <1>2, <1>7, <3>1, <3>2, <3>4, RemoveKept
  <2> QED BY <2>1, <2>2, <2>3, <2>4, <2>5, <2>6, <2>7 DEF Create
<1> QED BY <1>4, <1>7

\* The steps of the storage servers.
LEMMA ServerClaims ==
  ASSUME TypeInv, ClaimInv, NEW s \in Servers, ServerStep(s)
  PROVE  ClaimInv'
<1>1. /\ \A c \in Conns : pc'[c] = pc[c] /\ target'[c] = target[c] /\ reply'[c] = reply[c]
      /\ target \in [Conns -> Servers]
  BY ServerFrame, TypeFacts
<1>2. /\ \A x \in ToSet(ss_list) : x \in ToSet(ss_list') /\ files'[x] = files[x]
      /\ \A x \in Servers : stored[x] \subseteq stored'[x]
      /\ \A c \in Conns : Op[c] = "CREATE" /\ call'[c] = "SUCCESS" /\ call[c] # "SUCCESS" =>
              FileOf[c] \in stored'[target[c]]
  <2>1. \A x \in ToSet(ss_list) : x \in ToSet(ss_list')
    BY ServersGrow DEF ToSet
  <2> QED BY <2>1, ServersGrow, ServerAnswers
<1>3. \A c \in Conns : Claims(c)' <=> Claims(c)
  BY <1>1 DEF Claims
<1> SUFFICES ASSUME NEW c \in Conns PROVE Claim(c)'
  BY DEF ClaimInv
<1>4. Claim(c)
  BY DEF ClaimInv
<1>5. pc'[c] \in {"add", "created"} => target'[c] \in ToSet(ss_list')
  BY <1>1, <1>2, <1>4 DEF Claim
<1>6. CASE Claims(c)
  <2>1. target'[c] \in ToSet(ss_list') /\ Once(files'[target'[c]], FileOf[c])
    BY <1>1, <1>2, <1>4, <1>6 DEF Claim
  <2>2. call'[c] = "SUCCESS" \/ pc'[c] = "done" => FileOf[c] \in stored'[target'[c]]
    BY <1>1, <1>2, <1>4, <1>6 DEF Claim, Claims
  <2>3. \A d \in Conns : Claims(d)' /\ c # d => target'[c] # target'[d] \/ FileOf[c] # FileOf[d]
    BY <1>1, <1>3, <1>4, <1>6 DEF Claim
  <2> QED BY <1>5, <2>1, <2>2, <2>3 DEF Claim
<1>7. CASE ~Claims(c)
  BY <1>3, <1>5, <1>7 DEF Claim
<1> QED BY <1>6, <1>7
-----------------------------------------------------------------------------
(***************************************************************************)
(* The theorems.                                                           *)
(***************************************************************************)
LEMMA InitInv ==
  ASSUME Init
  PROVE  TypeInv /\ ViewInv /\ ClaimInv
<1>1. PICK made \in Served :
        LET new == (made \cap Servers) \ ToSet(InitialServers)
        IN  /\ crashes = [s \in Servers |-> IF s \in made \ new THEN 1 ELSE 0]
            /\ process = [s \in Servers |-> CASE s \in ToSet(InitialServers) -> "up"
                                               [] s \in new -> "booting"
                                               [] OTHER -> "down"]
            /\ pc = [t \in Threads |-> CASE t \in new -> "register"
                                         [] t \in Conns \cap made -> "start"
                                         [] OTHER -> "done"]
  BY DEF Init
<1>2. /\ pc \in [Threads -> Labels] /\ \A c \in Conns : pc[c] \in {"start", "done"}
      /\ process \in [Servers -> {"up", "down", "booting"}]
  BY <1>1 DEF Labels
<1>3. /\ ss_list \in Seq(Servers) /\ ss_list # <<>> /\ IsInjective(ss_list)
      /\ 1 \in DOMAIN ss_list /\ ss_list[1] \in Servers
  BY DEF Init
<1>4. files \in [Servers -> Seq(Entry)]
  <2>1. \A s \in Servers : (IF s \in ToSet(InitialServers) THEN FileList[s] ELSE <<>>) \in Seq(Entry)
    BY EntryTypes
  <2> QED BY <2>1 DEF Init
<1>5. stored \in [Servers -> SUBSET Names]
  <2>1. \A s \in Servers : {f.filename : f \in ToSet(FileList[s])} \in SUBSET Names
    BY DEF Names, Entry
  <2> QED BY <2>1 DEF Init
<1>6. /\ NoReply \in [msg_type : {"none", "ACK", "ERROR", "RESPONSE"}, error_code : Codes]
      /\ NoReply.msg_type = "none"
  BY DEF NoReply, Message, Codes
<1>7. /\ next_ss_index = 1 /\ clients = <<>> /\ ss_list_mutex = Nobody /\ assignment_mutex = Nobody
      /\ ss_mutex = [s \in Servers |-> Nobody] /\ ss_index = [t \in Threads |-> 1]
      /\ index = [c \in Conns |-> 1] /\ lines = [c \in Conns |-> <<>>]
      /\ guessed = [c \in Conns |-> {}] /\ target = [c \in Conns |-> ss_list[1]]
      /\ call = [c \in Conns |-> "none"] /\ reply = [c \in Conns |-> NoReply]
  BY DEF Init
<1>8. TypeOK
  <2>1. \A c \in Conns : reply[c].error_code \in Codes
    BY <1>6, <1>7
  <2> QED BY <1>2, <1>3, <1>4, <1>5, <1>7, <2>1 DEF TypeOK
<1>9. Types
  <2>1. <<>> \in Seq(Line) /\ <<>> \in Seq(Users)
    OBVIOUS
  <2>2. /\ lines \in [Conns -> Seq(Line) \cup Seq(Users)]
        /\ \A c \in Conns : lines[c] \in Seq(Line)
    BY <1>7, <2>1
  <2>3. guessed \in [Conns -> SUBSET Names]
    BY <1>7
  <2>4. ss_index \in [Threads -> Nat \ {0}] /\ index \in [Conns -> Nat \ {0}]
    BY <1>7
  <2>5. reply \in [Conns -> [msg_type : {"none", "ACK", "ERROR", "RESPONSE"}, error_code : Codes]]
    BY <1>6, <1>7
  <2> QED BY <1>2, <1>3, <1>4, <1>5, <1>7, <2>1, <2>2, <2>3, <2>4, <2>5 DEF Types
<1>10. Places
  BY <1>2, <1>7 DEF Places, Viewing, Inside, Creating
<1>11. ViewInv
  BY <1>2, <1>7 DEF ViewInv, InView, Holding, Visited, Pending, Shown, Viewing, Inside
<1>12. ClaimInv
  BY <1>2, <1>6, <1>7 DEF ClaimInv, Claim, Claims
<1> QED BY <1>8, <1>9, <1>10, <1>11, <1>12 DEF TypeInv

LEMMA StepInv ==
  ASSUME TypeInv, ViewInv, ClaimInv, [Next]_vars
  PROVE  TypeInv' /\ ViewInv' /\ ClaimInv'
<1>1. CASE UNCHANGED vars
  <2>1. TypeInv'
    BY <1>1 DEF TypeInv, TypeOK, Types, Places
  <2>2. ViewInv'
    BY SMTT(30), <1>1 DEF ViewInv, InView, Holding, Visited, Pending, Shown, Sees, MaySee, ViewServer, ViewFile
  <2>3. ClaimInv'
    BY <1>1 DEF ClaimInv, Claim, Claims
  <2> QED BY <2>1, <2>2, <2>3
<1>2. ASSUME NEW c \in Conns, Handle(c)
      PROVE  TypeInv' /\ ViewInv' /\ ClaimInv'
  <2>1. InView(c)
    BY DEF ViewInv
  <2>2. TypeInv' /\ InView(c)'
    <3>1. CASE View(c)
      BY <2>1, <3>1, ViewTypes, ViewKept
    <3>2. CASE ~View(c)
      BY <1>2, <3>2, RequestTypes, RequestsKept
    <3> QED BY <3>1, <3>2
  <2>3. ClaimInv'
    BY <1>2, <2>1, <2>2, ClaimStep
  <2>4. ASSUME NEW d \in Conns \ {c} PROVE InView(d)'
    <3>1. /\ pc'[d] = pc[d] /\ ss_index'[d] = ss_index[d] /\ index'[d] = index[d]
          /\ lines'[d] = lines[d] /\ guessed'[d] = guessed[d] /\ ss_list' = ss_list
          /\ \A x \in Servers : ss_mutex[x] \notin {c, Nobody} =>
               ss_mutex'[x] = ss_mutex[x] /\ files'[x] = files[x]
      BY <1>2, <2>1, HandleFrame
    <3>2. \A x \in ToSet(ss_list) : ss_mutex[x] = d => ss_mutex'[x] = d /\ files'[x] = files[x]
      <4>1. \A x \in ToSet(ss_list) : x \in Servers
        BY TypeFacts DEF ToSet
      <4>2. d \notin {c, Nobody}
        OBVIOUS
      <4> QED BY <3>1, <4>1, <4>2
    <3>3. InView(d) /\ d \in Conns
      BY DEF ViewInv
    <3>4. Len(ss_list') \in Nat /\ Len(ss_list) <= Len(ss_list') /\ DOMAIN ss_list \subseteq DOMAIN ss_list'
      BY <3>1, TypeFacts
    <3> QED BY <3>1, <3>2, <3>3, <3>4, ViewFramed
  <2>5. ViewInv'
    BY <2>2, <2>4 DEF ViewInv
  <2> QED BY <2>2, <2>3, <2>5
<1>3. ASSUME NEW s \in Servers, ServerStep(s)
      PROVE  TypeInv' /\ ViewInv' /\ ClaimInv'
  <2>1. ASSUME NEW d \in Conns PROVE InView(d)'
    <3>1. /\ pc'[d] = pc[d] /\ ss_index'[d] = ss_index[d] /\ index'[d] = index[d]
          /\ lines'[d] = lines[d] /\ guessed'[d] = guessed[d] /\ ss_mutex' = ss_mutex
      BY <1>3, ServerFrame
    <3>2. /\ Len(ss_list) <= Len(ss_list') /\ DOMAIN ss_list \subseteq DOMAIN ss_list'
          /\ ss_list' \in Seq(Servers)
          /\ \A k \in DOMAIN ss_list : ss_list'[k] = ss_list[k]
          /\ \A x \in ToSet(ss_list) : files'[x] = files[x]
      BY <1>3, ServersGrow
    <3>3. Len(ss_list') \in Nat
      BY <3>2, LenProperties
    <3>4. InView(d)
      BY DEF ViewInv
    <3> QED BY <3>1, <3>2, <3>3, <3>4, ViewFramed
  <2> QED BY <1>3, <2>1, ServerTypes, ServerClaims DEF ViewInv
<1>4. CASE Quiet
  BY <1>1, <1>4 DEF Quiet
<1> QED BY <1>1, <1>2, <1>3, <1>4 DEF Next, ServerStep

LEMMA QueriesInvariant == Spec => [](TypeInv /\ ViewInv /\ ClaimInv)
<1>1. Init => TypeInv /\ ViewInv /\ ClaimInv
  BY InitInv
<1>2. TypeInv /\ ViewInv /\ ClaimInv /\ [Next]_vars => (TypeInv /\ ViewInv /\ ClaimInv)'
  BY StepInv
<1> QED BY <1>1, <1>2, PTL DEF Spec

\* The tables, the mutexes and the questions have their types, for any number of clients
\* and storage servers; above all, the round-robin position of CREATE is always one of the
\* table, which register_storage_server lets grow (get_available_storage_server).
THEOREM QueriesTypeCorrect == Spec => []TypeOK
<1>1. TypeInv => TypeOK
  BY DEF TypeInv
<1> QED BY <1>1, QueriesInvariant, PTL

\* handle_create_file: a client is told that its file was created only when the storage
\* server has it and the name server lists it, whatever other CREATEs take back.
THEOREM CreateSuccessReal == Spec => []SuccessIsReal
<1>1. TypeInv /\ ClaimInv => SuccessIsReal
  <2> SUFFICES ASSUME TypeInv, ClaimInv, NEW c \in Conns, Op[c] = "CREATE", ToldSuccess(c)
               PROVE  FileOf[c] \in stored[target[c]] /\ target[c] \in Holders(FileOf[c])
    BY DEF SuccessIsReal
  <2>1. pc[c] = "done" /\ reply[c].msg_type \notin {"none", "ERROR"} /\ reply[c].error_code = "SUCCESS"
    BY DEF ToldSuccess, TestsCode
  <2>2. Claims(c)
    BY <2>1 DEF Claims
  <2>3. /\ target[c] \in ToSet(ss_list) /\ Once(files[target[c]], FileOf[c])
        /\ FileOf[c] \in stored[target[c]]
    BY <2>1, <2>2 DEF ClaimInv, Claim
  <2>4. \E f \in ToSet(files[target[c]]) : f.filename = FileOf[c]
    BY <2>3 DEF Once, ToSet
  <2> QED BY <2>3, <2>4 DEF Holders
<1> QED BY <1>1, QueriesInvariant, PTL

\* handle_view_files: where no user's name is found in another's entry, a VIEW at its
\* index-th file has listed exactly what it should of those before it, for any number of
\* clients, storage servers and files, and any waits and failures on the way.
THEOREM ViewListsRight ==
  ASSUME Resembles = {}
  PROVE  Spec => []ViewConsistent
<1>1. ViewInv => ViewConsistent
  <2> SUFFICES ASSUME ViewInv, NEW c \in Conns, pc[c] \in Inside
               PROVE  LET own == {f \in Passed(c) : c \in ShowAll \/ f.owner = UserOf[c]}
                          granted == {f \in Passed(c) : \/ <<UserOf[c], f.filename>> \in Granted
                                                        \/ f.filename \in guessed[c]}
                      IN  /\ {f.filename : f \in own} \subseteq Listed(c)
                          /\ Listed(c) \subseteq {f.filename : f \in own \cup granted}
    BY DEF ViewConsistent, Inside
  <2> DEFINE own == {f \in Passed(c) : c \in ShowAll \/ f.owner = UserOf[c]}
             granted == {f \in Passed(c) : \/ <<UserOf[c], f.filename>> \in Granted
                                           \/ f.filename \in guessed[c]}
             fs == files[ViewServer(c)]
  <2>1. Shown(c)
    BY DEF ViewInv, InView
  <2>2. \A f : MaySee(c, f) =>
          \/ Sees(c, f)
          \/ <<UserOf[c], f.filename>> \in Granted \/ f.filename \in guessed[c]
    <3>1. FoundAs(c) = {UserOf[c]}
      BY DEF FoundAs
    <3> QED BY <3>1 DEF MaySee, Sees
  <2>3. ASSUME NEW f \in own PROVE f.filename \in Listed(c)
    <3>1. PICK k \in DOMAIN fs : k < index[c] /\ f = fs[k]
      BY DEF Passed
    <3>2. Sees(c, fs[k])
      BY <3>1 DEF Sees
    <3>3. PICK l \in ToSet(lines[c]) : l.ss = ViewServer(c) /\ l.filename = fs[k].filename
      BY <2>1, <3>1, <3>2 DEF Shown
    <3> QED BY <3>1, <3>3 DEF Listed
  <2>4. ASSUME NEW n \in Listed(c) PROVE n \in {f.filename : f \in own \cup granted}
    <3>1. PICK l \in ToSet(lines[c]) : l.ss = ViewServer(c) /\ l.filename = n
      BY DEF Listed
    <3>2. PICK k \in DOMAIN fs : /\ k < index[c] /\ MaySee(c, fs[k])
                                 /\ l.filename = fs[k].filename
      BY <2>1, <3>1 DEF Shown
    <3>3. fs[k] \in Passed(c)
      BY <3>2 DEF Passed
    <3>4. fs[k] \in own \cup granted
      BY <2>2, <3>2, <3>3 DEF Sees
    <3> QED BY <3>1, <3>2, <3>4
  <2>5. {f.filename : f \in own} \subseteq Listed(c)
    BY <2>3
  <2>6. Listed(c) \subseteq {f.filename : f \in own \cup granted}
    BY <2>4
  <2> QED BY <2>5, <2>6
<1> QED BY <1>1, QueriesInvariant, PTL
=============================================================================
