--------------------------- MODULE TransferProofs ---------------------------
(***************************************************************************)
(* Proofs about Transfer: the reference counts and the cache of            *)
(* FileLifetime with readers next to the writers, and what a transfer      *)
(* delivers, for any file, chunk size, number of connections and breaks.   *)
(***************************************************************************)
EXTENDS Transfer, FileLifetimeProofs

Word == ToSet(InitialWords) \cup Conns
Messages == [kind : {"first", "chunk", "stop", "error"}, size : Nat, data : Seq(Word)]
Opening == {"start", "open", "first"}
Reading == {"first", "chunks"}

\* Files and sentences are texts.
Texts == content \in [Inodes -> Seq(Word)] /\ words \in [Objects -> Seq(Word)]

\* A thread has open what it copies or reads from.
Opened ==
  \A c \in Conns : /\ pc[c] = "undo_copy" => src[c] \in Inodes
                   /\ c \in Readers => /\ pc[c] \in Opening \cup Reading \cup {"done"}
                                       /\ pc[c] \in Reading => src[c] \in Inodes

\* What is on its way, and what has arrived.
TransferTypes ==
  /\ buffer \in [Readers -> Seq(Word)] /\ opened \in [Readers -> Seq(Word)]
  /\ chan \in [Readers -> Seq(Messages)] /\ got \in [Readers -> Seq(Word)]

TypeInv == LifetimeInv /\ TypeOK /\ Texts /\ Opened /\ TransferTypes
-----------------------------------------------------------------------------
(***************************************************************************)
(* What is delivered.                                                      *)
(***************************************************************************)

\* The names of a directory lead to different inodes, and a reader has neither the
\* backup nor the swap file open.
Distinct ==
  /\ file # NoFile => file # undo /\ file # swap
  /\ undo # NoFile => undo # swap
  /\ \A r \in Readers : src[r] # NoFile => src[r] # undo /\ src[r] # swap

\* What a place says about the request.
Phases ==
  \A c \in Conns :
    /\ pc[c] = "vanish" => c \in MayVanish
    /\ pc[c] \in {"undo", "undo_copy", "undo_reload"} => Op[c] = "UNDO" \/ c \in MayVanish
    /\ pc[c] = "make" => Op[c] = "CREATE"
    /\ pc[c] \in {"lock", "count", "abandon", "backup", "edit", "unlock", "commit",
                  "apply", "sync", "rename"} => Op[c] = "WRITE"

\* In a group with readers, as long as a CREATE may come to make the file, it is not
\* there once its entry is gone or on its way out.
Absent ==
  \E made \in Served :
    /\ \A c \in Conns \ made : pc[c] = "done"
    /\ made \cap Readers # {} =>
         \A k \in made : Op[k] = "CREATE" /\ pc[k] \in {"start", "make"} =>
           \/ file = NoFile
           \/ /\ known /\ pc[k] = "start"
              /\ \A d \in Conns : pc[d] \notin {"unlink_undo", "forget"}

\* An open file keeps the text it was opened with.
Stable ==
  \A r \in Readers : pc[r] \in Reading =>
    content[src[r]] = opened[r] /\ size[r] = Len(opened[r])

DiskInv == Distinct /\ Phases /\ Absent /\ Stable

\* m can come after the first lo words of text.
Carries(m, lo, text, op) ==
  /\ lo + Len(m.data) <= Len(text)
  /\ \A k \in 1 .. Len(m.data) : m.data[k] = text[lo + k]
  /\ m.kind = "stop" => lo = Len(text)
  /\ m.kind = "first" => /\ m.size = Len(text)
                         /\ op = "READ" /\ Len(text) <= SmallFile => Len(m.data) = Len(text)

\* The messages of ch carry text from lo on; off[i] is where it is after the i-th.
Offsets(ch, text) == [0 .. Len(ch) -> 0 .. Len(text)]

Delivers(off, ch, lo, text, op) ==
  /\ off[0] = lo
  /\ \A i \in 1 .. Len(ch) : /\ off[i] = off[i - 1] + Len(ch[i].data)
                             /\ Carries(ch[i], off[i - 1], text, op)

Prefix(s, text) == Len(s) <= Len(text) /\ \A k \in 1 .. Len(s) : s[k] = text[k]

\* While the receiver waits: what it has, then the messages, then the buffer, are the
\* text of the file up to where the sender has read.
Flow(r) ==
  /\ Prefix(got[r], opened[r])
  /\ pc[r] \in Opening => /\ chan[r] = <<>> /\ got[r] = <<>> /\ buffer[r] = <<>>
                          /\ pos[r] = 0 /\ rcv[r] \in {"first", "failed"}
  /\ pc[r] = "chunks" => /\ Len(buffer[r]) <= pos[r] /\ pos[r] <= Len(opened[r])
                         /\ \A k \in 1 .. Len(buffer[r]) :
                              buffer[r][k] = opened[r][pos[r] - Len(buffer[r]) + k]
  /\ rcv[r] \in Waiting =>
       \E off \in Offsets(chan[r], opened[r]) :
         /\ Delivers(off, chan[r], Len(got[r]), opened[r], Op[r])
         /\ link[r] = "up" /\ pc[r] = "chunks" => off[Len(chan[r])] + Len(buffer[r]) = pos[r]

\* The first message comes first, but for STREAM, which has none.
FirstFirst(r) ==
  /\ rcv[r] = "first" => got[r] = <<>>
  /\ \A i \in 1 .. Len(chan[r]) : chan[r][i].kind = "first" => i = 1 /\ rcv[r] # "more"
  /\ rcv[r] = "first" /\ Op[r] # "STREAM" =>
       /\ link[r] = "up" /\ pc[r] = "chunks" => chan[r] # <<>>
       /\ chan[r] # <<>> => chan[r][1].kind \in {"first", "error"}
  /\ Op[r] # "STREAM" =>
       /\ rcv[r] = "more" => announced[r] = Len(opened[r])
       /\ got[r] # <<>> => announced[r] = Len(opened[r])

\* The receiver is satisfied only with the whole file, and runs that.
Whole(r) ==
  /\ rcv[r] \in {"complete", "script", "run", "unlink", "ran"} => got[r] = opened[r]
  /\ rcv[r] = "run" => scripts[ScriptOf[r]] = got[r]
  /\ ran[r] # NoScript => rcv[r] \in {"unlink", "ran"} /\ ran[r] = opened[r]

ScriptTypes ==
  /\ scripts \in [{ScriptOf[c] : c \in Readers} -> Seq(Word) \cup {NoScript}]
  /\ ran \in [Readers -> Seq(Word) \cup {NoScript}]

WholeInv == ScriptTypes /\ \A r \in Readers : Flow(r) /\ FirstFirst(r) /\ Whole(r)
-----------------------------------------------------------------------------
USE FileLifetimeAssumption, TransferAssumption
    DEF disk, memory, mutexes, streams, threads, lifetimeVars, sender, receiver,
        transferVars, vars

LEMMA ReadersAreConns == Readers \subseteq Conns
BY DEF Readers

\* Where a thread goes from a call site.
LEMMA SiteTargets ==
  ASSUME NEW s \in Sites
  PROVE  /\ s = "lock" => Found[s] = "count" /\ Missing[s] = "done"
         /\ s = "count" => Found[s] = "backup" /\ Missing[s] = "abandon"
         /\ s = "abandon" => Found[s] = "done" /\ Missing[s] = "done"
         /\ s = "backup" => Found[s] = "edit" /\ Missing[s] = "edit"
         /\ s = "unlock" => Found[s] = "commit" /\ Missing[s] = "commit"
         /\ s = "vanish" => Found[s] = "undo" /\ Missing[s] = "undo"
         /\ s = "apply" => Found[s] = "sync" /\ Missing[s] = "finish"
         /\ s = "sync" => Found[s] = "rename" /\ Missing[s] = "finish"
         /\ s = "initial" => Found[s] = "done" /\ Missing[s] = "done"
BY DEF Found, Missing

LEMMA SiteMoves ==
  ASSUME NEW s \in Sites
  PROVE  {Found[s], Missing[s]} \subseteq {"count", "done", "backup", "abandon", "edit",
                                           "commit", "undo", "sync", "finish", "rename"}
BY SiteTargets, SiteNames

\* A step of WRITE, UNDO, DELETE or CREATE is a step of one thread.
LEMMA UpdateOfOne ==
  ASSUME NEW c \in Conns, UpdateStep(c), LifetimeTypeOK
  PROVE  /\ pc[c] # "done"
         /\ \A d \in Conns \ {c} : pc'[d] = pc[d] /\ src'[d] = src[d]
<1> USE DEF LifetimeTypeOK, Goto
<1>1. CASE FindCached(c)
  BY <1>1, SiteNames DEF FindCached, Calls
<1>2. CASE LoadFile(c)
  BY <1>2, SiteNames DEF LoadFile, Calls
<1>3. CASE FileMissing(c)
  BY <1>3, SiteNames DEF FileMissing, Calls
<1>4. CASE Reap(c)
  BY <1>4, SiteNames DEF Reap
<1>5. CASE StartWrite(c)
  BY <1>5 DEF StartWrite
<1>6. CASE Inspect(c)
  BY <1>6, SiteNames DEF Inspect, Uses, Leave
<1>7. CASE WriteBackup(c)
  BY <1>7, SiteNames DEF WriteBackup, Uses, Leave
<1>8. CASE EndWrite(c)
  BY <1>8 DEF EndWrite
<1>9. CASE Vanish(c)
  BY <1>9 DEF Vanish
<1>10. CASE BeginCommit(c)
  BY <1>10 DEF BeginCommit
<1>11. CASE ApplyEdits(c)
  BY <1>11, SiteNames DEF ApplyEdits, Uses, Leave
<1>12. CASE SyncToSwap(c)
  BY <1>12, SiteNames DEF SyncToSwap, Uses, Leave
<1>13. CASE Rename(c)
  BY <1>13 DEF Rename
<1>14. CASE Finish(c)
  BY <1>14 DEF Finish
<1>15. CASE StartUndo(c)
  BY <1>15 DEF StartUndo
<1>16. CASE UndoNoBackup(c)
  BY <1>16 DEF UndoNoBackup
<1>17. CASE UndoOpen(c)
  BY <1>17 DEF UndoOpen
<1>18. CASE UndoCopy(c)
  BY <1>18 DEF UndoCopy
<1>19. CASE UndoReload(c)
  BY <1>19 DEF UndoReload
<1>20. CASE FindEntry(c)
  BY <1>20 DEF FindEntry
<1>21. CASE MarkDeleted(c)
  BY <1>21 DEF MarkDeleted
<1>22. CASE UnlinkFile(c)
  BY <1>22 DEF UnlinkFile
<1>23. CASE UnlinkUndo(c)
  BY <1>23 DEF UnlinkUndo
<1>24. CASE ForgetEntry(c)
  BY <1>24 DEF ForgetEntry
<1>25. CASE MakeFile(c)
  BY <1>25 DEF MakeFile
<1> QED
  BY <1>1, <1>2, <1>3, <1>4, <1>5, <1>6, <1>7, <1>8, <1>9, <1>10, <1>11, <1>12, <1>13,
     <1>14, <1>15, <1>16, <1>17, <1>18, <1>19, <1>20, <1>21, <1>22, <1>23, <1>24,
     <1>25 DEF UpdateStep

\* Texts stay texts.
LEMMA UpdateTexts ==
  ASSUME LifetimeInv, LifetimeInv', Texts, Opened, NEW c \in Conns, UpdateStep(c)
  PROVE  Texts'
<1>1. /\ LifetimeTypeOK /\ ServedOnly
      /\ content \in [Inodes -> Seq(Word)] /\ words \in [Objects -> Seq(Word)]
      /\ <<>> \in Seq(Word)
  BY DEF LifetimeInv, Texts
<1> USE DEF Texts
<1>2. CASE FindCached(c)
  BY <1>1, <1>2 DEF FindCached
<1>3. CASE LoadFile(c)
  BY <1>1, <1>3 DEF LoadFile, Loaded, LifetimeTypeOK
<1>4. CASE FileMissing(c)
  BY <1>1, <1>4 DEF FileMissing
<1>5. CASE Reap(c)
  BY <1>1, <1>5 DEF Reap, Freed
<1>6. CASE StartWrite(c)
  BY <1>1, <1>6 DEF StartWrite
<1>7. CASE Inspect(c)
  BY <1>1, <1>7 DEF Inspect
<1>8. CASE WriteBackup(c)
  <2>1. words[obj[c]] \in Seq(Word)
    BY <1>1, <1>8 DEF WriteBackup, Uses, LifetimeTypeOK
  <2> QED BY <1>1, <1>8, <2>1 DEF WriteBackup
<1>9. CASE EndWrite(c)
  BY <1>1, <1>9 DEF EndWrite
<1>10. CASE Vanish(c)
  BY <1>1, <1>10 DEF Vanish
<1>11. CASE BeginCommit(c)
  BY <1>1, <1>11 DEF BeginCommit
<1>12. CASE ApplyEdits(c)
  <2>1. obj[c] \in Objects /\ Append(words[obj[c]], c) \in Seq(Word)
    BY <1>1, <1>12, AppendProperties DEF ApplyEdits, Uses, LifetimeTypeOK, Word
  <2> QED BY <1>1, <1>12, <2>1 DEF ApplyEdits
<1>13. CASE SyncToSwap(c)
  <2>1. words[obj[c]] \in Seq(Word)
    BY <1>1, <1>13 DEF SyncToSwap, Uses, LifetimeTypeOK
  <2> QED BY <1>1, <1>13, <2>1 DEF SyncToSwap
<1>14. CASE Rename(c)
  BY <1>1, <1>14 DEF Rename
<1>15. CASE Finish(c)
  BY <1>1, <1>15 DEF Finish
<1>16. CASE StartUndo(c)
  BY <1>1, <1>16 DEF StartUndo
<1>17. CASE UndoNoBackup(c)
  BY <1>1, <1>17 DEF UndoNoBackup
<1>18. CASE UndoOpen(c)
  BY <1>1, <1>18 DEF UndoOpen
<1>19. CASE UndoCopy(c)
  <2>1. content[src[c]] \in Seq(Word)
    BY <1>1, <1>19 DEF UndoCopy, Opened
  <2> QED BY <1>1, <1>19, <2>1 DEF UndoCopy
<1>20. CASE UndoReload(c)
  BY <1>1, <1>20 DEF UndoReload, LifetimeTypeOK
<1>21. CASE FindEntry(c)
  BY <1>1, <1>21 DEF FindEntry
<1>22. CASE MarkDeleted(c)
  <2>1. /\ UNCHANGED content
        /\ words' = words \/ \E o : words' = [words EXCEPT ![o] = <<>>]
    BY <1>22 DEF MarkDeleted, Freed
  <2>2. CASE words' = words
    BY <1>1, <2>1, <2>2
  <2>3. CASE \E o : words' = [words EXCEPT ![o] = <<>>]
    <3>1. PICK o : words' = [words EXCEPT ![o] = <<>>]
      BY <2>3
    <3>2. words' \in [Objects -> Seq(Word)]
      BY <1>1, <3>1
    <3> QED BY <1>1, <2>1, <3>2
  <2> QED BY <2>1, <2>2, <2>3
<1>23. CASE UnlinkFile(c)
  BY <1>1, <1>23 DEF UnlinkFile
<1>24. CASE UnlinkUndo(c)
  BY <1>1, <1>24 DEF UnlinkUndo
<1>25. CASE ForgetEntry(c)
  BY <1>1, <1>25 DEF ForgetEntry
<1>26. CASE MakeFile(c)
  BY <1>1, <1>26 DEF MakeFile
<1> QED
  BY <1>2, <1>3, <1>4, <1>5, <1>6, <1>7, <1>8, <1>9, <1>10, <1>11, <1>12, <1>13, <1>14,
     <1>15, <1>16, <1>17, <1>18, <1>19, <1>20, <1>21, <1>22, <1>23, <1>24, <1>25,
     <1>26 DEF UpdateStep

\* A thread of UNDO opens the backup before it copies.
LEMMA UpdateOpened ==
  ASSUME LifetimeInv, Opened, NEW c \in Conns \ Readers, UpdateStep(c)
  PROVE  Opened'
<1>1. LifetimeTypeOK /\ ServedOnly
  BY DEF LifetimeInv
<1>2. \A d \in Conns \ {c} : pc'[d] = pc[d] /\ src'[d] = src[d]
  BY <1>1, UpdateOfOne
<1>3. SUFFICES pc'[c] = "undo_copy" => src'[c] \in Inodes
  BY <1>2 DEF Opened
<1> USE <1>1 DEF LifetimeTypeOK, Goto
<1>4. CASE FindCached(c)
  BY <1>4, SiteNames DEF FindCached, Calls
<1>5. CASE LoadFile(c)
  BY <1>5, SiteNames DEF LoadFile, Calls
<1>6. CASE FileMissing(c)
  BY SMTT(30), <1>6, SiteMoves DEF FileMissing, Calls
<1>7. CASE Reap(c)
  BY <1>7, SiteMoves DEF Reap, Calls
<1>8. CASE StartWrite(c)
  BY <1>8 DEF StartWrite
<1>9. CASE Inspect(c)
  BY <1>9, SiteMoves, SiteNames DEF Inspect, Uses, Leave
<1>10. CASE WriteBackup(c)
  BY <1>10, SiteMoves, SiteNames DEF WriteBackup, Uses, Leave
<1>11. CASE EndWrite(c)
  BY <1>11 DEF EndWrite
<1>12. CASE Vanish(c)
  BY <1>12 DEF Vanish
<1>13. CASE BeginCommit(c)
  BY <1>13 DEF BeginCommit
<1>14. CASE ApplyEdits(c)
  BY <1>14, SiteMoves, SiteNames DEF ApplyEdits, Uses, Leave
<1>15. CASE SyncToSwap(c)
  BY <1>15, SiteMoves, SiteNames DEF SyncToSwap, Uses, Leave
<1>16. CASE Rename(c)
  BY <1>16 DEF Rename
<1>17. CASE Finish(c)
  BY <1>17 DEF Finish
<1>18. CASE StartUndo(c)
  BY <1>18 DEF StartUndo
<1>19. CASE UndoNoBackup(c)
  BY <1>19 DEF UndoNoBackup
<1>20. CASE UndoOpen(c)
  BY <1>20 DEF UndoOpen
<1>21. CASE UndoCopy(c)
  BY <1>21 DEF UndoCopy
<1>22. CASE UndoReload(c)
  BY <1>22 DEF UndoReload
<1>23. CASE FindEntry(c)
  BY <1>23 DEF FindEntry
<1>24. CASE MarkDeleted(c)
  BY <1>24 DEF MarkDeleted
<1>25. CASE UnlinkFile(c)
  BY <1>25 DEF UnlinkFile
<1>26. CASE UnlinkUndo(c)
  BY <1>26 DEF UnlinkUndo
<1>27. CASE ForgetEntry(c)
  BY <1>27 DEF ForgetEntry
<1>28. CASE MakeFile(c)
  BY <1>28 DEF MakeFile
<1> QED
  BY <1>4, <1>5, <1>6, <1>7, <1>8, <1>9, <1>10, <1>11, <1>12, <1>13, <1>14,
     <1>15, <1>16, <1>17, <1>18, <1>19, <1>20, <1>21, <1>22, <1>23, <1>24, <1>25,
     <1>26, <1>27, <1>28 DEF UpdateStep

\* fread gives words.
LEMMA BlockType ==
  ASSUME TypeInv, NEW r \in Readers, pc[r] \in Reading, NEW n \in Nat
  PROVE  Block(r, n) \in Seq(Word) /\ Len(Block(r, n)) \in Nat
<1> DEFINE text == content[src[r]]
           end == IF Op[r] = "READ" THEN Least(size[r], Len(text)) ELSE Len(text)
           last == Least(pos[r] + n, end)
<1>1. text \in Seq(Word) /\ Len(text) \in Nat
  <2>1. src[r] \in Inodes
    BY ReadersAreConns DEF TypeInv, Opened
  <2>2. content \in [Inodes -> Seq(Word)]
    BY DEF TypeInv, Texts
  <2> QED BY <2>1, <2>2, LenProperties
<1>2. pos[r] \in Nat /\ size[r] \in Nat
  BY DEF TypeInv, TypeOK
<1> HIDE DEF text
<1>3. last \in Int /\ last <= Len(text)
  BY <1>1, <1>2 DEF Least
<1> HIDE DEF last
<1>4. \A i \in pos[r] + 1 .. last : text[i] \in Word
  BY <1>1, <1>2, <1>3
<1>5. SubSeq(text, pos[r] + 1, last) \in Seq(Word)
  BY <1>2, <1>3, <1>4, SubSeqProperties
<1> QED BY <1>5 DEF Block, last, text

\* Sending keeps messages messages.
LEMMA SendTypes ==
  ASSUME TypeInv, NEW r \in Readers, NEW m \in Messages, NEW next \in {"chunks", "done"},
         Send(r, m, next), pc[r] # "done", pc[r] \in Reading \/ next = "done",
         UNCHANGED <<disk, memory, mutexes, dst, at, obj, result>>
  PROVE  LifetimeInv' /\ Texts' /\ Opened' /\ chan' \in [Readers -> Seq(Messages)]
<1>1. /\ LifetimeTypeOK /\ ServedOnly /\ chan \in [Readers -> Seq(Messages)] /\ r \in Conns
      /\ pc \in [Conns -> PCs] /\ src \in [Conns -> Inodes \cup {NoFile}]
  BY ReadersAreConns DEF TypeInv, LifetimeInv, TransferTypes, LifetimeTypeOK
<1>2. chan' \in [Readers -> Seq(Messages)]
  <2>1. Append(chan[r], m) \in Seq(Messages)
    BY <1>1, AppendProperties
  <2>2. CASE link[r] = "up"
    <3> DEFINE longer == Append(chan[r], m)
    <3>1. chan' = [chan EXCEPT ![r] = longer]
      BY <2>2 DEF Send
    <3> HIDE DEF longer
    <3>2. longer \in Seq(Messages)
      BY <2>1 DEF longer
    <3> QED BY <1>1, <3>1, <3>2
  <2>3. CASE link[r] # "up"
    BY <1>1, <2>3 DEF Send
  <2> QED BY <2>2, <2>3
<1>3. /\ pc' \in [Conns -> PCs] /\ src' \in [Conns -> Inodes \cup {NoFile}]
      /\ pc'[r] \in {"chunks", "done"}
      /\ pc'[r] = "chunks" => src'[r] \in Inodes
      /\ \A d \in Conns \ {r} : pc'[d] = pc[d] /\ src'[d] = src[d]
  <2>1. "chunks" \in PCs /\ "done" \in PCs
    BY DEF PCs
  <2>2. pc[r] \in Reading => src[r] \in Inodes
    BY <1>1 DEF TypeInv, Opened
  <2>3. PICK label \in {next, "done"} :
          /\ src' = IF label = "done" THEN [src EXCEPT ![r] = NoFile] ELSE src
          /\ Goto(r, label)
    BY DEF Send
  <2>4. CASE label = "done"
    BY <1>1, <2>1, <2>3, <2>4 DEF Goto
  <2>5. CASE label # "done"
    BY <1>1, <2>1, <2>2, <2>3, <2>5 DEF Goto
  <2> QED BY <2>4, <2>5
<1>4. LifetimeTypeOK'
  BY <1>1, <1>3 DEF LifetimeTypeOK
<1>5. ServedOnly'
  BY <1>1, <1>3, OthersIdle
<1>6. LifetimeInv'
  BY <1>4, <1>5, MemoryQuietInv DEF TypeInv
<1>7. Texts'
  BY DEF Texts, TypeInv
<1>8. Opened'
  BY <1>3 DEF Opened, TypeInv, Opening, Reading
<1> QED BY <1>2, <1>6, <1>7, <1>8

LEMMA MessageTypes ==
  ASSUME NEW kind \in {"first", "chunk", "stop", "error"}, NEW n \in Nat, NEW data \in Seq(Word)
  PROVE  Message(kind, n, data) \in Messages
BY DEF Message, Messages

LEMMA SendPreservesTypes ==
  ASSUME TypeInv, NEW r \in Readers, SendStep(r)
  PROVE  TypeInv'
<1>1. /\ LifetimeTypeOK /\ ServedOnly /\ r \in Conns /\ <<>> \in Seq(Word)
      /\ size \in [Readers -> Nat] /\ pos \in [Readers -> Nat]
      /\ buffer \in [Readers -> Seq(Word)] /\ opened \in [Readers -> Seq(Word)]
      /\ content \in [Inodes -> Seq(Word)]
  BY ReadersAreConns DEF TypeInv, LifetimeInv, TransferTypes, TypeOK, Texts
<1>2. Message("error", 0, <<>>) \in Messages /\ Message("stop", 0, <<>>) \in Messages
  BY <1>1, MessageTypes
<1> USE DEF TypeOK, TransferTypes
<1>3. CASE StartRead(r)
  <2>1. CASE known \/ Op[r] = "EXEC"
    <3>1. Goto(r, "open") /\ UNCHANGED <<chan, src>> /\ pc[r] = "start"
      BY <1>3, <2>1 DEF StartRead
    <3>2. LifetimeTypeOK'
      BY <1>1, <1>3, <3>1 DEF LifetimeTypeOK, StartRead, Goto, PCs
    <3>3. ServedOnly'
      BY <1>1, <1>3, <3>1, OthersIdle DEF StartRead, Goto, LifetimeTypeOK
    <3>4. LifetimeInv'
      BY <1>3, <3>2, <3>3, MemoryQuietInv DEF TypeInv, StartRead
    <3>5. Texts' /\ Opened'
      BY <1>1, <1>3, <3>1 DEF TypeInv, Texts, Opened, StartRead, Goto, LifetimeTypeOK,
         Opening, Reading
    <3> QED BY <1>3, <3>1, <3>2, <3>4, <3>5 DEF TypeInv, StartRead
  <2>2. CASE ~(known \/ Op[r] = "EXEC")
    <3>1. LifetimeInv' /\ Texts' /\ Opened' /\ chan' \in [Readers -> Seq(Messages)]
      BY <1>2, <1>3, <2>2, SendTypes DEF StartRead
    <3> QED BY <1>3, <3>1 DEF TypeInv, StartRead, LifetimeInv
  <2> QED BY <2>1, <2>2
<1>4. CASE OpenMissing(r)
  <2>1. LifetimeInv' /\ Texts' /\ Opened' /\ chan' \in [Readers -> Seq(Messages)]
    BY <1>2, <1>4, SendTypes DEF OpenMissing
  <2> QED BY <1>4, <2>1 DEF TypeInv, OpenMissing, LifetimeInv
<1>5. CASE OpenFile(r)
  <2>1. file \in Inodes /\ Len(content[file]) \in Nat /\ content[file] \in Seq(Word)
    <3>1. file \in Inodes
      BY <1>1, <1>5 DEF OpenFile, LifetimeTypeOK
    <3> QED BY <1>1, <3>1, LenProperties
  <2>2. LifetimeTypeOK'
    BY <1>1, <1>5, <2>1 DEF LifetimeTypeOK, OpenFile, Goto, PCs
  <2>3. ServedOnly'
    BY <1>1, <1>5, OthersIdle DEF OpenFile, Goto, LifetimeTypeOK
  <2>4. LifetimeInv'
    BY <1>5, <2>2, <2>3, MemoryQuietInv DEF TypeInv, OpenFile
  <2>5. Texts' /\ Opened'
    BY SMTT(30), <1>1, <1>5, <2>1 DEF TypeInv, Texts, Opened, OpenFile, Goto, LifetimeTypeOK,
       Opening, Reading
  <2> QED BY <1>1, <1>5, <2>1, <2>2, <2>4, <2>5 DEF TypeInv, OpenFile
<1>6. CASE SendFirst(r)
  <2>1. pc[r] \in Reading /\ size[r] \in Nat /\ pc[r] # "done"
    BY <1>1, <1>6 DEF SendFirst, Reading
  <2>2. /\ Message("first", size[r], Block(r, size[r])) \in Messages
        /\ Message("first", size[r], <<>>) \in Messages
    BY <1>1, <2>1, BlockType, MessageTypes
  <2>3. LifetimeInv' /\ Texts' /\ Opened' /\ chan' \in [Readers -> Seq(Messages)]
    BY <1>6, <2>1, <2>2, SendTypes DEF SendFirst
  <2> QED BY <1>6, <2>3 DEF TypeInv, SendFirst, LifetimeInv
<1>7. CASE ReadBlock(r)
  <2>1. pc[r] \in Reading
    BY <1>7 DEF ReadBlock, Reading
  <2>2. Block(r, ChunkSize) \in Seq(Word) /\ Len(Block(r, ChunkSize)) \in Nat
    BY <2>1, BlockType
  <2>3. LifetimeTypeOK' /\ ServedOnly' /\ Texts' /\ Opened'
    <3>1. UNCHANGED lifetimeVars
      BY <1>7 DEF ReadBlock
    <3>2. LifetimeTypeOK /\ ServedOnly /\ Texts /\ Opened
      BY <1>1 DEF TypeInv
    <3>3. LifetimeTypeOK'
      BY SMTT(30), <3>1, <3>2 DEF LifetimeTypeOK
    <3>4. ServedOnly' /\ Texts'
      BY <3>1, <3>2 DEF ServedOnly, Texts
    <3>5. Opened'
      BY <3>1, <3>2 DEF Opened
    <3> QED BY <3>3, <3>4, <3>5
  <2>4. LifetimeInv'
    BY <1>7, <2>3, MemoryQuietInv DEF TypeInv, ReadBlock
  <2>5. buffer' \in [Readers -> Seq(Word)] /\ pos' \in [Readers -> Nat]
    BY <1>1, <1>7, <2>2 DEF ReadBlock
  <2> QED BY <1>7, <2>3, <2>4, <2>5 DEF TypeInv, ReadBlock
<1>8. CASE SendChunk(r)
  <2> DEFINE n == IF Op[r] = "STREAM" THEN 1 ELSE Len(buffer[r])
             rest == SubSeq(buffer[r], n + 1, Len(buffer[r]))
  <2>1. /\ buffer[r] \in Seq(Word) /\ Len(buffer[r]) \in Nat /\ Len(buffer[r]) >= 1
        /\ pc[r] \in Reading /\ pc[r] # "done"
    BY <1>1, <1>8, EmptySeq DEF SendChunk, Reading
  <2>2. n \in Nat /\ n <= Len(buffer[r])
    BY <2>1
  <2> HIDE DEF n
  <2>3. SubSeq(buffer[r], 1, n) \in Seq(Word) /\ rest \in Seq(Word)
    <3>1. /\ \A i \in 1 .. n : buffer[r][i] \in Word
          /\ \A i \in n + 1 .. Len(buffer[r]) : buffer[r][i] \in Word
      BY <2>1, <2>2
    <3> QED BY <2>1, <2>2, <3>1, SubSeqProperties
  <2>4. Message("chunk", n, SubSeq(buffer[r], 1, n)) \in Messages
    BY <2>2, <2>3, MessageTypes
  <2>5. /\ Send(r, Message("chunk", n, SubSeq(buffer[r], 1, n)), "chunks")
        /\ buffer' = [buffer EXCEPT ![r] = rest]
    BY <1>8 DEF SendChunk, n
  <2> HIDE DEF rest
  <2>6. LifetimeInv' /\ Texts' /\ Opened' /\ chan' \in [Readers -> Seq(Messages)]
    BY <1>8, <2>1, <2>4, <2>5, SendTypes DEF SendChunk
  <2>7. buffer' \in [Readers -> Seq(Word)]
    BY <1>1, <2>3, <2>5
  <2> QED BY <1>8, <2>6, <2>7 DEF TypeInv, SendChunk, LifetimeInv
<1>9. CASE SendStop(r)
  <2>1. LifetimeInv' /\ Texts' /\ Opened' /\ chan' \in [Readers -> Seq(Messages)]
    BY <1>2, <1>9, SendTypes DEF SendStop
  <2> QED BY <1>9, <2>1 DEF TypeInv, SendStop, LifetimeInv
<1> QED BY <1>3, <1>4, <1>5, <1>6, <1>7, <1>8, <1>9 DEF SendStep

\* A receiver, or a break, leaves the storage server alone.
LEMMA LifetimeUntouched ==
  ASSUME TypeInv, UNCHANGED lifetimeVars
  PROVE  LifetimeInv' /\ Texts' /\ Opened'
<1>1. LifetimeTypeOK' /\ ServedOnly'
  BY DEF TypeInv, LifetimeInv, LifetimeTypeOK, ServedOnly
<1>2. LifetimeInv'
  BY <1>1, MemoryQuietInv DEF TypeInv
<1> QED BY <1>2 DEF TypeInv, Texts, Opened

\* Taking a message off the connection.
LEMMA ArrivalTypes ==
  ASSUME TypeInv, NEW r \in Readers, NEW kind, Arrives(r, kind)
  PROVE  /\ chan' \in [Readers -> Seq(Messages)] /\ Head(chan[r]) \in Messages
         /\ Head(chan[r]).size \in Nat /\ Head(chan[r]).data \in Seq(Word)
         /\ Head(chan[r]) = chan[r][1] /\ Head(chan[r]).kind = kind
<1>1. chan \in [Readers -> Seq(Messages)] /\ chan[r] \in Seq(Messages) /\ chan[r] # <<>>
  BY DEF TypeInv, TransferTypes, Arrives
<1>2. Head(chan[r]) \in Messages /\ Tail(chan[r]) \in Seq(Messages)
  BY <1>1, HeadTailProperties
<1>3. chan' \in [Readers -> Seq(Messages)] /\ Head(chan[r]).kind = kind
  BY <1>1, <1>2 DEF Arrives
<1>4. Head(chan[r]).size \in Nat /\ Head(chan[r]).data \in Seq(Word)
  BY <1>2 DEF Messages
<1>5. Head(chan[r]) = chan[r][1]
  BY <1>1
<1> QED BY <1>2, <1>3, <1>4, <1>5

LEMMA ReceivePreservesTypes ==
  ASSUME TypeInv, NEW r \in Readers, ReceiveStep(r) \/ Break(r)
  PROVE  TypeInv'
<1>1. UNCHANGED lifetimeVars /\ UNCHANGED sender
  BY DEF ReceiveStep, Break, ReceiveError, ReceiveFirst, ReceiveChunk, ReceiveStop,
     ConnectionLost, WriteScript, ScriptFails, RunScript, RunFails, UnlinkScript
<1>2. LifetimeInv' /\ Texts' /\ Opened' /\ LifetimeTypeOK'
  BY <1>1, LifetimeUntouched DEF LifetimeInv
<1>3. SUFFICES /\ announced' \in [Readers -> Nat] /\ link' \in [Readers -> Links]
               /\ rcv' \in [Readers -> Waiting \cup Final \cup {"script", "run", "unlink"}]
               /\ chan' \in [Readers -> Seq(Messages)] /\ got' \in [Readers -> Seq(Word)]
  BY <1>1, <1>2 DEF TypeInv, TypeOK, TransferTypes
<1>4. /\ announced \in [Readers -> Nat] /\ link \in [Readers -> Links]
      /\ rcv \in [Readers -> Waiting \cup Final \cup {"script", "run", "unlink"}]
      /\ chan \in [Readers -> Seq(Messages)] /\ got \in [Readers -> Seq(Word)]
  BY DEF TypeInv, TypeOK, TransferTypes
<1> USE DEF ReceiverAt, Waiting, Final
<1>5. CASE ReceiveError(r)
  BY <1>4, <1>5, ArrivalTypes DEF ReceiveError
<1>6. CASE ReceiveFirst(r)
  BY <1>4, <1>6, ArrivalTypes DEF ReceiveFirst
<1>7. CASE ReceiveChunk(r)
  <2>1. got[r] \o Head(chan[r]).data \in Seq(Word)
    BY <1>4, <1>7, ArrivalTypes, ConcatProperties DEF ReceiveChunk
  <2> QED BY <1>4, <1>7, <2>1, ArrivalTypes DEF ReceiveChunk
<1>8. CASE ReceiveStop(r)
  BY <1>4, <1>8, ArrivalTypes DEF ReceiveStop
<1>9. CASE ConnectionLost(r)
  BY <1>4, <1>9 DEF ConnectionLost
<1>10. CASE WriteScript(r)
  BY <1>4, <1>10 DEF WriteScript
<1>11. CASE RunScript(r)
  BY <1>4, <1>11 DEF RunScript
<1>12. CASE UnlinkScript(r)
  BY <1>4, <1>12 DEF UnlinkScript
<1>13. CASE ScriptFails(r) \/ RunFails(r)
  BY <1>4, <1>13 DEF ScriptFails, RunFails
<1>14. CASE Break(r)
  <2>1. PICK n \in 0 .. Len(chan[r]) : chan' = [chan EXCEPT ![r] = SubSeq(chan[r], 1, n)]
    BY <1>14 DEF Break
  <2>2. \A i \in 1 .. n : chan[r][i] \in Messages
    BY <1>4
  <2>3. SubSeq(chan[r], 1, n) \in Seq(Messages)
    BY <1>4, <2>2, SubSeqProperties
  <2> QED BY <1>4, <1>14, <2>1, <2>3 DEF Break
<1> QED BY <1>5, <1>6, <1>7, <1>8, <1>9, <1>10, <1>11, <1>12, <1>13, <1>14 DEF ReceiveStep
-----------------------------------------------------------------------------
(***************************************************************************)
(* Types, reference counts and the cache's list.                           *)
(***************************************************************************)

LEMMA UpdatePreservesTypes ==
  ASSUME TypeInv, NEW c \in Conns \ Readers, Update(c)
  PROVE  TypeInv'
<1>1. UpdateStep(c) /\ UNCHANGED transferVars
  BY DEF Update
<1>2. LifetimeInv'
  BY <1>1, UpdatePreserves DEF TypeInv
<1>3. Texts' /\ Opened'
  BY <1>1, <1>2, UpdateTexts, UpdateOpened DEF TypeInv
<1> QED BY <1>1, <1>2, <1>3 DEF TypeInv, TypeOK, LifetimeInv, TransferTypes

\* What is left of the storage server's threads and memory when it is killed.
LEMMA KilledThreads ==
  ASSUME TypeInv, NEW r \in Readers, Killed(r), NEW d \in Conns
  PROVE  /\ pc'[d] = "done" \/ (pc[d] = "start" /\ pc'[d] = "start")
         /\ pc[d] = "done" => pc'[d] = "done"
         /\ src'[d] = NoFile /\ dst'[d] = NoFile /\ at'[d] = "call" /\ obj'[d] = NoObject
<1>1. pc' = [e \in Conns |-> IF e # r /\ pc[e] = "start" THEN "start" ELSE "done"]
  BY DEF Killed
<1>2. pc'[d] = IF d # r /\ pc[d] = "start" THEN "start" ELSE "done"
  BY <1>1
<1>3. src'[d] = NoFile /\ dst'[d] = NoFile /\ at'[d] = "call" /\ obj'[d] = NoObject
  BY DEF Killed
<1> QED BY <1>2, <1>3

LEMMA KilledPreservesTypes ==
  ASSUME TypeInv, NEW r \in Readers, Killed(r)
  PROVE  TypeInv'
<1>1. LifetimeTypeOK'
  <2>1. pc' \in [Conns -> PCs]
    BY DEF Killed, PCs
  <2>2. cache' \in Seq(Objects) /\ live' \subseteq Objects
    BY DEF Killed
  <2> QED BY <2>1, <2>2 DEF Killed, TypeInv, LifetimeInv, LifetimeTypeOK
<1>2. ServedOnly'
  BY KilledThreads DEF TypeInv, LifetimeInv, ServedOnly
<1>3. Cached' /\ Counts'
  BY DEF Killed, Cached, Counts
<1>4. LifetimeInv'
  BY <1>1, <1>2, <1>3 DEF LifetimeInv
<1>5. Texts'
  BY DEF Killed, TypeInv, Texts
<1>6. Opened'
  BY KilledThreads DEF Opened, Opening, Reading
<1>7. link' \in [Readers -> Links]
  BY DEF Killed, TypeInv, TypeOK, Links
<1>8. TypeOK' /\ TransferTypes'
  BY <1>1, <1>7 DEF Killed, TypeInv, TypeOK, TransferTypes
<1> QED BY <1>4, <1>5, <1>6, <1>8 DEF TypeInv

LEMMA InitTypes == TransferInit => TypeInv
<1> SUFFICES ASSUME TransferInit PROVE TypeInv
  OBVIOUS
<1>1. LifetimeInv
  BY InitLifetimeInv DEF TransferInit
<1>2. InitialWords \in Seq(Word) /\ <<>> \in Seq(Word) /\ <<>> \in Seq(Messages)
  BY SeqMonotonic DEF Word
<1>3. Texts
  BY <1>2 DEF TransferInit, Init, Texts
<1>4. Opened
  BY ReadersAreConns DEF TransferInit, Init, Opened, Opening, Reading
<1>5. TransferTypes
  BY <1>2 DEF TransferInit, TransferTypes
<1>6. TypeOK
  BY <1>1 DEF TransferInit, TypeOK, LifetimeInv, Waiting, Final, Links
<1> QED BY <1>1, <1>3, <1>4, <1>5, <1>6 DEF TypeInv

LEMMA NextPreservesTypes == TypeInv /\ [Next]_vars => TypeInv'
<1> SUFFICES ASSUME TypeInv, [Next]_vars PROVE TypeInv'
  OBVIOUS
<1>1. CASE \E c \in Conns \ Readers : Update(c)
  BY <1>1, UpdatePreservesTypes
<1>2. CASE \E r \in Readers : SendStep(r) \/ ReceiveStep(r) \/ Break(r)
  BY <1>2, SendPreservesTypes, ReceivePreservesTypes
<1>3. CASE UNCHANGED vars
  <2>1. LifetimeInv' /\ Texts' /\ Opened'
    BY <1>3, LifetimeUntouched
  <2> QED BY <1>3, <2>1 DEF TypeInv, TypeOK, LifetimeInv, TransferTypes
<1>4. CASE \E r \in Readers : Killed(r)
  BY <1>4, KilledPreservesTypes
<1> QED BY <1>1, <1>2, <1>3, <1>4 DEF Next, Done

LEMMA TypeInvariant == Spec => []TypeInv
BY InitTypes, NextPreservesTypes, PTL DEF Spec

\* Everything keeps its type; in particular no reference count becomes negative
\* (file_release), and sizes, positions and message sizes are natural numbers.
THEOREM TransferTypeCorrect == Spec => []TypeOK
<1>1. TypeInv => TypeOK
  BY DEF TypeInv
<1> QED BY <1>1, TypeInvariant, PTL

\* An object's refcount (file_addref, file_release) is never below the number of threads
\* that are using the object, for any number of WRITEs, UNDOs, DELETEs, CREATEs and
\* readers, in any order.
THEOREM RefcountsCoverUsers == Spec => []RefcountCovers
<1>1. TypeInv => RefcountCovers
  BY InvCovers DEF TypeInv
<1> QED BY <1>1, TypeInvariant, PTL

\* file_cache_head's list has the file at most once and leads to no freed object.
THEOREM CacheListSound == Spec => []CachedOnceAndLive
<1>1. TypeInv => CachedOnceAndLive
  BY InvCachedOnce DEF TypeInv
<1> QED BY <1>1, TypeInvariant, PTL

\* The condition that DeleteFreesUnused puts on a step.
DeleteStep ==
  \A c \in Conns : pc[c] = "mark" /\ pc'[c] = "unlink" =>
    \A o \in live \ live' : Users(o) = {}

LEMMA UpdateDeletes ==
  ASSUME LifetimeInv, NEW c \in Conns, UpdateStep(c), pc[c] = "mark"
  PROVE  MarkDeleted(c)
BY SiteNames DEF UpdateStep, FindCached, LoadFile, FileMissing, Reap, StartWrite, Inspect,
   WriteBackup, EndWrite, Vanish, BeginCommit, ApplyEdits, SyncToSwap, Rename, Finish,
   StartUndo, UndoNoBackup, UndoOpen, UndoCopy, UndoReload, FindEntry, UnlinkFile,
   UnlinkUndo, ForgetEntry, MakeFile, Calls, Uses

\* delete_file_ll never frees an object that some thread is using, since it frees only
\* what has no reference.
THEOREM DeletesOnlyUnused == Spec => DeleteFreesUnused
<1>1. TypeInv /\ [Next]_vars => [DeleteStep]_lifetimeVars
  <2> SUFFICES ASSUME TypeInv, [Next]_vars, NEW c \in Conns, pc[c] = "mark",
                      pc'[c] = "unlink", NEW o \in live \ live'
               PROVE  Users(o) = {}
    BY DEF DeleteStep
  <2>1. PICK d \in Conns \ Readers : UpdateStep(d)
    <3>1. CASE \E r \in Readers : SendStep(r) \/ ReceiveStep(r) \/ Break(r)
      <4>1. UNCHANGED live
        BY ZenonT(60), <3>1 DEF SendStep, ReceiveStep, Break, StartRead, OpenMissing, OpenFile, SendFirst,
           ReadBlock, SendChunk, SendStop, ReceiveError, ReceiveFirst, ReceiveChunk,
           ReceiveStop, ConnectionLost, WriteScript, ScriptFails, RunScript, RunFails, UnlinkScript
      <4> QED BY <4>1
    <3>2. ASSUME NEW r \in Readers, Killed(r) PROVE FALSE
      BY <3>2, KilledThreads
    <3> QED BY <3>1, <3>2 DEF Next, Done, Update
  <2>2. d = c
    BY <2>1, UpdateOfOne DEF TypeInv, LifetimeInv
  <2>3. MarkDeleted(c)
    BY <2>1, <2>2, UpdateDeletes DEF TypeInv
  <2> QED BY <2>3, MarkFreesUnused DEF TypeInv
<1>2. [][DeleteStep]_lifetimeVars => DeleteFreesUnused
  BY PTL DEF DeleteStep, DeleteFreesUnused
<1> QED BY <1>1, <1>2, TypeInvariant, PTL DEF Spec
-----------------------------------------------------------------------------
(***************************************************************************)
(* The text under a reader.                                                *)
(***************************************************************************)

LEMMA InUseNames ==
  /\ file \in InUse /\ undo \in InUse /\ swap \in InUse
  /\ \A c \in Conns : src[c] \in InUse
BY DEF InUse

\* Names get inodes of their own.
LEMMA UpdateDistinct ==
  ASSUME TypeInv, Distinct, NEW c \in Conns \ Readers, UpdateStep(c)
  PROVE  Distinct'
<1>1. /\ LifetimeTypeOK /\ ServedOnly /\ {file, undo, swap} \subseteq Inodes \cup {NoFile}
  BY DEF TypeInv, LifetimeInv, LifetimeTypeOK
<1>2. \A r \in Readers : src'[r] = src[r] /\ src[r] \in InUse
  BY <1>1, UpdateOfOne, InUseNames, ReadersAreConns
<1>3. \A i \in {file, undo, swap} :
        Created(i) \in Inodes /\ IF i = NoFile THEN Created(i) \notin InUse ELSE Created(i) = i
  BY <1>1, CreatedInode
<1>4. UNCHANGED <<file, undo, swap>> => Distinct'
  BY <1>2 DEF Distinct
<1>5. CASE FindCached(c)
  BY <1>4, <1>5 DEF FindCached
<1>6. CASE LoadFile(c)
  BY <1>4, <1>6 DEF LoadFile
<1>7. CASE FileMissing(c)
  BY <1>4, <1>7 DEF FileMissing
<1>8. CASE Reap(c)
  BY <1>4, <1>8 DEF Reap
<1>9. CASE StartWrite(c)
  BY <1>4, <1>9 DEF StartWrite
<1>10. CASE Inspect(c)
  BY <1>4, <1>10 DEF Inspect
<1>11. CASE WriteBackup(c)
  BY <1>2, <1>3, <1>11, InUseNames DEF WriteBackup, Distinct
<1>12. CASE EndWrite(c)
  BY <1>4, <1>12 DEF EndWrite
<1>13. CASE Vanish(c)
  BY <1>4, <1>13 DEF Vanish
<1>14. CASE BeginCommit(c)
  BY <1>4, <1>14 DEF BeginCommit
<1>15. CASE ApplyEdits(c)
  BY <1>4, <1>15 DEF ApplyEdits
<1>16. CASE SyncToSwap(c)
  BY <1>2, <1>3, <1>16, InUseNames DEF SyncToSwap, Distinct
<1>17. CASE Rename(c)
  BY <1>2, <1>3, <1>17, InUseNames DEF Rename, Distinct
<1>18. CASE Finish(c)
  BY <1>4, <1>18 DEF Finish
<1>19. CASE StartUndo(c)
  BY <1>4, <1>19 DEF StartUndo
<1>20. CASE UndoNoBackup(c)
  BY <1>4, <1>20 DEF UndoNoBackup
<1>21. CASE UndoOpen(c)
  BY <1>2, <1>3, <1>21, InUseNames DEF UndoOpen, Distinct
<1>22. CASE UndoCopy(c)
  BY <1>4, <1>22 DEF UndoCopy
<1>23. CASE UndoReload(c)
  BY <1>4, <1>23 DEF UndoReload
<1>24. CASE FindEntry(c)
  BY <1>4, <1>24 DEF FindEntry
<1>25. CASE MarkDeleted(c)
  BY <1>4, <1>25 DEF MarkDeleted
<1>26. CASE UnlinkFile(c)
  BY <1>2, <1>3, <1>26, InUseNames DEF UnlinkFile, Distinct
<1>27. CASE UnlinkUndo(c)
  BY <1>2, <1>3, <1>27, InUseNames DEF UnlinkUndo, Distinct
<1>28. CASE ForgetEntry(c)
  BY <1>4, <1>28 DEF ForgetEntry
<1>29. CASE MakeFile(c)
  BY <1>2, <1>3, <1>29, InUseNames DEF MakeFile, Distinct
<1> QED
  BY <1>5, <1>6, <1>7, <1>8, <1>9, <1>10, <1>11, <1>12, <1>13, <1>14, <1>15, <1>16,
     <1>17, <1>18, <1>19, <1>20, <1>21, <1>22, <1>23, <1>24, <1>25, <1>26, <1>27,
     <1>28, <1>29 DEF UpdateStep

\* A thread goes only where its request leads.
LEMMA UpdatePhases ==
  ASSUME TypeInv, Phases, NEW c \in Conns, UpdateStep(c)
  PROVE  Phases'
<1>1. LifetimeTypeOK
  BY DEF TypeInv, LifetimeInv
<1>2. \A d \in Conns \ {c} : pc'[d] = pc[d]
  BY <1>1, UpdateOfOne
<1> DEFINE P(l) == /\ l = "vanish" => c \in MayVanish
                   /\ l \in {"undo", "undo_copy", "undo_reload"} =>
                        Op[c] = "UNDO" \/ c \in MayVanish
                   /\ l = "make" => Op[c] = "CREATE"
                   /\ l \in {"lock", "count", "abandon", "backup", "edit", "unlock", "commit",
                             "apply", "sync", "rename"} => Op[c] = "WRITE"
<1>3. P(pc[c])
  BY DEF Phases
<1>4. SUFFICES P(pc'[c])
  BY <1>2 DEF Phases
<1>5. pc \in [Conns -> PCs]
  BY <1>1 DEF LifetimeTypeOK
<1>6. pc[c] \in Sites => P(Found[pc[c]]) /\ P(Missing[pc[c]])
  BY <1>3, SiteTargets, SiteNames
<1> USE DEF Goto
<1>7. CASE FindCached(c)
  BY <1>3, <1>5, <1>7 DEF FindCached
<1>8. CASE LoadFile(c)
  BY <1>3, <1>5, <1>8 DEF LoadFile
<1>9. CASE FileMissing(c)
  <2>1. pc[c] \in Sites /\ pc'[c] = Missing[pc[c]]
    BY <1>5, <1>9 DEF FileMissing, Calls
  <2> HIDE DEF P
  <2> QED BY <1>6, <2>1
<1>10. CASE Reap(c)
  <2>1. pc[c] \in Sites /\ pc'[c] = Found[pc[c]]
    BY <1>5, <1>10 DEF Reap, Calls
  <2> HIDE DEF P
  <2> QED BY <1>6, <2>1
<1>11. CASE StartWrite(c)
  BY <1>3, <1>5, <1>11 DEF StartWrite
<1>12. CASE Inspect(c)
  <2>1. \/ pc'[c] = pc[c]
        \/ pc[c] \in Sites /\ pc'[c] = Found[pc[c]]
    BY <1>5, <1>12 DEF Inspect, Uses, Leave
  <2> HIDE DEF P
  <2> QED BY <1>3, <1>6, <2>1
<1>13. CASE WriteBackup(c)
  <2>1. \/ pc'[c] = pc[c]
        \/ pc[c] \in Sites /\ pc'[c] = Found[pc[c]]
    BY <1>5, <1>13 DEF WriteBackup, Uses, Leave
  <2> HIDE DEF P
  <2> QED BY <1>3, <1>6, <2>1
<1>14. CASE EndWrite(c)
  BY <1>3, <1>5, <1>14 DEF EndWrite
<1>15. CASE Vanish(c)
  BY <1>3, <1>5, <1>15 DEF Vanish
<1>16. CASE BeginCommit(c)
  BY <1>3, <1>5, <1>16 DEF BeginCommit
<1>17. CASE ApplyEdits(c)
  <2>1. \/ pc'[c] = pc[c]
        \/ pc[c] \in Sites /\ pc'[c] = Found[pc[c]]
    BY <1>5, <1>17 DEF ApplyEdits, Uses, Leave
  <2> HIDE DEF P
  <2> QED BY <1>3, <1>6, <2>1
<1>18. CASE SyncToSwap(c)
  <2>1. \/ pc'[c] = pc[c]
        \/ pc[c] \in Sites /\ pc'[c] = Found[pc[c]]
    BY <1>5, <1>18 DEF SyncToSwap, Uses, Leave
  <2> HIDE DEF P
  <2> QED BY <1>3, <1>6, <2>1
<1>19. CASE Rename(c)
  BY <1>3, <1>5, <1>19 DEF Rename
<1>20. CASE Finish(c)
  BY <1>3, <1>5, <1>20 DEF Finish
<1>21. CASE StartUndo(c)
  BY <1>3, <1>5, <1>21 DEF StartUndo
<1>22. CASE UndoNoBackup(c)
  BY <1>3, <1>5, <1>22 DEF UndoNoBackup
<1>23. CASE UndoOpen(c)
  BY <1>3, <1>5, <1>23 DEF UndoOpen
<1>24. CASE UndoCopy(c)
  BY <1>3, <1>5, <1>24 DEF UndoCopy
<1>25. CASE UndoReload(c)
  BY <1>3, <1>5, <1>25 DEF UndoReload
<1>26. CASE FindEntry(c)
  BY <1>3, <1>5, <1>26 DEF FindEntry
<1>27. CASE MarkDeleted(c)
  BY <1>3, <1>5, <1>27 DEF MarkDeleted
<1>28. CASE UnlinkFile(c)
  BY <1>3, <1>5, <1>28 DEF UnlinkFile
<1>29. CASE UnlinkUndo(c)
  BY <1>3, <1>5, <1>29 DEF UnlinkUndo
<1>30. CASE ForgetEntry(c)
  BY <1>3, <1>5, <1>30 DEF ForgetEntry
<1>31. CASE MakeFile(c)
  BY <1>3, <1>5, <1>31 DEF MakeFile
<1> QED
  BY <1>7, <1>8, <1>9, <1>10, <1>11, <1>12, <1>13, <1>14, <1>15, <1>16, <1>17, <1>18,
     <1>19, <1>20, <1>21, <1>22, <1>23, <1>24, <1>25, <1>26, <1>27, <1>28, <1>29,
     <1>30, <1>31 DEF UpdateStep

\* With no writer in place, what a reader has open keeps its words.
LEMMA UpdateStable ==
  ASSUME ReadersApart, TypeInv, DiskInv, NEW c \in Conns \ Readers, UpdateStep(c),
         UNCHANGED transferVars
  PROVE  Stable'
<1>1. /\ LifetimeTypeOK /\ ServedOnly /\ {file, undo, swap} \subseteq Inodes \cup {NoFile}
      /\ content \in [Inodes -> Seq(Word)]
  BY DEF TypeInv, LifetimeInv, LifetimeTypeOK, Texts
<1>2. SUFFICES ASSUME NEW r \in Readers, pc[r] \in Reading
               PROVE  content'[src[r]] = content[src[r]]
  BY <1>1, UpdateOfOne, ReadersAreConns DEF Stable, DiskInv
<1>3. src[r] \in Inodes /\ src[r] \in InUse /\ src[r] # undo /\ src[r] # swap
  BY <1>2, InUseNames, ReadersAreConns DEF TypeInv, Opened, DiskInv, Distinct
<1>4. \A i \in {file, undo, swap} :
        Created(i) \in Inodes /\ IF i = NoFile THEN Created(i) \notin InUse ELSE Created(i) = i
  BY <1>1, CreatedInode
<1>5. PICK made \in Served :
        /\ \A d \in Conns \ made : pc[d] = "done"
        /\ made \cap Readers # {} =>
             \A k \in made : Op[k] = "CREATE" /\ pc[k] = "make" => file = NoFile
  BY DEF DiskInv, Absent
<1>6. c \in made /\ r \in made /\ made \cap Readers # {}
  BY <1>1, <1>2, <1>5, UpdateOfOne, ReadersAreConns DEF Reading
<1>7. Op[c] # "UNDO" /\ c \notin MayVanish
  BY <1>6 DEF ReadersApart
<1>8. pc[c] \notin {"undo", "undo_copy", "undo_reload"}
  BY <1>7 DEF DiskInv, Phases
<1>9. CASE FindCached(c)
  BY <1>9 DEF FindCached
<1>10. CASE LoadFile(c)
  BY <1>10 DEF LoadFile
<1>11. CASE FileMissing(c)
  BY <1>11 DEF FileMissing
<1>12. CASE Reap(c)
  BY <1>12 DEF Reap
<1>13. CASE StartWrite(c)
  BY <1>13 DEF StartWrite
<1>14. CASE Inspect(c)
  BY <1>14 DEF Inspect
<1>15. CASE WriteBackup(c)
  BY <1>1, <1>3, <1>4, <1>15 DEF WriteBackup
<1>16. CASE EndWrite(c)
  BY <1>16 DEF EndWrite
<1>17. CASE Vanish(c)
  BY <1>17 DEF Vanish
<1>18. CASE BeginCommit(c)
  BY <1>18 DEF BeginCommit
<1>19. CASE ApplyEdits(c)
  BY <1>19 DEF ApplyEdits
<1>20. CASE SyncToSwap(c)
  BY <1>1, <1>3, <1>4, <1>20 DEF SyncToSwap
<1>21. CASE Rename(c)
  BY <1>21 DEF Rename
<1>22. CASE Finish(c)
  BY <1>22 DEF Finish
<1>23. CASE StartUndo(c)
  BY <1>23 DEF StartUndo
<1>24. CASE UndoNoBackup(c)
  BY <1>24 DEF UndoNoBackup
<1>25. CASE UndoOpen(c)
  BY <1>8, <1>25 DEF UndoOpen
<1>26. CASE UndoCopy(c)
  BY <1>8, <1>26 DEF UndoCopy
<1>27. CASE UndoReload(c)
  BY <1>27 DEF UndoReload
<1>28. CASE FindEntry(c)
  BY <1>28 DEF FindEntry
<1>29. CASE MarkDeleted(c)
  BY <1>29 DEF MarkDeleted
<1>30. CASE UnlinkFile(c)
  BY <1>30 DEF UnlinkFile
<1>31. CASE UnlinkUndo(c)
  BY <1>31 DEF UnlinkUndo
<1>32. CASE ForgetEntry(c)
  BY <1>32 DEF ForgetEntry
<1>33. CASE MakeFile(c)
  <2>1. file = NoFile
    BY <1>5, <1>6, <1>33 DEF MakeFile, DiskInv, Phases
  <2> QED BY <1>1, <1>3, <1>4, <1>33, <2>1 DEF MakeFile
<1> QED
  BY <1>9, <1>10, <1>11, <1>12, <1>13, <1>14, <1>15, <1>16, <1>17, <1>18, <1>19, <1>20,
     <1>21, <1>22, <1>23, <1>24, <1>25, <1>26, <1>27, <1>28, <1>29, <1>30, <1>31,
     <1>32, <1>33 DEF UpdateStep

\* The file stays away as long as a CREATE relies on it.
LEMMA UpdateAbsent ==
  ASSUME ReadersApart, TypeInv, DiskInv, NEW c \in Conns \ Readers, UpdateStep(c)
  PROVE  Absent'
<1>1. LifetimeTypeOK /\ pc \in [Conns -> PCs] /\ known \in BOOLEAN
  BY DEF TypeInv, LifetimeInv, LifetimeTypeOK
<1>2. pc[c] # "done" /\ \A d \in Conns \ {c} : pc'[d] = pc[d]
  BY <1>1, UpdateOfOne
<1> DEFINE Gone(k) == \/ file = NoFile
                      \/ /\ known /\ pc[k] = "start"
                         /\ \A d \in Conns : pc[d] \notin {"unlink_undo", "forget"}
<1>3. PICK made \in Served :
        /\ \A d \in Conns \ made : pc[d] = "done"
        /\ made \cap Readers # {} =>
             \A k \in made : Op[k] = "CREATE" /\ pc[k] \in {"start", "make"} => Gone(k)
  BY DEF DiskInv, Absent
<1>4. c \in made
  BY <1>2, <1>3
<1>5. SUFFICES ASSUME made \cap Readers # {}, NEW k \in made, Op[k] = "CREATE",
                      pc'[k] \in {"start", "make"}
               PROVE  Gone(k)'
  BY <1>2, <1>3, <1>4 DEF Absent
<1>6. /\ Op[c] # "UNDO" /\ c \notin MayVanish /\ Op[c] # "WRITE" /\ k \in Conns
      /\ Op[c] = "CREATE" => c = k
  BY <1>4, <1>5 DEF ReadersApart
<1>7. pc[c] \notin {"vanish", "undo", "undo_copy", "undo_reload", "lock", "count", "abandon",
                    "backup", "edit", "unlock", "commit", "apply", "sync", "rename"}
  BY <1>6 DEF DiskInv, Phases
<1>8. k # c => pc[k] \in {"start", "make"} /\ Gone(k)
  BY <1>2, <1>3, <1>5, <1>6
<1>9. ASSUME UNCHANGED <<file, known>>, k # c, pc'[c] \notin {"unlink_undo", "forget"}
      PROVE  Gone(k)'
  BY <1>2, <1>6, <1>8, <1>9
<1>10. pc[c] \in Sites => pc[c] = "initial"
  BY <1>7, SiteNames
<1> USE DEF Goto
<1>11. CASE FindCached(c)
  <2>1. UNCHANGED <<file, known, pc>> /\ pc[c] = "initial"
    BY <1>10, <1>11 DEF FindCached, Calls
  <2> QED BY <1>5, <1>9, <2>1
<1>12. CASE LoadFile(c)
  <2>1. UNCHANGED <<file, known, pc>> /\ pc[c] = "initial"
    BY <1>10, <1>12 DEF LoadFile, Calls
  <2> QED BY <1>5, <1>9, <2>1
<1>13. CASE FileMissing(c)
  <2>1. UNCHANGED <<file, known>> /\ pc'[c] \in {"initial", "done"}
    BY <1>1, <1>10, <1>13, SiteTargets DEF FileMissing, Calls
  <2> QED BY <1>5, <1>9, <2>1
<1>14. CASE Reap(c)
  <2>1. UNCHANGED <<file, known>> /\ pc'[c] \in {"initial", "done"}
    BY <1>1, <1>10, <1>14, SiteTargets DEF Reap
  <2> QED BY <1>5, <1>9, <2>1
<1>15. CASE StartWrite(c)
  BY <1>6, <1>15 DEF StartWrite
<1>16. CASE Inspect(c)
  <2>1. UNCHANGED <<file, known>> /\ pc'[c] \in {"initial", "done"}
    BY <1>1, <1>10, <1>16, SiteTargets DEF Inspect, Uses, Leave
  <2> QED BY <1>5, <1>9, <2>1
<1>17. CASE WriteBackup(c)
  <2>1. UNCHANGED <<file, known>> /\ pc'[c] \in {"initial", "done"}
    BY <1>1, <1>10, <1>17, SiteTargets DEF WriteBackup, Uses, Leave
  <2> QED BY <1>5, <1>9, <2>1
<1>18. CASE EndWrite(c)
  BY <1>7, <1>18 DEF EndWrite
<1>19. CASE Vanish(c)
  BY <1>7, <1>19 DEF Vanish
<1>20. CASE BeginCommit(c)
  BY <1>7, <1>20 DEF BeginCommit
<1>21. CASE ApplyEdits(c)
  <2>1. UNCHANGED <<file, known>> /\ pc'[c] \in {"initial", "done"}
    BY <1>1, <1>10, <1>21, SiteTargets DEF ApplyEdits, Uses, Leave
  <2> QED BY <1>5, <1>9, <2>1
<1>22. CASE SyncToSwap(c)
  <2>1. UNCHANGED <<file, known>> /\ pc'[c] \in {"initial", "done"}
    BY <1>1, <1>10, <1>22, SiteTargets DEF SyncToSwap, Uses, Leave
  <2> QED BY <1>5, <1>9, <2>1
<1>23. CASE Rename(c)
  BY <1>7, <1>23 DEF Rename
<1>24. CASE Finish(c)
  BY <1>1, <1>5, <1>9, <1>24 DEF Finish
<1>25. CASE StartUndo(c)
  BY <1>6, <1>25 DEF StartUndo
<1>26. CASE UndoNoBackup(c)
  BY <1>7, <1>26 DEF UndoNoBackup
<1>27. CASE UndoOpen(c)
  BY <1>7, <1>27 DEF UndoOpen
<1>28. CASE UndoCopy(c)
  BY <1>7, <1>28 DEF UndoCopy
<1>29. CASE UndoReload(c)
  BY <1>7, <1>29 DEF UndoReload
<1>30. CASE FindEntry(c)
  <2>1. CASE k = c
    BY <1>1, <1>3, <1>5, <1>30, <2>1 DEF FindEntry
  <2>2. CASE k # c
    BY <1>1, <1>9, <1>30, <2>2 DEF FindEntry
  <2> QED BY <2>1, <2>2
<1>31. CASE MarkDeleted(c)
  BY <1>1, <1>5, <1>9, <1>31 DEF MarkDeleted
<1>32. CASE UnlinkFile(c)
  BY <1>1, <1>5, <1>6, <1>32 DEF UnlinkFile, DiskInv, Phases
<1>33. CASE UnlinkUndo(c)
  <2>1. k # c
    BY <1>1, <1>5, <1>33 DEF UnlinkUndo
  <2> QED BY <1>6, <1>8, <1>33, <2>1 DEF UnlinkUndo
<1>34. CASE ForgetEntry(c)
  <2>1. k # c
    BY <1>1, <1>5, <1>34 DEF ForgetEntry
  <2> QED BY <1>6, <1>8, <1>34, <2>1 DEF ForgetEntry
<1>35. CASE MakeFile(c)
  BY <1>1, <1>5, <1>6, <1>35 DEF MakeFile, DiskInv, Phases
<1> QED
  BY <1>11, <1>12, <1>13, <1>14, <1>15, <1>16, <1>17, <1>18, <1>19, <1>20, <1>21,
     <1>22, <1>23, <1>24, <1>25, <1>26, <1>27, <1>28, <1>29, <1>30, <1>31, <1>32,
     <1>33, <1>34, <1>35 DEF UpdateStep

\* What a step of a sender does to its thread: the file it has open stays open, is closed,
\* or is opened just now.
LEMMA SenderMoves ==
  ASSUME TypeInv, NEW r \in Readers, SendStep(r)
  PROVE  /\ UNCHANGED disk
         /\ \A d \in Conns \ {r} : pc'[d] = pc[d] /\ src'[d] = src[d]
         /\ \A d \in Readers \ {r} : opened'[d] = opened[d] /\ size'[d] = size[d]
         /\ pc[r] \in Opening \cup Reading
         /\ \/ /\ OpenFile(r) /\ src'[r] = file /\ pc'[r] \in Reading /\ src'[r] \in Inodes
               /\ opened'[r] = content[file] /\ size'[r] = Len(content[file])
            \/ /\ ~OpenFile(r) /\ UNCHANGED <<opened, size>>
               /\ \/ src'[r] = NoFile /\ pc'[r] = "done"
                  \/ src'[r] = src[r] /\ pc'[r] = "open"
                  \/ src'[r] = src[r] /\ pc[r] \in Reading /\ pc'[r] = "chunks"
<1>1. /\ pc \in [Conns -> PCs] /\ src \in [Conns -> Inodes \cup {NoFile}] /\ r \in Conns
      /\ file \in Inodes \cup {NoFile}
      /\ size \in [Readers -> Nat] /\ opened \in [Readers -> Seq(Word)]
  BY ReadersAreConns DEF TypeInv, LifetimeInv, LifetimeTypeOK, TypeOK, TransferTypes
<1>2. ASSUME NEW m, NEW next \in {"done", "chunks"}, Send(r, m, next),
             next = "chunks" => pc[r] \in Reading
      PROVE  /\ \A d \in Conns \ {r} : pc'[d] = pc[d] /\ src'[d] = src[d]
             /\ \/ src'[r] = NoFile /\ pc'[r] = "done"
                \/ src'[r] = src[r] /\ pc[r] \in Reading /\ pc'[r] = "chunks"
  <2>1. PICK label \in {next, "done"} :
          /\ src' = IF label = "done" THEN [src EXCEPT ![r] = NoFile] ELSE src
          /\ Goto(r, label)
    BY <1>2 DEF Send
  <2>2. CASE label = "done"
    BY <1>1, <2>1, <2>2 DEF Goto
  <2>3. CASE label # "done"
    BY <1>1, <1>2, <2>1, <2>3 DEF Goto
  <2> QED BY <2>2, <2>3
<1> USE DEF Opening, Reading
<1>3. CASE StartRead(r)
  <2>1. CASE known \/ Op[r] = "EXEC"
    BY <1>1, <1>3, <2>1 DEF StartRead, Goto, OpenFile
  <2>2. CASE ~(known \/ Op[r] = "EXEC")
    <3>1. Send(r, Message("error", 0, <<>>), "done")
      BY <1>3, <2>2 DEF StartRead
    <3> QED BY <1>2, <1>3, <3>1 DEF StartRead, OpenFile
  <2> QED BY <2>1, <2>2
<1>4. CASE OpenMissing(r)
  <2>1. Send(r, Message("error", 0, <<>>), "done")
    BY <1>4 DEF OpenMissing
  <2> QED BY <1>2, <1>4, <2>1 DEF OpenMissing, OpenFile
<1>5. CASE OpenFile(r)
  <2>1. file \in Inodes
    BY <1>1, <1>5 DEF OpenFile
  <2> QED BY <1>1, <1>5, <2>1 DEF OpenFile, Goto
<1>6. CASE SendFirst(r)
  <2>1. /\ pc[r] = "first" /\ UNCHANGED <<disk, sender>>
        /\ \E m : Send(r, m, "done") \/ Send(r, m, "chunks")
    BY <1>6 DEF SendFirst
  <2> QED BY <1>2, <2>1 DEF OpenFile
<1>7. CASE ReadBlock(r)
  BY <1>1, <1>7 DEF ReadBlock, OpenFile
<1>8. CASE SendChunk(r)
  <2>1. /\ pc[r] = "chunks" /\ UNCHANGED <<disk, size, opened>>
        /\ \E m : Send(r, m, "chunks")
    BY <1>8 DEF SendChunk
  <2> QED BY <1>2, <2>1 DEF OpenFile
<1>9. CASE SendStop(r)
  <2>1. Send(r, Message("stop", 0, <<>>), "done")
    BY <1>9 DEF SendStop
  <2> QED BY <1>2, <1>9, <2>1 DEF SendStop, OpenFile
<1> QED BY <1>3, <1>4, <1>5, <1>6, <1>7, <1>8, <1>9 DEF SendStep

\* A sender opens the file, never the backup or the swap file, and only reads.
LEMMA SendPreservesDisk ==
  ASSUME TypeInv, DiskInv, NEW r \in Readers, SendStep(r)
  PROVE  DiskInv'
<1>1. /\ UNCHANGED disk /\ r \in Conns /\ Op[r] \in Reads
      /\ \A d \in Conns \ {r} : pc'[d] = pc[d] /\ src'[d] = src[d]
      /\ pc[r] \notin {"unlink_undo", "forget"} /\ pc'[r] \in {"open", "first", "chunks", "done"}
  BY SenderMoves DEF Readers, Opening, Reading
<1>2. Distinct'
  <2>1. src'[r] # NoFile => src'[r] = src[r] \/ src'[r] = file
    BY SenderMoves
  <2> QED BY <1>1, <2>1, ReadersAreConns DEF DiskInv, Distinct
<1>3. Phases'
  BY <1>1 DEF DiskInv, Phases
<1>4. Absent'
  <2>1. PICK made \in Served :
          /\ \A c \in Conns \ made : pc[c] = "done"
          /\ made \cap Readers # {} =>
               \A k \in made : Op[k] = "CREATE" /\ pc[k] \in {"start", "make"} =>
                 \/ file = NoFile
                 \/ /\ known /\ pc[k] = "start"
                    /\ \A d \in Conns : pc[d] \notin {"unlink_undo", "forget"}
    BY DEF DiskInv, Absent
  <2>2. r \in made
    BY <1>1, <2>1, SenderMoves DEF Opening, Reading
  <2>3. \A k \in made : Op[k] = "CREATE" => k \in Conns \ {r} /\ pc'[k] = pc[k]
    BY <1>1 DEF Reads
  <2> QED BY <1>1, <2>1, <2>2, <2>3 DEF Absent
<1>5. Stable'
  <2> SUFFICES ASSUME NEW d \in Readers, pc'[d] \in Reading
               PROVE  content'[src'[d]] = opened'[d] /\ size'[d] = Len(opened'[d])
    BY DEF Stable
  <2>1. CASE d = r
    BY <1>1, <2>1, SenderMoves DEF DiskInv, Stable, Reading
  <2>2. CASE d # r
    BY <1>1, <2>2, SenderMoves, ReadersAreConns DEF DiskInv, Stable
  <2> QED BY <2>1, <2>2
<1> QED BY <1>2, <1>3, <1>4, <1>5 DEF DiskInv

LEMMA DiskUntouched ==
  ASSUME DiskInv, UNCHANGED lifetimeVars, UNCHANGED sender
  PROVE  DiskInv'
BY DEF DiskInv, Distinct, Phases, Absent, Stable

\* Nobody has anything open, and only requests that have not begun are left.
LEMMA KilledPreservesDisk ==
  ASSUME TypeInv, DiskInv, NEW r \in Readers, Killed(r)
  PROVE  DiskInv'
<1>1. UNCHANGED disk /\ UNCHANGED sender
  BY DEF Killed
<1>2. Distinct'
  BY <1>1, KilledThreads, ReadersAreConns DEF DiskInv, Distinct
<1>3. Phases'
  BY KilledThreads DEF DiskInv, Phases
<1>4. Absent'
  <2>1. PICK made \in Served :
          /\ \A c \in Conns \ made : pc[c] = "done"
          /\ made \cap Readers # {} =>
               \A k \in made : Op[k] = "CREATE" /\ pc[k] \in {"start", "make"} =>
                 \/ file = NoFile
                 \/ /\ known /\ pc[k] = "start"
                    /\ \A d \in Conns : pc[d] \notin {"unlink_undo", "forget"}
    BY DEF DiskInv, Absent
  <2>2. \A c \in Conns \ made : pc'[c] = "done"
    BY <2>1, KilledThreads
  <2>3. made \subseteq Conns
    BY <2>1
  <2>4. ASSUME NEW k \in made, pc'[k] \in {"start", "make"}
        PROVE  pc[k] = "start" /\ pc'[k] = "start"
    BY <2>3, <2>4, KilledThreads
  <2>5. \A d \in Conns : pc'[d] \notin {"unlink_undo", "forget"}
    BY KilledThreads
  <2> QED BY <1>1, <2>1, <2>2, <2>4, <2>5 DEF Absent
<1>5. Stable'
  BY KilledThreads, ReadersAreConns DEF Stable, Reading
<1> QED BY <1>2, <1>3, <1>4, <1>5 DEF DiskInv

LEMMA InitDisk == TransferInit => DiskInv
<1> SUFFICES ASSUME TransferInit PROVE DiskInv
  OBVIOUS
<1>1. PICK made \in Served : pc = [c \in Conns |-> IF c \in made THEN "start" ELSE "done"]
  BY DEF TransferInit, Init
<1>2. Distinct
  BY ReadersAreConns DEF TransferInit, Init, Distinct
<1>3. Phases
  BY <1>1 DEF Phases
<1>4. Absent
  BY <1>1 DEF Absent, TransferInit, Init
<1>5. Stable
  BY <1>1, ReadersAreConns DEF Stable, Reading
<1> QED BY <1>2, <1>3, <1>4, <1>5 DEF DiskInv

LEMMA NextPreservesDisk ==
  ASSUME ReadersApart, TypeInv, DiskInv, [Next]_vars
  PROVE  DiskInv'
<1>1. CASE \E c \in Conns \ Readers : Update(c)
  <2>1. PICK c \in Conns \ Readers : UpdateStep(c) /\ UNCHANGED transferVars
    BY <1>1 DEF Update
  <2>2. Distinct' /\ Phases' /\ Absent' /\ Stable'
    BY <2>1, UpdateDistinct, UpdatePhases, UpdateAbsent, UpdateStable DEF DiskInv
  <2> QED BY <2>2 DEF DiskInv
<1>2. CASE \E r \in Readers : SendStep(r)
  BY <1>2, SendPreservesDisk
<1>3. CASE \E r \in Readers : ReceiveStep(r) \/ Break(r)
  <2>1. UNCHANGED lifetimeVars /\ UNCHANGED sender
    BY <1>3 DEF ReceiveStep, Break, ReceiveError, ReceiveFirst, ReceiveChunk, ReceiveStop,
       ConnectionLost, WriteScript, ScriptFails, RunScript, RunFails, UnlinkScript
  <2> QED BY <2>1, DiskUntouched
<1>4. CASE UNCHANGED vars
  BY <1>4, DiskUntouched
<1>5. CASE \E r \in Readers : Killed(r)
  BY <1>5, KilledPreservesDisk
<1> QED BY <1>1, <1>2, <1>3, <1>4, <1>5 DEF Next, Done
-----------------------------------------------------------------------------
(***************************************************************************)
(* Messages that carry a text.                                             *)
(***************************************************************************)

LEMMA DeliversNothing ==
  ASSUME NEW text \in Seq(Word), NEW lo \in 0 .. Len(text), NEW op
  PROVE  \E off \in Offsets(<<>>, text) :
           Delivers(off, <<>>, lo, text, op) /\ off[Len(<<>>)] = lo
<1> DEFINE off == [i \in 0 .. 0 |-> lo]
<1>1. Len(<<>>) = 0
  OBVIOUS
<1>2. off \in [0 .. 0 -> 0 .. Len(text)] /\ off[0] = lo
  OBVIOUS
<1> HIDE DEF off
<1> QED BY <1>1, <1>2 DEF Offsets, Delivers

\* One more message is sent.
LEMMA DeliversAppend ==
  ASSUME NEW text \in Seq(Word), NEW ch \in Seq(Messages), NEW op, NEW lo \in Nat,
         NEW m \in Messages, NEW off \in Offsets(ch, text), Delivers(off, ch, lo, text, op),
         Carries(m, off[Len(ch)], text, op)
  PROVE  \E new \in Offsets(Append(ch, m), text) :
           /\ Delivers(new, Append(ch, m), lo, text, op)
           /\ new[Len(Append(ch, m))] = off[Len(ch)] + Len(m.data)
<1> DEFINE n == Len(ch)
           longer == Append(ch, m)
           new == [i \in 0 .. n + 1 |-> IF i = n + 1 THEN off[n] + Len(m.data) ELSE off[i]]
<1>1. /\ n \in Nat /\ Len(text) \in Nat /\ Len(longer) = n + 1 /\ longer[n + 1] = m
      /\ \A i \in 1 .. n : longer[i] = ch[i]
  BY AppendProperties, LenProperties
<1>2. off \in [0 .. n -> 0 .. Len(text)]
  BY DEF Offsets
<1>3. Len(m.data) \in Nat
  <2>1. m.data \in Seq(Word)
    BY DEF Messages
  <2> QED BY <2>1, LenProperties
<1>4. off[n] \in 0 .. Len(text) /\ off[n] + Len(m.data) <= Len(text)
  <2>1. off[Len(ch)] + Len(m.data) <= Len(text)
    BY DEF Carries
  <2>2. n \in 0 .. n
    BY <1>1
  <2> HIDE DEF n
  <2>3. off[n] \in 0 .. Len(text)
    BY <1>2, <2>2
  <2> QED BY <2>1, <2>3 DEF n
<1> HIDE DEF n, longer
<1>5. /\ new \in [0 .. n + 1 -> 0 .. Len(text)] /\ new[n + 1] = off[n] + Len(m.data)
      /\ \A i \in 0 .. n : new[i] = off[i]
  BY <1>1, <1>2, <1>3, <1>4
<1> HIDE DEF new
<1>6. off[0] = lo /\ \A i \in 1 .. n : /\ off[i] = off[i - 1] + Len(ch[i].data)
                                       /\ Carries(ch[i], off[i - 1], text, op)
  BY DEF Delivers, n
<1>7. ASSUME NEW i \in 1 .. n + 1
      PROVE  /\ new[i] = new[i - 1] + Len(longer[i].data)
             /\ Carries(longer[i], new[i - 1], text, op)
  <2>1. CASE i = n + 1
    <3>1. new[i - 1] = off[n] /\ longer[i] = m
      BY <1>1, <1>5, <2>1
    <3> QED BY <1>1, <1>5, <2>1, <3>1 DEF n
  <2>2. CASE i # n + 1
    <3>1. i \in 1 .. n /\ i - 1 \in 0 .. n /\ i \in 0 .. n
      BY <1>1, <2>2
    <3>2. new[i - 1] = off[i - 1] /\ new[i] = off[i] /\ longer[i] = ch[i]
      BY <1>1, <1>5, <3>1
    <3> QED BY <1>6, <3>1, <3>2
  <2> QED BY <2>1, <2>2
<1>8. new[0] = lo
  BY <1>1, <1>5, <1>6
<1>9. new \in Offsets(longer, text) /\ Delivers(new, longer, lo, text, op)
  BY <1>1, <1>5, <1>7, <1>8 DEF Offsets, Delivers
<1> QED BY <1>1, <1>5, <1>9 DEF n, longer

\* The first message arrives.
LEMMA DeliversTail ==
  ASSUME NEW text \in Seq(Word), NEW ch \in Seq(Messages), ch # <<>>, NEW op, NEW lo \in Nat,
         NEW off \in Offsets(ch, text), Delivers(off, ch, lo, text, op)
  PROVE  /\ Carries(ch[1], lo, text, op)
         /\ \E new \in Offsets(Tail(ch), text) :
              /\ Delivers(new, Tail(ch), lo + Len(ch[1].data), text, op)
              /\ new[Len(Tail(ch))] = off[Len(ch)]
<1> DEFINE n == Len(ch)
           rest == Tail(ch)
           new == [i \in 0 .. n - 1 |-> off[i + 1]]
<1>1. /\ n \in Nat \ {0} /\ Len(rest) = n - 1 /\ Len(text) \in Nat
      /\ \A i \in 1 .. n - 1 : rest[i] = ch[i + 1]
  BY HeadTailProperties, LenProperties, EmptySeq
<1> HIDE DEF n, rest
<1>2. off \in [0 .. n -> 0 .. Len(text)]
  BY DEF Offsets, n
<1>3. off[0] = lo /\ \A i \in 1 .. n : /\ off[i] = off[i - 1] + Len(ch[i].data)
                                       /\ Carries(ch[i], off[i - 1], text, op)
  BY DEF Delivers, n
<1>4. off[1] = lo + Len(ch[1].data) /\ Carries(ch[1], lo, text, op)
  <2>1. 1 \in 1 .. n /\ 1 - 1 = 0
    BY <1>1
  <2> QED BY <1>3, <2>1
<1>5. new \in [0 .. n - 1 -> 0 .. Len(text)] /\ \A i \in 0 .. n - 1 : new[i] = off[i + 1]
  BY <1>1, <1>2
<1> HIDE DEF new
<1>6. ASSUME NEW i \in 1 .. n - 1
      PROVE  /\ new[i] = new[i - 1] + Len(rest[i].data)
             /\ Carries(rest[i], new[i - 1], text, op)
  <2>1. i + 1 \in 1 .. n /\ i - 1 \in 0 .. n - 1 /\ i \in 0 .. n - 1 /\ (i + 1) - 1 = i
        /\ (i - 1) + 1 = i
    BY <1>1
  <2>2. new[i] = off[i + 1] /\ new[i - 1] = off[i] /\ rest[i] = ch[i + 1]
    BY <1>1, <1>5, <2>1
  <2> QED BY <1>3, <2>1, <2>2
<1>7. new[0] = lo + Len(ch[1].data) /\ new[n - 1] = off[n]
  BY <1>1, <1>4, <1>5
<1>8. new \in Offsets(rest, text) /\ Delivers(new, rest, lo + Len(ch[1].data), text, op)
  BY <1>1, <1>5, <1>6, <1>7 DEF Offsets, Delivers
<1> QED BY <1>1, <1>4, <1>7, <1>8 DEF n, rest

\* The last messages are lost.
LEMMA DeliversFront ==
  ASSUME NEW text \in Seq(Word), NEW ch \in Seq(Messages), NEW op, NEW lo \in Nat,
         NEW off \in Offsets(ch, text), Delivers(off, ch, lo, text, op), NEW n \in 0 .. Len(ch)
  PROVE  \E new \in Offsets(SubSeq(ch, 1, n), text) :
           Delivers(new, SubSeq(ch, 1, n), lo, text, op)
<1> DEFINE front == SubSeq(ch, 1, n)
           new == [i \in 0 .. n |-> off[i]]
<1>1. Len(ch) \in Nat /\ Len(front) = n /\ \A i \in 1 .. n : front[i] = ch[i]
  OBVIOUS
<1> HIDE DEF front
<1>2. off \in [0 .. Len(ch) -> 0 .. Len(text)]
  BY DEF Offsets
<1>3. off[0] = lo /\ \A i \in 1 .. Len(ch) : /\ off[i] = off[i - 1] + Len(ch[i].data)
                                             /\ Carries(ch[i], off[i - 1], text, op)
  BY DEF Delivers
<1>4. new \in [0 .. n -> 0 .. Len(text)] /\ \A i \in 0 .. n : new[i] = off[i]
  <2>1. \A i \in 0 .. n : i \in 0 .. Len(ch)
    BY <1>1
  <2>2. \A i \in 0 .. n : off[i] \in 0 .. Len(text)
    BY <1>2, <2>1
  <2> QED BY <2>2
<1> HIDE DEF new
<1>5. ASSUME NEW i \in 1 .. n
      PROVE  /\ new[i] = new[i - 1] + Len(front[i].data)
             /\ Carries(front[i], new[i - 1], text, op)
  <2>1. i \in 1 .. Len(ch) /\ i - 1 \in 0 .. n /\ i \in 0 .. n
    BY <1>1
  <2>2. new[i] = off[i] /\ new[i - 1] = off[i - 1] /\ front[i] = ch[i]
    BY <1>1, <1>4, <2>1
  <2> QED BY <1>3, <2>1, <2>2
<1>6. new[0] = lo
  BY <1>1, <1>3, <1>4
<1>7. new \in Offsets(front, text) /\ Delivers(new, front, lo, text, op)
  BY <1>1, <1>4, <1>5, <1>6 DEF Offsets, Delivers
<1> QED BY <1>7 DEF front

\* What has arrived grows by what the next message carries.
LEMMA PrefixGrows ==
  ASSUME NEW text \in Seq(Word), NEW s \in Seq(Word), NEW d \in Seq(Word), Prefix(s, text),
         Len(s) + Len(d) <= Len(text), \A k \in 1 .. Len(d) : d[k] = text[Len(s) + k]
  PROVE  Prefix(s \o d, text) /\ Len(s \o d) = Len(s) + Len(d)
<1>1. /\ Len(s) \in Nat /\ Len(d) \in Nat /\ Len(s \o d) = Len(s) + Len(d)
      /\ \A k \in 1 .. Len(s) + Len(d) :
           (s \o d)[k] = IF k <= Len(s) THEN s[k] ELSE d[k - Len(s)]
  BY ConcatProperties, LenProperties
<1>2. ASSUME NEW k \in 1 .. Len(s) + Len(d)
      PROVE  (s \o d)[k] = text[k]
  <2>1. CASE k <= Len(s)
    BY <1>1, <1>2, <2>1 DEF Prefix
  <2>2. CASE ~(k <= Len(s))
    <3>1. k - Len(s) \in 1 .. Len(d) /\ Len(s) + (k - Len(s)) = k
      BY <1>1, <2>2
    <3> QED BY <1>1, <2>2, <3>1
  <2> QED BY <2>1, <2>2
<1> QED BY <1>1, <1>2 DEF Prefix

LEMMA PrefixWhole ==
  ASSUME NEW text \in Seq(Word), NEW s \in Seq(Word), Prefix(s, text), Len(s) = Len(text)
  PROVE  s = text
BY SeqEqual DEF Prefix
-----------------------------------------------------------------------------
(***************************************************************************)
(* A transfer, step by step.                                               *)
(***************************************************************************)

\* The state of a transfer that a step of another connection leaves alone.
LEMMA ReaderUntouched ==
  ASSUME NEW r \in Readers, Flow(r), FirstFirst(r), Whole(r),
         pc'[r] = pc[r], pos'[r] = pos[r], buffer'[r] = buffer[r], opened'[r] = opened[r],
         chan'[r] = chan[r], link'[r] = link[r], rcv'[r] = rcv[r], announced'[r] = announced[r],
         got'[r] = got[r], ran'[r] = ran[r],
         rcv[r] = "run" => scripts'[ScriptOf[r]] = scripts[ScriptOf[r]]
  PROVE  Flow(r)' /\ FirstFirst(r)' /\ Whole(r)'
<1>1. Flow(r)'
  BY DEF Flow
<1>2. FirstFirst(r)'
  BY DEF FirstFirst
<1>3. Whole(r)'
  BY DEF Whole
<1> QED BY <1>1, <1>2, <1>3

\* fread, for a file that keeps its text.
LEMMA BlockIsNext ==
  ASSUME TypeInv, Stable, NEW r \in Readers, pc[r] \in Reading, pos[r] <= Len(opened[r]),
         NEW n \in Nat
  PROVE  /\ pos[r] + Len(Block(r, n)) <= Len(opened[r])
         /\ \A k \in 1 .. Len(Block(r, n)) : Block(r, n)[k] = opened[r][pos[r] + k]
         /\ Block(r, n) = <<>> /\ n > 0 => pos[r] = Len(opened[r])
         /\ n = Len(opened[r]) /\ pos[r] = 0 => Len(Block(r, n)) = Len(opened[r])
<1> DEFINE text == opened[r]
           p == pos[r]
           last == Least(p + n, Len(text))
           b == SubSeq(text, p + 1, last)
<1>1. text \in Seq(Word) /\ Len(text) \in Nat /\ p \in Nat /\ p <= Len(text)
  <2>1. opened \in [Readers -> Seq(Word)] /\ pos \in [Readers -> Nat]
    BY DEF TypeInv, TypeOK, TransferTypes
  <2> QED BY <2>1, LenProperties
<1>2. content[src[r]] = text /\ size[r] = Len(text)
  BY DEF Stable
<1>3. Block(r, n) = b
  BY <1>1, <1>2 DEF Block, Least
<1> HIDE DEF text, p
<1>4. /\ last \in Nat /\ p <= last /\ last <= Len(text) /\ last <= p + n
      /\ last = p => n = 0 \/ p = Len(text)
      /\ n = Len(text) /\ p = 0 => last = Len(text)
  BY <1>1 DEF Least
<1> HIDE DEF last
<1>5. \A i \in p + 1 .. last : text[i] \in Word
  BY <1>1, <1>4
<1>6. /\ Len(b) = IF p + 1 <= last THEN last - (p + 1) + 1 ELSE 0
      /\ \A i \in 1 .. last - (p + 1) + 1 : b[i] = text[(p + 1) + i - 1]
      /\ b \in Seq(Word)
  BY <1>1, <1>4, <1>5, SubSeqProperties
<1> HIDE DEF b
<1>7. Len(b) = last - p
  BY <1>1, <1>4, <1>6
<1>8. \A k \in 1 .. Len(b) : b[k] = text[p + k]
  <2> SUFFICES ASSUME NEW k \in 1 .. Len(b) PROVE b[k] = text[p + k]
    OBVIOUS
  <2>1. k \in 1 .. last - (p + 1) + 1 /\ (p + 1) + k - 1 = p + k
    BY <1>1, <1>4, <1>7
  <2> QED BY <1>6, <2>1
<1>9. b = <<>> => last = p
  BY <1>1, <1>4, <1>6, <1>7, EmptySeq
<1>10. /\ p + Len(b) <= Len(text)
       /\ b = <<>> /\ n > 0 => p = Len(text)
       /\ n = Len(text) /\ p = 0 => Len(b) = Len(text)
  BY <1>1, <1>4, <1>7, <1>9
<1> QED BY <1>3, <1>8, <1>10 DEF text, p

\* What the next steps use of the invariants for one reader.
LEMMA ReaderTypes ==
  ASSUME TypeInv, NEW r \in Readers
  PROVE  /\ opened[r] \in Seq(Word) /\ got[r] \in Seq(Word) /\ buffer[r] \in Seq(Word)
         /\ chan[r] \in Seq(Messages) /\ pos[r] \in Nat /\ size[r] \in Nat
         /\ Len(opened[r]) \in Nat /\ Len(got[r]) \in Nat /\ Len(buffer[r]) \in Nat
         /\ Len(chan[r]) \in Nat /\ link[r] \in Links
<1>1. /\ opened[r] \in Seq(Word) /\ got[r] \in Seq(Word) /\ buffer[r] \in Seq(Word)
      /\ chan[r] \in Seq(Messages) /\ pos[r] \in Nat /\ size[r] \in Nat /\ link[r] \in Links
  BY DEF TypeInv, TypeOK, TransferTypes
<1> QED BY <1>1, LenProperties

\* Sending a message that carries what comes next.
LEMMA SendDelivers ==
  ASSUME TypeInv, NEW r \in Readers, Flow(r), NEW m \in Messages, NEW next \in {"chunks", "done"},
         Send(r, m, next), UNCHANGED <<opened, got, rcv, link>>, rcv[r] \in Waiting, link[r] = "up",
         \A off \in Offsets(chan[r], opened[r]) :
           Delivers(off, chan[r], Len(got[r]), opened[r], Op[r]) /\
           (pc[r] = "chunks" => off[Len(chan[r])] + Len(buffer[r]) = pos[r])
             => Carries(m, off[Len(chan[r])], opened[r], Op[r])
  PROVE  \E off \in Offsets(chan[r], opened[r]), new \in Offsets(chan'[r], opened'[r]) :
           /\ Delivers(off, chan[r], Len(got[r]), opened[r], Op[r])
           /\ pc[r] = "chunks" => off[Len(chan[r])] + Len(buffer[r]) = pos[r]
           /\ Delivers(new, chan'[r], Len(got'[r]), opened'[r], Op[r])
           /\ new[Len(chan'[r])] = off[Len(chan[r])] + Len(m.data)
<1>1. PICK off \in Offsets(chan[r], opened[r]) :
        /\ Delivers(off, chan[r], Len(got[r]), opened[r], Op[r])
        /\ pc[r] = "chunks" => off[Len(chan[r])] + Len(buffer[r]) = pos[r]
  BY DEF Flow
<1>2. Carries(m, off[Len(chan[r])], opened[r], Op[r])
  BY <1>1
<1>3. chan'[r] = Append(chan[r], m) /\ opened'[r] = opened[r] /\ got'[r] = got[r]
  <2>1. chan \in [Readers -> Seq(Messages)]
    BY DEF TypeInv, TransferTypes
  <2> QED BY <2>1 DEF Send
<1>4. PICK new \in Offsets(Append(chan[r], m), opened[r]) :
        /\ Delivers(new, Append(chan[r], m), Len(got[r]), opened[r], Op[r])
        /\ new[Len(Append(chan[r], m))] = off[Len(chan[r])] + Len(m.data)
  <2>1. opened[r] \in Seq(Word) /\ chan[r] \in Seq(Messages) /\ Len(got[r]) \in Nat
    BY ReaderTypes
  <2> DEFINE ch == chan[r]
             text == opened[r]
             lo == Len(got[r])
             op == Op[r]
  <2>2. /\ text \in Seq(Word) /\ ch \in Seq(Messages) /\ lo \in Nat /\ off \in Offsets(ch, text)
        /\ Delivers(off, ch, lo, text, op) /\ Carries(m, off[Len(ch)], text, op)
    BY <1>1, <1>2, <2>1
  <2> HIDE DEF ch, text, lo, op
  <2>3. \E new \in Offsets(Append(ch, m), text) :
          /\ Delivers(new, Append(ch, m), lo, text, op)
          /\ new[Len(Append(ch, m))] = off[Len(ch)] + Len(m.data)
    BY <2>2, DeliversAppend
  <2> QED BY <2>3 DEF ch, text, lo, op
<1> QED BY <1>1, <1>3, <1>4

\* Sending a message that carries what comes next keeps the transfer in order.
LEMMA SendKeeps ==
  ASSUME TypeInv, NEW r \in Readers, Flow(r), FirstFirst(r), Whole(r),
         NEW m \in Messages, NEW next \in {"chunks", "done"}, Send(r, m, next),
         UNCHANGED <<opened, link, receiver>>, pc[r] # "done",
         m.kind = "first" => pc[r] \in Opening,
         pc[r] \in Opening => m.kind \in {"first", "error"},
         next = "chunks" =>
           /\ Len(buffer'[r]) <= pos'[r] /\ pos'[r] <= Len(opened[r])
           /\ \A k \in 1 .. Len(buffer'[r]) :
                buffer'[r][k] = opened[r][pos'[r] - Len(buffer'[r]) + k],
         \A off \in Offsets(chan[r], opened[r]) :
           Delivers(off, chan[r], Len(got[r]), opened[r], Op[r]) /\
           (pc[r] = "chunks" => off[Len(chan[r])] + Len(buffer[r]) = pos[r])
             => /\ Carries(m, off[Len(chan[r])], opened[r], Op[r])
                /\ next = "chunks" =>
                     (off[Len(chan[r])] + Len(m.data)) + Len(buffer'[r]) = pos'[r]
  PROVE  Flow(r)' /\ FirstFirst(r)' /\ Whole(r)'
<1>1. /\ opened[r] \in Seq(Word) /\ got[r] \in Seq(Word) /\ chan[r] \in Seq(Messages)
      /\ Len(chan[r]) \in Nat /\ r \in Conns /\ pc[r] \in Opening \cup {"chunks"}
      /\ pc \in [Conns -> PCs] /\ chan \in [Readers -> Seq(Messages)]
  BY ReaderTypes, ReadersAreConns DEF TypeInv, Opened, Reading, Opening, LifetimeInv,
     LifetimeTypeOK, TransferTypes
<1>2. Whole(r)'
  BY DEF Whole
<1>3. CASE link[r] # "up"
  <2>1. pc'[r] \in {next, "done"} /\ chan'[r] = chan[r] /\ link'[r] # "up"
    BY <1>1, <1>3 DEF Send, Goto
  <2>2. Flow(r)'
    BY <2>1 DEF Flow, Opening
  <2>3. FirstFirst(r)'
    BY <2>1 DEF FirstFirst
  <2> QED BY <1>2, <2>2, <2>3
<1>4. CASE link[r] = "up"
  <2>1. pc'[r] = next /\ chan'[r] = Append(chan[r], m)
    BY <1>1, <1>4 DEF Send, Goto
  <2>2. /\ Len(chan'[r]) = Len(chan[r]) + 1 /\ chan'[r][Len(chan[r]) + 1] = m
        /\ \A i \in 1 .. Len(chan[r]) : chan'[r][i] = chan[r][i]
        /\ chan'[r] \in Seq(Messages) /\ chan'[r] # <<>>
    BY <1>1, <2>1, AppendProperties
  <2>3. Flow(r)'
    <3>1. ASSUME rcv'[r] \in Waiting
          PROVE  \E new \in Offsets(chan'[r], opened'[r]) :
                   /\ Delivers(new, chan'[r], Len(got'[r]), opened'[r], Op[r])
                   /\ next = "chunks" => new[Len(chan'[r])] + Len(buffer'[r]) = pos'[r]
      <4>1. \E off \in Offsets(chan[r], opened[r]), new \in Offsets(chan'[r], opened'[r]) :
              /\ Delivers(off, chan[r], Len(got[r]), opened[r], Op[r])
              /\ pc[r] = "chunks" => off[Len(chan[r])] + Len(buffer[r]) = pos[r]
              /\ Delivers(new, chan'[r], Len(got'[r]), opened'[r], Op[r])
              /\ new[Len(chan'[r])] = off[Len(chan[r])] + Len(m.data)
        BY <1>4, <3>1, SendDelivers
      <4> QED BY <4>1
    <3>2. Prefix(got'[r], opened'[r])
      BY DEF Flow
    <3> QED BY <2>1, <3>1, <3>2 DEF Flow, Opening
  <2>4. ASSUME NEW i \in 1 .. Len(chan'[r]), chan'[r][i].kind = "first"
        PROVE  i = 1 /\ rcv[r] # "more"
    <3>1. CASE i = Len(chan[r]) + 1
      <4>1. pc[r] \in Opening
        BY <2>2, <2>4, <3>1
      <4>2. chan[r] = <<>> /\ rcv[r] # "more"
        BY <4>1 DEF Flow
      <4>3. Len(chan[r]) = 0
        BY <4>2
      <4> QED BY <3>1, <4>2, <4>3
    <3>2. CASE i # Len(chan[r]) + 1
      <4>1. i \in 1 .. Len(chan[r])
        BY <1>1, <2>2, <3>2
      <4> QED BY <2>2, <2>4, <4>1 DEF FirstFirst
    <3> QED BY <3>1, <3>2
  <2>5. ASSUME rcv[r] = "first", Op[r] # "STREAM"
        PROVE  chan'[r][1].kind \in {"first", "error"}
    <3>1. CASE pc[r] \in Opening
      <4>1. chan[r] = <<>>
        BY <3>1 DEF Flow
      <4>2. Len(chan[r]) = 0
        BY <4>1
      <4> QED BY <2>2, <3>1, <4>2
    <3>2. CASE pc[r] = "chunks"
      <4>1. chan[r] # <<>> /\ chan[r][1].kind \in {"first", "error"}
        BY <1>4, <2>5, <3>2 DEF FirstFirst
      <4>2. 1 \in 1 .. Len(chan[r])
        BY <1>1, <4>1, EmptySeq
      <4> QED BY <2>2, <4>1, <4>2
    <3> QED BY <1>1, <3>1, <3>2
  <2>6. FirstFirst(r)'
    BY <2>2, <2>4, <2>5 DEF FirstFirst
  <2> QED BY <1>2, <2>3, <2>6
<1> QED BY <1>3, <1>4

\* A step of a sender keeps its transfer in order, as long as the open file keeps its text.
LEMMA SendKeepsWhole ==
  ASSUME TypeInv, Stable, NEW r \in Readers, Flow(r), FirstFirst(r), Whole(r), SendStep(r)
  PROVE  Flow(r)' /\ FirstFirst(r)' /\ Whole(r)'
<1>1. /\ opened[r] \in Seq(Word) /\ got[r] \in Seq(Word) /\ buffer[r] \in Seq(Word)
      /\ chan[r] \in Seq(Messages) /\ pos[r] \in Nat /\ size[r] \in Nat
      /\ Len(opened[r]) \in Nat /\ Len(got[r]) \in Nat /\ Len(buffer[r]) \in Nat
      /\ Len(chan[r]) \in Nat /\ r \in Conns
  BY ReaderTypes, ReadersAreConns
<1>2. /\ pc \in [Conns -> PCs] /\ buffer \in [Readers -> Seq(Word)]
      /\ pos \in [Readers -> Nat] /\ opened \in [Readers -> Seq(Word)]
      /\ content \in [Inodes -> Seq(Word)] /\ file \in Inodes \cup {NoFile}
  BY DEF TypeInv, LifetimeInv, LifetimeTypeOK, TransferTypes, TypeOK, Texts
<1>3. \A off \in Offsets(chan[r], opened[r]) : off[Len(chan[r])] \in 0 .. Len(opened[r])
  <2>1. Len(chan[r]) \in 0 .. Len(chan[r])
    BY <1>1
  <2> QED BY <2>1 DEF Offsets
<1>4. <<>> \in Seq(Word) /\ Len(<<>>) = 0
  OBVIOUS
<1>5. /\ Message("error", 0, <<>>) \in Messages /\ Message("stop", 0, <<>>) \in Messages
      /\ Message("error", 0, <<>>).kind = "error" /\ Message("stop", 0, <<>>).kind = "stop"
      /\ Message("error", 0, <<>>).data = <<>> /\ Message("stop", 0, <<>>).data = <<>>
  BY <1>4, MessageTypes DEF Message
<1>6. ASSUME Send(r, Message("error", 0, <<>>), "done"), pc[r] \in Opening,
             UNCHANGED <<opened, link, receiver>>
      PROVE  Flow(r)' /\ FirstFirst(r)' /\ Whole(r)'
  <2>1. \A off \in Offsets(chan[r], opened[r]) :
          Carries(Message("error", 0, <<>>), off[Len(chan[r])], opened[r], Op[r])
    BY <1>1, <1>3, <1>4, <1>5 DEF Carries
  <2>2. pc[r] # "done"
    BY <1>6 DEF Opening
  <2> QED BY <1>5, <1>6, <2>1, <2>2, SendKeeps
<1>7. CASE StartRead(r)
  <2>1. CASE known \/ Op[r] = "EXEC"
    <3>1. /\ pc[r] = "start" /\ pc'[r] = "open"
          /\ UNCHANGED <<chan, sender, link, receiver>>
      BY <1>1, <1>2, <1>7, <2>1 DEF StartRead, Goto
    <3>2. Flow(r)'
      BY <3>1 DEF Flow, Opening
    <3>3. FirstFirst(r)'
      BY <3>1 DEF FirstFirst
    <3>4. Whole(r)'
      BY <3>1 DEF Whole
    <3> QED BY <3>2, <3>3, <3>4
  <2>2. CASE ~(known \/ Op[r] = "EXEC")
    BY <1>6, <1>7, <2>2 DEF StartRead, Opening
  <2> QED BY <2>1, <2>2
<1>8. CASE OpenMissing(r)
  BY <1>6, <1>8 DEF OpenMissing, Opening
<1>9. CASE OpenFile(r)
  <2>1. /\ pc[r] = "open" /\ pc'[r] = (IF Op[r] = "STREAM" THEN "chunks" ELSE "first")
        /\ opened'[r] = content[file] /\ content[file] \in Seq(Word)
        /\ UNCHANGED <<pos, buffer, chan, link, receiver>>
    BY <1>1, <1>2, <1>9 DEF OpenFile, Goto
  <2>2. /\ chan[r] = <<>> /\ got[r] = <<>> /\ buffer[r] = <<>> /\ pos[r] = 0
        /\ rcv[r] \in {"first", "failed"}
    BY <2>1 DEF Flow, Opening
  <2>3. Len(opened'[r]) \in Nat /\ opened'[r] \in Seq(Word)
    BY <2>1, LenProperties
  <2>4. Flow(r)'
    <3>1. PICK off \in Offsets(<<>>, opened'[r]) :
            Delivers(off, <<>>, 0, opened'[r], Op[r]) /\ off[Len(<<>>)] = 0
      <4>1. 0 \in 0 .. Len(opened'[r])
        BY <2>3
      <4> QED BY <2>3, <4>1, DeliversNothing
    <3>2. Prefix(got'[r], opened'[r])
      BY <2>1, <2>2, <2>3 DEF Prefix
    <3> QED BY <2>1, <2>2, <2>3, <3>1, <3>2 DEF Flow, Opening
  <2>5. FirstFirst(r)'
    BY <2>1, <2>2 DEF FirstFirst
  <2>6. Whole(r)'
    BY <2>1, <2>2 DEF Whole
  <2> QED BY <2>4, <2>5, <2>6
<1>10. CASE SendFirst(r)
  <2>1. /\ pc[r] = "first" /\ pc[r] \in Reading /\ pc[r] \in Opening /\ pos[r] = 0
        /\ chan[r] = <<>> /\ got[r] = <<>> /\ buffer[r] = <<>> /\ size[r] = Len(opened[r])
        /\ UNCHANGED <<opened, link, receiver, pos, buffer>>
    BY <1>10 DEF SendFirst, Flow, Opening, Reading, Stable
  <2>2. /\ \A off \in Offsets(chan[r], opened[r]) :
             Delivers(off, chan[r], Len(got[r]), opened[r], Op[r]) => off[Len(chan[r])] = 0
    BY <1>4, <2>1 DEF Delivers
  <2>3. CASE Op[r] = "READ" /\ size[r] <= SmallFile
    <3> DEFINE data == Block(r, size[r])
               m == Message("first", size[r], data)
    <3>1. /\ Len(data) = Len(opened[r]) /\ data \in Seq(Word)
          /\ \A k \in 1 .. Len(data) : data[k] = opened[r][0 + k]
      BY <1>1, <2>1, BlockIsNext, BlockType
    <3>2. Send(r, m, "done")
      BY <1>10, <2>3 DEF SendFirst
    <3> HIDE DEF data
    <3>3. m \in Messages /\ m.kind = "first" /\ m.size = size[r] /\ m.data = data
      BY <1>1, <3>1, MessageTypes DEF Message
    <3> HIDE DEF m
    <3>4. Carries(m, 0, opened[r], Op[r])
      BY <1>1, <2>1, <3>1, <3>3 DEF Carries
    <3> QED BY <2>1, <2>2, <3>2, <3>3, <3>4, SendKeeps
  <2>4. CASE ~(Op[r] = "READ" /\ size[r] <= SmallFile)
    <3> DEFINE m == Message("first", size[r], <<>>)
    <3>1. Send(r, m, "chunks")
      BY <1>10, <2>4 DEF SendFirst
    <3>2. m \in Messages /\ m.kind = "first" /\ m.size = size[r] /\ m.data = <<>>
      BY <1>1, <1>4, MessageTypes DEF Message
    <3> HIDE DEF m
    <3>3. Carries(m, 0, opened[r], Op[r])
      BY <1>1, <1>4, <2>1, <2>4, <3>2 DEF Carries
    <3>4. /\ Len(buffer'[r]) <= pos'[r] /\ pos'[r] <= Len(opened[r])
          /\ \A k \in 1 .. Len(buffer'[r]) :
               buffer'[r][k] = opened[r][pos'[r] - Len(buffer'[r]) + k]
          /\ (0 + Len(m.data)) + Len(buffer'[r]) = pos'[r]
      BY <1>1, <1>4, <2>1, <3>2
    <3> QED BY <2>1, <2>2, <3>1, <3>2, <3>3, <3>4, SendKeeps
  <2> QED BY <2>3, <2>4
<1>11. CASE ReadBlock(r)
  <2> DEFINE b == Block(r, ChunkSize)
  <2>1. /\ pc[r] = "chunks" /\ pc[r] \in Reading /\ buffer[r] = <<>>
        /\ pos[r] <= Len(opened[r])
        /\ buffer'[r] = b /\ pos'[r] = pos[r] + Len(b)
        /\ UNCHANGED <<pc, opened, chan, link, receiver>>
    BY <1>1, <1>2, <1>11 DEF ReadBlock, Flow, Reading
  <2>2. /\ pos[r] + Len(b) <= Len(opened[r]) /\ Len(b) \in Nat
        /\ \A k \in 1 .. Len(b) : b[k] = opened[r][pos[r] + k]
    BY <2>1, BlockIsNext, BlockType
  <2> HIDE DEF b
  <2>3. Flow(r)'
    <3>1. /\ Len(buffer'[r]) <= pos'[r] /\ pos'[r] <= Len(opened'[r])
          /\ \A k \in 1 .. Len(buffer'[r]) :
               buffer'[r][k] = opened'[r][pos'[r] - Len(buffer'[r]) + k]
      <4>1. Len(buffer'[r]) <= pos'[r] /\ pos'[r] <= Len(opened'[r])
        BY <1>1, <2>1, <2>2
      <4>2. pos'[r] - Len(buffer'[r]) = pos[r]
        BY <1>1, <2>1, <2>2
      <4> QED BY <2>1, <2>2, <4>1, <4>2
    <3>2. ASSUME rcv[r] \in Waiting
          PROVE  \E off \in Offsets(chan[r], opened[r]) :
                   /\ Delivers(off, chan[r], Len(got[r]), opened[r], Op[r])
                   /\ link[r] = "up" => off[Len(chan[r])] + Len(b) = pos'[r]
      <4>1. PICK off \in Offsets(chan[r], opened[r]) :
              /\ Delivers(off, chan[r], Len(got[r]), opened[r], Op[r])
              /\ link[r] = "up" => off[Len(chan[r])] + Len(buffer[r]) = pos[r]
        BY <2>1, <3>2 DEF Flow
      <4>2. off[Len(chan[r])] \in Nat
        BY <1>1, <1>3
      <4>3. link[r] = "up" => off[Len(chan[r])] + Len(b) = pos'[r]
        BY <1>1, <1>4, <2>1, <2>2, <4>1, <4>2
      <4> QED BY <4>1, <4>3
    <3>3. Prefix(got'[r], opened'[r])
      BY <2>1 DEF Flow
    <3>4. pc'[r] = "chunks" /\ "chunks" \notin Opening
      BY <2>1 DEF Opening
    <3> QED BY <2>1, <3>1, <3>2, <3>3, <3>4 DEF Flow
  <2>4. FirstFirst(r)'
    BY <2>1 DEF FirstFirst
  <2>5. Whole(r)'
    BY <2>1 DEF Whole
  <2> QED BY <2>3, <2>4, <2>5
<1>12. CASE SendChunk(r)
  <2> DEFINE b == buffer[r]
             n == IF Op[r] = "STREAM" THEN 1 ELSE Len(b)
             data == SubSeq(b, 1, n)
             rest == SubSeq(b, n + 1, Len(b))
             m == Message("chunk", n, data)
  <2>1. /\ pc[r] = "chunks" /\ b # <<>> /\ Send(r, m, "chunks") /\ buffer'[r] = rest
        /\ UNCHANGED <<pos, opened, link, receiver>> /\ pc[r] \notin Opening
    BY <1>1, <1>2, <1>12 DEF SendChunk, Opening
  <2>2. /\ Len(b) <= pos[r] /\ pos[r] <= Len(opened[r]) /\ Len(b) \in Nat \ {0}
        /\ \A k \in 1 .. Len(b) : b[k] = opened[r][(pos[r] - Len(b)) + k]
    BY <1>1, <2>1, EmptySeq DEF Flow
  <2>3. n \in Nat /\ n <= Len(b) /\ b \in Seq(Word)
    BY <1>1, <2>2
  <2> HIDE DEF b, n
  <2>4. /\ data \in Seq(Word) /\ Len(data) = n /\ \A k \in 1 .. n : data[k] = b[k]
        /\ Len(rest) = Len(b) - n /\ \A k \in 1 .. Len(b) - n : rest[k] = b[n + k]
    <3>1. /\ \A i \in 1 .. n : b[i] \in Word
          /\ \A i \in n + 1 .. Len(b) : b[i] \in Word
      BY <2>2, <2>3
    <3>2. data \in Seq(Word) /\ Len(data) = n /\ \A k \in 1 .. n : data[k] = b[k]
      BY <2>2, <2>3, <3>1, SubSeqProperties
    <3>3. /\ Len(rest) = Len(b) - n
          /\ \A k \in 1 .. Len(b) - (n + 1) + 1 : rest[k] = b[(n + 1) + k - 1]
      BY <2>2, <2>3, <3>1, SubSeqProperties
    <3>4. \A k \in 1 .. Len(b) - n : rest[k] = b[n + k]
      <4> SUFFICES ASSUME NEW k \in 1 .. Len(b) - n PROVE rest[k] = b[n + k]
        OBVIOUS
      <4> HIDE DEF rest
      <4>1. k \in 1 .. Len(b) - (n + 1) + 1 /\ (n + 1) + k - 1 = n + k
        BY <2>2, <2>3
      <4> QED BY <3>3, <4>1
    <3> QED BY <3>2, <3>3, <3>4
  <2> HIDE DEF data, rest
  <2>5. m \in Messages /\ m.kind = "chunk" /\ m.data = data
    BY <2>3, <2>4, MessageTypes DEF Message
  <2> HIDE DEF m
  <2>6. /\ Len(rest) <= pos[r]
        /\ \A k \in 1 .. Len(rest) : rest[k] = opened[r][pos[r] - Len(rest) + k]
    <3>1. Len(rest) \in Nat /\ Len(rest) <= pos[r] /\ pos[r] - Len(rest) = (pos[r] - Len(b)) + n
      BY <1>1, <2>2, <2>3, <2>4
    <3>2. ASSUME NEW k \in 1 .. Len(rest)
          PROVE  rest[k] = opened[r][pos[r] - Len(rest) + k]
      <4>1. n + k \in 1 .. Len(b) /\ pos[r] - Len(rest) + k = (pos[r] - Len(b)) + (n + k)
        BY <1>1, <2>2, <2>3, <2>4, <3>1
      <4> QED BY <2>2, <2>4, <4>1
    <3> QED BY <3>1, <3>2
  <2>7. ASSUME NEW off \in Offsets(chan[r], opened[r]), off[Len(chan[r])] + Len(b) = pos[r]
        PROVE  /\ Carries(m, off[Len(chan[r])], opened[r], Op[r])
               /\ (off[Len(chan[r])] + Len(m.data)) + Len(rest) = pos[r]
    <3> DEFINE lo == off[Len(chan[r])]
    <3>1. lo \in Nat /\ lo = pos[r] - Len(b)
      BY <1>1, <1>3, <2>2, <2>7
    <3> HIDE DEF lo
    <3>2. lo + Len(data) <= Len(opened[r]) /\ (lo + Len(data)) + Len(rest) = pos[r]
      <4>1. Len(data) = n /\ Len(rest) = Len(b) - n
        BY <2>4
      <4>2. /\ Len(b) \in Nat /\ n \in Nat /\ n <= Len(b) /\ pos[r] \in Nat
            /\ Len(opened[r]) \in Nat /\ pos[r] <= Len(opened[r])
        BY <1>1, <2>2, <2>3
      <4>3. PICK j, k, l, p : j = Len(data) /\ k = Len(rest) /\ l = Len(b) /\ p = pos[r]
        OBVIOUS
      <4>4. /\ j = n /\ k = l - n /\ lo = p - l /\ lo \in Nat
            /\ l \in Nat /\ n \in Nat /\ n <= l /\ p \in Nat
            /\ Len(opened[r]) \in Nat /\ p <= Len(opened[r])
        BY <3>1, <4>1, <4>2, <4>3
      <4>5. lo + j <= Len(opened[r]) /\ (lo + j) + k = p
        BY ONLY <4>4
      <4> QED BY <4>3, <4>5
    <3>3. \A k \in 1 .. Len(data) : data[k] = opened[r][lo + k]
      <4> SUFFICES ASSUME NEW k \in 1 .. Len(data) PROVE data[k] = opened[r][lo + k]
        OBVIOUS
      <4>1. k \in 1 .. n /\ k \in 1 .. Len(b)
        BY <2>2, <2>3, <2>4
      <4> QED BY <2>2, <2>4, <3>1, <4>1
    <3>4. Carries(m, lo, opened[r], Op[r])
      BY <2>5, <3>2, <3>3 DEF Carries
    <3> QED BY <2>5, <3>2, <3>4 DEF lo
  <2>8. pc[r] # "done" /\ pos'[r] = pos[r]
    BY <2>1
  <2>9. /\ \A off \in Offsets(chan[r], opened[r]) :
             off[Len(chan[r])] + Len(buffer[r]) = pos[r]
               => /\ Carries(m, off[Len(chan[r])], opened[r], Op[r])
                  /\ (off[Len(chan[r])] + Len(m.data)) + Len(buffer'[r]) = pos'[r]
    BY <2>1, <2>7, <2>8 DEF b
  <2> QED BY <2>1, <2>2, <2>5, <2>6, <2>8, <2>9, SendKeeps
<1>13. CASE SendStop(r)
  <2>1. /\ pc[r] = "chunks" /\ pc[r] \in Reading /\ pc[r] \notin Opening /\ buffer[r] = <<>>
        /\ Block(r, ChunkSize) = <<>> /\ Send(r, Message("stop", 0, <<>>), "done")
        /\ UNCHANGED <<opened, link, receiver>> /\ pos[r] <= Len(opened[r])
    BY <1>13 DEF SendStop, Flow, Reading, Opening
  <2>2. pos[r] = Len(opened[r])
    BY <2>1, BlockIsNext
  <2>3. \A off \in Offsets(chan[r], opened[r]) :
          off[Len(chan[r])] + Len(buffer[r]) = pos[r]
            => Carries(Message("stop", 0, <<>>), off[Len(chan[r])], opened[r], Op[r])
    BY <1>1, <1>3, <1>4, <1>5, <2>1, <2>2 DEF Carries
  <2> QED BY <1>5, <2>1, <2>3, SendKeeps
<1> QED BY <1>7, <1>8, <1>9, <1>10, <1>11, <1>12, <1>13 DEF SendStep

\* A message arrives: the rest of the connection carries the rest of the text.
LEMMA ArrivalDelivers ==
  ASSUME TypeInv, NEW r \in Readers, Flow(r), FirstFirst(r), NEW kind, Arrives(r, kind),
         UNCHANGED <<pc, pos, buffer, opened, link>>
  PROVE  LET m == chan[r][1] IN
         /\ Head(chan[r]) = m /\ m \in Messages /\ m.kind = kind
         /\ pc[r] \notin Opening
         /\ Carries(m, Len(got[r]), opened[r], Op[r])
         /\ \A i \in 1 .. Len(chan'[r]) : chan'[r][i].kind # "first"
         /\ kind = "first" => rcv[r] = "first"
         /\ rcv[r] = "first" /\ Op[r] # "STREAM" => kind \in {"first", "error"}
         /\ \E off \in Offsets(chan'[r], opened'[r]) :
              /\ Delivers(off, chan'[r], Len(got[r]) + Len(m.data), opened'[r], Op[r])
              /\ link'[r] = "up" /\ pc'[r] = "chunks" =>
                   off[Len(chan'[r])] + Len(buffer'[r]) = pos'[r]
<1> DEFINE m == chan[r][1]
           ch == chan[r]
           text == opened[r]
           lo == Len(got[r])
           op == Op[r]
<1>1. Head(chan[r]) = m /\ m \in Messages /\ m.kind = kind
  BY ArrivalTypes
<1>2. /\ ch \in Seq(Messages) /\ ch # <<>> /\ text \in Seq(Word) /\ lo \in Nat
      /\ rcv[r] \in Waiting /\ Len(ch) \in Nat
  BY ReaderTypes DEF Arrives
<1>3. chan'[r] = Tail(ch)
  <2>1. chan \in [Readers -> Seq(Messages)]
    BY DEF TypeInv, TransferTypes
  <2> QED BY <2>1 DEF Arrives
<1>4. PICK off \in Offsets(ch, text) :
        /\ Delivers(off, ch, lo, text, op)
        /\ link[r] = "up" /\ pc[r] = "chunks" => off[Len(ch)] + Len(buffer[r]) = pos[r]
  BY <1>2 DEF Flow
<1>5. pc[r] \notin Opening
  BY <1>2 DEF Flow
<1>6. 1 \in 1 .. Len(ch)
  BY <1>2, EmptySeq
<1>7. /\ kind = "first" => rcv[r] = "first"
      /\ rcv[r] = "first" /\ Op[r] # "STREAM" => kind \in {"first", "error"}
  BY <1>1, <1>2, <1>6 DEF FirstFirst, Waiting
<1>8. ASSUME NEW i \in 1 .. Len(chan'[r]) PROVE chan'[r][i].kind # "first"
  <2>1. i + 1 \in 1 .. Len(ch) /\ chan'[r][i] = ch[i + 1] /\ i + 1 # 1
    BY <1>2, <1>3, HeadTailProperties, EmptySeq
  <2> QED BY <2>1 DEF FirstFirst
<1> HIDE DEF ch, text, lo, op
<1>9. /\ Carries(ch[1], lo, text, op)
      /\ \E new \in Offsets(Tail(ch), text) :
           /\ Delivers(new, Tail(ch), lo + Len(ch[1].data), text, op)
           /\ new[Len(Tail(ch))] = off[Len(ch)]
  BY <1>2, <1>4, DeliversTail
<1>10. \E new \in Offsets(chan'[r], opened'[r]) :
         /\ Delivers(new, chan'[r], Len(got[r]) + Len(m.data), opened'[r], Op[r])
         /\ link'[r] = "up" /\ pc'[r] = "chunks" => new[Len(chan'[r])] + Len(buffer'[r]) = pos'[r]
  <2>1. PICK new \in Offsets(Tail(ch), text) :
          /\ Delivers(new, Tail(ch), lo + Len(ch[1].data), text, op)
          /\ new[Len(Tail(ch))] = off[Len(ch)]
    BY <1>9
  <2>2. link'[r] = "up" /\ pc'[r] = "chunks" => new[Len(chan'[r])] + Len(buffer'[r]) = pos'[r]
    BY <1>3, <1>4, <2>1
  <2> QED BY <1>3, <2>1, <2>2 DEF ch, text, lo, op
<1> QED BY <1>1, <1>5, <1>7, <1>8, <1>9, <1>10 DEF ch, text, lo, op

\* A step of a receiver, or a break, keeps the transfer in order.
LEMMA ReceiveKeepsWhole ==
  ASSUME TypeInv, ScriptTypes, NEW r \in Readers, Flow(r), FirstFirst(r), Whole(r),
         ReceiveStep(r) \/ Break(r)
  PROVE  Flow(r)' /\ FirstFirst(r)' /\ Whole(r)'
<1>1. /\ opened[r] \in Seq(Word) /\ got[r] \in Seq(Word) /\ buffer[r] \in Seq(Word)
      /\ chan[r] \in Seq(Messages) /\ Len(opened[r]) \in Nat /\ Len(got[r]) \in Nat
      /\ Len(chan[r]) \in Nat
  BY ReaderTypes
<1>2. /\ announced \in [Readers -> Nat] /\ link \in [Readers -> Links]
      /\ rcv \in [Readers -> Waiting \cup Final \cup {"script", "run", "unlink"}]
      /\ chan \in [Readers -> Seq(Messages)] /\ got \in [Readers -> Seq(Word)]
      /\ ran \in [Readers -> Seq(Word) \cup {NoScript}]
      /\ scripts \in [{ScriptOf[c] : c \in Readers} -> Seq(Word) \cup {NoScript}]
  BY DEF TypeInv, TypeOK, TransferTypes, ScriptTypes
<1>3. UNCHANGED <<pc, pos, buffer, opened>>
  BY DEF ReceiveStep, Break, ReceiveError, ReceiveFirst, ReceiveChunk, ReceiveStop,
     ConnectionLost, WriteScript, ScriptFails, RunScript, RunFails, UnlinkScript
<1>4. CASE ReceiveError(r)
  <2>1. /\ Arrives(r, "error") /\ rcv'[r] = "refused" /\ rcv[r] \in Waiting
        /\ UNCHANGED <<got, link, announced, ran, scripts>>
    BY <1>2, <1>4 DEF ReceiveError, ReceiverAt, Arrives
  <2>2. pc[r] \notin Opening /\ \A i \in 1 .. Len(chan'[r]) : chan'[r][i].kind # "first"
    BY <1>3, <2>1, ArrivalDelivers
  <2>3. Flow(r)'
    BY <1>3, <2>1, <2>2 DEF Flow, Waiting
  <2>4. FirstFirst(r)'
    BY <1>3, <2>1, <2>2 DEF FirstFirst
  <2>5. Whole(r)'
    BY <1>3, <2>1 DEF Whole, Waiting
  <2> QED BY <2>3, <2>4, <2>5
<1>5. CASE ReceiveFirst(r)
  <2> DEFINE m == chan[r][1]
  <2>1. Arrives(r, "first") /\ UNCHANGED link
    BY <1>5 DEF ReceiveFirst
  <2>2. /\ Head(chan[r]) = m /\ m \in Messages /\ m.kind = "first" /\ pc[r] \notin Opening
        /\ Carries(m, Len(got[r]), opened[r], Op[r]) /\ rcv[r] = "first"
        /\ \A i \in 1 .. Len(chan'[r]) : chan'[r][i].kind # "first"
    BY <1>3, <2>1, ArrivalDelivers
  <2>3. \E off \in Offsets(chan'[r], opened'[r]) :
          /\ Delivers(off, chan'[r], Len(got[r]) + Len(m.data), opened'[r], Op[r])
          /\ link'[r] = "up" /\ pc'[r] = "chunks" => off[Len(chan'[r])] + Len(buffer'[r]) = pos'[r]
    BY <1>3, <2>1, ArrivalDelivers
  <2>4. /\ announced'[r] = m.size /\ got'[r] = m.data /\ UNCHANGED <<scripts, ran>>
        /\ rcv'[r] = (IF Op[r] = "READ"
                      THEN IF m.size <= SmallFile THEN "complete" ELSE "more"
                      ELSE IF m.size = 0 THEN "script" ELSE "more")
    BY <1>2, <1>5, <2>2 DEF ReceiveFirst, ReceiverAt
  <2> HIDE DEF m
  <2>5. m.data \in Seq(Word) /\ m.size \in Nat /\ Len(m.data) \in Nat
    <3>1. m.data \in Seq(Word) /\ m.size \in Nat
      BY <2>2 DEF Messages
    <3> QED BY <3>1, LenProperties
  <2>6. got[r] = <<>> /\ Len(got[r]) = 0
    <3>1. got[r] = <<>>
      BY <2>2 DEF FirstFirst
    <3> QED BY <3>1
  <2>7. /\ m.size = Len(opened[r]) /\ Len(m.data) <= Len(opened[r])
        /\ Op[r] = "READ" /\ Len(opened[r]) <= SmallFile => Len(m.data) = Len(opened[r])
        /\ \A k \in 1 .. Len(m.data) : m.data[k] = opened[r][k]
    BY <1>1, <2>2, <2>5, <2>6 DEF Carries
  <2>8. Prefix(got'[r], opened'[r])
    BY <1>3, <2>4, <2>7 DEF Prefix
  <2>9. rcv'[r] \in {"complete", "script"} => got'[r] = opened'[r]
    <3>1. rcv'[r] \in {"complete", "script"} => Len(m.data) = Len(opened[r])
      BY <1>1, <2>4, <2>5, <2>7
    <3> QED BY <1>1, <1>3, <2>4, <2>5, <2>8, <3>1, PrefixWhole
  <2>10. rcv'[r] \in {"complete", "script", "more"}
    BY <2>4
  <2>11. ran[r] = NoScript
    BY <2>2 DEF Whole
  <2>12. Len(got'[r]) = Len(got[r]) + Len(m.data)
    BY <2>4, <2>5, <2>6
  <2>13. Flow(r)'
    BY <1>3, <2>2, <2>3, <2>8, <2>12 DEF Flow
  <2>14. FirstFirst(r)'
    BY <1>3, <2>2, <2>4, <2>7, <2>10 DEF FirstFirst
  <2>15. Whole(r)'
    BY <2>4, <2>9, <2>10, <2>11 DEF Whole
  <2> QED BY <2>13, <2>14, <2>15
<1>6. CASE ReceiveChunk(r)
  <2> DEFINE m == chan[r][1]
  <2>1. Arrives(r, "chunk") /\ UNCHANGED link /\ rcv[r] \in Waiting
    BY <1>6 DEF ReceiveChunk, Arrives
  <2>2. /\ Head(chan[r]) = m /\ m \in Messages /\ m.kind = "chunk" /\ pc[r] \notin Opening
        /\ Carries(m, Len(got[r]), opened[r], Op[r])
        /\ rcv[r] = "first" => Op[r] = "STREAM"
        /\ \A i \in 1 .. Len(chan'[r]) : chan'[r][i].kind # "first"
    <3>1. /\ Head(chan[r]) = m /\ m \in Messages /\ m.kind = "chunk" /\ pc[r] \notin Opening
          /\ Carries(m, Len(got[r]), opened[r], Op[r])
          /\ rcv[r] = "first" /\ Op[r] # "STREAM" => "chunk" \in {"first", "error"}
          /\ \A i \in 1 .. Len(chan'[r]) : chan'[r][i].kind # "first"
      BY <1>3, <2>1, ArrivalDelivers
    <3>2. "chunk" \notin {"first", "error"}
      OBVIOUS
    <3> QED BY <3>1, <3>2
  <2>3. \E off \in Offsets(chan'[r], opened'[r]) :
          /\ Delivers(off, chan'[r], Len(got[r]) + Len(m.data), opened'[r], Op[r])
          /\ link'[r] = "up" /\ pc'[r] = "chunks" => off[Len(chan'[r])] + Len(buffer'[r]) = pos'[r]
    BY <1>3, <2>1, ArrivalDelivers
  <2>4. /\ got'[r] = got[r] \o m.data /\ UNCHANGED <<announced, scripts, ran>>
        /\ rcv'[r] = (IF Op[r] = "EXEC" /\ Len(got'[r]) >= announced[r] THEN "script" ELSE "more")
    BY <1>2, <1>6, <2>2 DEF ReceiveChunk, ReceiverAt
  <2> HIDE DEF m
  <2>5. m.data \in Seq(Word) /\ Len(m.data) \in Nat
    <3>1. m.data \in Seq(Word)
      BY <2>2 DEF Messages
    <3> QED BY <3>1, LenProperties
  <2>6. /\ Prefix(got'[r], opened'[r]) /\ Len(got'[r]) = Len(got[r]) + Len(m.data)
        /\ got'[r] \in Seq(Word)
    <3>1. /\ Len(got[r]) + Len(m.data) <= Len(opened[r])
          /\ \A k \in 1 .. Len(m.data) : m.data[k] = opened[r][Len(got[r]) + k]
      BY <2>2 DEF Carries
    <3>2. Prefix(got[r], opened[r])
      BY DEF Flow
    <3>3. got'[r] \in Seq(Word)
      BY <1>1, <2>4, <2>5, ConcatProperties
    <3>4. Prefix(got[r] \o m.data, opened[r]) /\ Len(got[r] \o m.data) = Len(got[r]) + Len(m.data)
      <4> DEFINE s == got[r]
                 t == m.data
                 text == opened[r]
      <4>1. /\ text \in Seq(Word) /\ s \in Seq(Word) /\ t \in Seq(Word) /\ Prefix(s, text)
            /\ Len(s) + Len(t) <= Len(text) /\ \A k \in 1 .. Len(t) : t[k] = text[Len(s) + k]
        BY <1>1, <2>5, <3>1, <3>2
      <4> HIDE DEF s, t, text
      <4>2. Prefix(s \o t, text) /\ Len(s \o t) = Len(s) + Len(t)
        BY <4>1, PrefixGrows
      <4> QED BY <4>2 DEF s, t, text
    <3>5. opened'[r] = opened[r] /\ got'[r] = got[r] \o m.data
      BY <1>3, <2>4
    <3> QED BY <3>3, <3>4, <3>5
  <2>7. Op[r] # "STREAM" => announced[r] = Len(opened[r])
    BY <2>1, <2>2 DEF FirstFirst, Waiting
  <2>8. rcv'[r] = "script" => got'[r] = opened'[r]
    <3>1. rcv'[r] = "script" => Len(got'[r]) >= Len(opened[r])
      BY <2>4, <2>7
    <3>2. opened'[r] = opened[r]
      BY <1>3
    <3>3. Len(got'[r]) <= Len(opened[r])
      BY <2>6, <3>2 DEF Prefix
    <3>4. Len(got'[r]) \in Nat
      BY <2>6, LenProperties
    <3>5. rcv'[r] = "script" => Len(got'[r]) = Len(opened[r])
      BY <1>1, <3>1, <3>3, <3>4
    <3> QED BY <1>1, <2>6, <3>2, <3>5, PrefixWhole
  <2>9. rcv'[r] \in {"script", "more"}
    BY <2>4
  <2>10. ran[r] = NoScript
    BY <2>1 DEF Whole, Waiting
  <2>11. Flow(r)'
    BY <1>3, <2>2, <2>3, <2>6 DEF Flow
  <2>12. FirstFirst(r)'
    BY <1>3, <2>2, <2>4, <2>7, <2>9 DEF FirstFirst
  <2>13. Whole(r)'
    BY <2>4, <2>8, <2>9, <2>10 DEF Whole
  <2> QED BY <2>11, <2>12, <2>13
<1>7. CASE ReceiveStop(r)
  <2>1. /\ Arrives(r, "stop") /\ rcv'[r] \in {"script", "complete"} /\ rcv[r] \in Waiting
        /\ UNCHANGED <<got, link, announced, ran, scripts>>
    BY <1>2, <1>7 DEF ReceiveStop, ReceiverAt, Arrives
  <2>2. /\ pc[r] \notin Opening /\ \A i \in 1 .. Len(chan'[r]) : chan'[r][i].kind # "first"
        /\ chan[r][1].kind = "stop" /\ Carries(chan[r][1], Len(got[r]), opened[r], Op[r])
    BY <1>3, <2>1, ArrivalDelivers
  <2>3. got[r] = opened[r]
    <3>1. Len(got[r]) = Len(opened[r]) /\ Prefix(got[r], opened[r])
      BY <2>2 DEF Carries, Flow
    <3> QED BY <1>1, <3>1, PrefixWhole
  <2>4. Flow(r)'
    BY <1>3, <2>1, <2>2 DEF Flow, Waiting
  <2>5. FirstFirst(r)'
    BY <1>3, <2>1, <2>2 DEF FirstFirst
  <2>6. Whole(r)'
    BY <1>3, <2>1, <2>3 DEF Whole, Waiting
  <2> QED BY <2>4, <2>5, <2>6
<1>8. CASE ConnectionLost(r)
  <2>1. /\ rcv'[r] = "failed" /\ rcv[r] \in Waiting
        /\ UNCHANGED <<chan, got, link, announced, ran, scripts>>
    BY <1>2, <1>8 DEF ConnectionLost, ReceiverAt
  <2>2. Flow(r)'
    BY <1>3, <2>1 DEF Flow, Waiting
  <2>3. FirstFirst(r)'
    BY <1>3, <2>1 DEF FirstFirst
  <2>4. Whole(r)'
    BY <1>3, <2>1 DEF Whole, Waiting
  <2> QED BY <2>2, <2>3, <2>4
<1>9. CASE WriteScript(r)
  <2>1. /\ rcv[r] = "script" /\ rcv'[r] = "run" /\ scripts'[ScriptOf[r]] = got[r]
        /\ UNCHANGED <<chan, got, link, announced, ran>>
    BY <1>2, <1>9 DEF WriteScript, ReceiverAt
  <2>2. Flow(r)'
    BY <1>3, <2>1 DEF Flow, Waiting
  <2>3. FirstFirst(r)'
    BY <1>3, <2>1 DEF FirstFirst
  <2>4. Whole(r)'
    BY <1>3, <2>1 DEF Whole
  <2> QED BY <2>2, <2>3, <2>4
<1>10. CASE RunScript(r)
  <2>1. /\ rcv[r] = "run" /\ rcv'[r] = "unlink" /\ ran'[r] = scripts[ScriptOf[r]]
        /\ UNCHANGED <<chan, got, link, announced, scripts>>
    BY <1>2, <1>10 DEF RunScript, ReceiverAt
  <2>2. Flow(r)'
    BY <1>3, <2>1 DEF Flow, Waiting
  <2>3. FirstFirst(r)'
    BY <1>3, <2>1 DEF FirstFirst
  <2>4. Whole(r)'
    BY <1>3, <2>1 DEF Whole
  <2> QED BY <2>2, <2>3, <2>4
<1>11. CASE UnlinkScript(r)
  <2>1. /\ rcv[r] = "unlink" /\ rcv'[r] = "ran"
        /\ UNCHANGED <<chan, got, link, announced, ran>>
    BY <1>2, <1>11 DEF UnlinkScript, ReceiverAt
  <2>2. Flow(r)'
    BY <1>3, <2>1 DEF Flow, Waiting
  <2>3. FirstFirst(r)'
    BY <1>3, <2>1 DEF FirstFirst
  <2>4. Whole(r)'
    BY <1>3, <2>1 DEF Whole
  <2> QED BY <2>2, <2>3, <2>4
<1>12. CASE Break(r)
  <2>1. PICK n \in 0 .. Len(chan[r]) : chan' = [chan EXCEPT ![r] = SubSeq(chan[r], 1, n)]
    BY <1>12 DEF Break
  <2>2. /\ chan'[r] = SubSeq(chan[r], 1, n) /\ link'[r] # "up"
        /\ UNCHANGED <<rcv, got, announced, ran, scripts>>
    BY <1>2, <1>12, <2>1 DEF Break
  <2>3. Len(chan'[r]) = n /\ \A i \in 1 .. n : chan'[r][i] = chan[r][i] /\ i \in 1 .. Len(chan[r])
    BY <1>1, <2>2
  <2>4. Flow(r)'
    <3>1. pc[r] \in Opening => chan'[r] = <<>>
      BY <1>1, <2>2 DEF Flow
    <3>2. ASSUME rcv[r] \in Waiting
          PROVE  \E new \in Offsets(chan'[r], opened[r]) :
                   Delivers(new, chan'[r], Len(got[r]), opened[r], Op[r])
      <4> DEFINE ch == chan[r]
                 text == opened[r]
                 lo == Len(got[r])
                 op == Op[r]
      <4>1. PICK off \in Offsets(ch, text) : Delivers(off, ch, lo, text, op)
        BY <3>2 DEF Flow
      <4>2. ch \in Seq(Messages) /\ text \in Seq(Word) /\ lo \in Nat /\ n \in 0 .. Len(ch)
        BY <1>1, <2>1
      <4> HIDE DEF ch, text, lo, op
      <4>3. \E new \in Offsets(SubSeq(ch, 1, n), text) :
              Delivers(new, SubSeq(ch, 1, n), lo, text, op)
        BY <4>1, <4>2, DeliversFront
      <4> QED BY <2>2, <4>3 DEF ch, text, lo, op
    <3> QED BY <1>3, <2>2, <3>1, <3>2 DEF Flow
  <2>5. FirstFirst(r)'
    <3>1. chan'[r] # <<>> => chan[r] # <<>> /\ chan'[r][1] = chan[r][1]
      <4>1. SUFFICES ASSUME chan'[r] # <<>>
                     PROVE  chan[r] # <<>> /\ chan'[r][1] = chan[r][1]
        OBVIOUS
      <4>2. chan'[r] \in Seq(Messages)
        BY <2>1, ReceivePreservesTypes DEF TypeInv, TransferTypes
      <4>3. n >= 1
        BY <1>1, <2>3, <4>1, <4>2, EmptySeq
      <4> QED BY <1>1, <2>3, <4>3, EmptySeq
    <3> QED BY <1>3, <2>2, <2>3, <3>1 DEF FirstFirst
  <2>6. Whole(r)'
    BY <1>3, <2>2 DEF Whole
  <2> QED BY <2>4, <2>5, <2>6
<1>13. CASE ScriptFails(r) \/ RunFails(r)
  <2>1. /\ rcv[r] \in {"script", "run"} /\ rcv'[r] = "failed"
        /\ UNCHANGED <<chan, got, link, announced, ran>>
    BY <1>2, <1>13 DEF ScriptFails, RunFails, ReceiverAt
  <2>2. Flow(r)'
    BY <1>3, <2>1 DEF Flow, Waiting
  <2>3. FirstFirst(r)'
    BY <1>3, <2>1 DEF FirstFirst
  <2>4. Whole(r)'
    BY <1>3, <2>1 DEF Whole
  <2> QED BY <2>2, <2>3, <2>4
<1> QED
  BY <1>4, <1>5, <1>6, <1>7, <1>8, <1>9, <1>10, <1>11, <1>12, <1>13 DEF ReceiveStep

LEMMA InitWhole == TransferInit => WholeInv
<1> SUFFICES ASSUME TransferInit PROVE WholeInv
  OBVIOUS
<1>1. ScriptTypes
  BY DEF TransferInit, ScriptTypes
<1>2. ASSUME NEW r \in Readers
      PROVE  Flow(r) /\ FirstFirst(r) /\ Whole(r)
  <2>1. /\ pos[r] = 0 /\ buffer[r] = <<>> /\ chan[r] = <<>> /\ link[r] = "up"
        /\ got[r] = <<>> /\ ran[r] = NoScript /\ opened[r] = <<>> /\ Len(<<>>) = 0
        /\ rcv[r] = (IF pc[r] = "start" THEN "first" ELSE "refused")
        /\ pc[r] \in {"start", "done"} /\ <<>> \in Seq(Word)
    BY ReadersAreConns DEF TransferInit, Init
  <2>2. Prefix(<<>>, <<>>)
    BY DEF Prefix
  <2>3. Flow(r)
    <3>1. 0 \in 0 .. Len(<<>>)
      OBVIOUS
    <3>2. \E off \in Offsets(<<>>, <<>>) :
            Delivers(off, <<>>, 0, <<>>, Op[r]) /\ off[Len(<<>>)] = 0
      <4>1. PICK text \in Seq(Word) : text = <<>>
        BY <2>1
      <4>2. 0 \in 0 .. Len(text)
        BY <4>1
      <4> QED BY <4>1, <4>2, DeliversNothing
    <3> QED BY <2>1, <2>2, <3>2 DEF Flow, Opening
  <2>4. FirstFirst(r) /\ Whole(r)
    BY <2>1 DEF FirstFirst, Whole
  <2> QED BY <2>3, <2>4
<1> QED BY <1>1, <1>2 DEF WholeInv

\* A step of a reader leaves the transfers of the others alone; their scripts too, as each
\* EXEC has a temporary file of its own.
LEMMA OtherReaders ==
  ASSUME ScriptsApart, TypeInv, ScriptTypes, NEW r \in Readers,
         SendStep(r) \/ ReceiveStep(r) \/ Break(r), NEW d \in Readers \ {r},
         Flow(d), FirstFirst(d), Whole(d)
  PROVE  Flow(d)' /\ FirstFirst(d)' /\ Whole(d)'
<1>1. /\ pos \in [Readers -> Nat] /\ buffer \in [Readers -> Seq(Word)]
      /\ opened \in [Readers -> Seq(Word)]
      /\ announced \in [Readers -> Nat] /\ link \in [Readers -> Links]
      /\ rcv \in [Readers -> Waiting \cup Final \cup {"script", "run", "unlink"}]
      /\ chan \in [Readers -> Seq(Messages)] /\ got \in [Readers -> Seq(Word)]
      /\ ran \in [Readers -> Seq(Word) \cup {NoScript}]
      /\ scripts \in [{ScriptOf[c] : c \in Readers} -> Seq(Word) \cup {NoScript}]
      /\ pc \in [Conns -> PCs] /\ d \in Conns /\ d # r /\ ScriptOf[d] # ScriptOf[r]
  BY ReadersAreConns DEF TypeInv, TypeOK, TransferTypes, ScriptTypes, ScriptsApart,
     LifetimeInv, LifetimeTypeOK
<1>2. /\ pc'[d] = pc[d] /\ pos'[d] = pos[d] /\ buffer'[d] = buffer[d]
      /\ opened'[d] = opened[d] /\ chan'[d] = chan[d] /\ link'[d] = link[d] /\ rcv'[d] = rcv[d]
      /\ announced'[d] = announced[d] /\ got'[d] = got[d] /\ ran'[d] = ran[d]
      /\ scripts'[ScriptOf[d]] = scripts[ScriptOf[d]]
  <2>1. CASE SendStep(r)
    <3>1. pc'[d] = pc[d] /\ opened'[d] = opened[d] /\ UNCHANGED <<link, receiver>>
      BY <1>1, <2>1, SenderMoves DEF SendStep, StartRead, OpenMissing, OpenFile, SendFirst,
         ReadBlock, SendChunk, SendStop
    <3>2. pos'[d] = pos[d] /\ buffer'[d] = buffer[d]
      BY <1>1, <2>1 DEF SendStep, StartRead, OpenMissing, OpenFile, SendFirst,
         ReadBlock, SendChunk, SendStop
    <3>3. ASSUME NEW m, NEW next, Send(r, m, next)
          PROVE  chan'[d] = chan[d]
      BY <1>1, <3>3 DEF Send
    <3>4. chan'[d] = chan[d]
      <4>1. CASE StartRead(r)
        BY <3>3, <4>1 DEF StartRead
      <4>2. CASE OpenMissing(r)
        BY <3>3, <4>2 DEF OpenMissing
      <4>3. CASE OpenFile(r) \/ ReadBlock(r)
        BY <4>3 DEF OpenFile, ReadBlock
      <4>4. CASE SendFirst(r)
        BY <3>3, <4>4 DEF SendFirst
      <4>5. CASE SendChunk(r)
        BY <3>3, <4>5 DEF SendChunk
      <4>6. CASE SendStop(r)
        BY <3>3, <4>6 DEF SendStop
      <4> QED BY <2>1, <4>1, <4>2, <4>3, <4>4, <4>5, <4>6 DEF SendStep
    <3> QED BY <3>1, <3>2, <3>4
  <2>2. CASE ReceiveStep(r)
    <3>1. UNCHANGED <<pc, pos, buffer, opened, link>>
      BY <2>2 DEF ReceiveStep, ReceiveError, ReceiveFirst, ReceiveChunk, ReceiveStop,
         ConnectionLost, WriteScript, ScriptFails, RunScript, RunFails, UnlinkScript
    <3>2. CASE ReceiveError(r)
      BY <1>1, <3>1, <3>2 DEF ReceiveError, Arrives, ReceiverAt
    <3>3. CASE ReceiveFirst(r)
      BY <1>1, <3>1, <3>3 DEF ReceiveFirst, Arrives, ReceiverAt
    <3>4. CASE ReceiveChunk(r)
      BY <1>1, <3>1, <3>4 DEF ReceiveChunk, Arrives, ReceiverAt
    <3>5. CASE ReceiveStop(r)
      BY <1>1, <3>1, <3>5 DEF ReceiveStop, Arrives, ReceiverAt
    <3>6. CASE ConnectionLost(r)
      BY <1>1, <3>1, <3>6 DEF ConnectionLost, Arrives, ReceiverAt
    <3>7. CASE WriteScript(r)
      BY <1>1, <3>1, <3>7 DEF WriteScript, Arrives, ReceiverAt
    <3>8. CASE RunScript(r)
      BY <1>1, <3>1, <3>8 DEF RunScript, Arrives, ReceiverAt
    <3>9. CASE UnlinkScript(r)
      BY <1>1, <3>1, <3>9 DEF UnlinkScript, Arrives, ReceiverAt
    <3>10. CASE ScriptFails(r)
      BY <1>1, <3>1, <3>10 DEF ScriptFails, ReceiverAt
    <3>11. CASE RunFails(r)
      BY <1>1, <3>1, <3>11 DEF RunFails, ReceiverAt
    <3> QED BY <2>2, <3>2, <3>3, <3>4, <3>5, <3>6, <3>7, <3>8, <3>9, <3>10, <3>11 DEF ReceiveStep
  <2>3. CASE Break(r)
    BY <1>1, <2>3 DEF Break
  <2> QED BY <2>1, <2>2, <2>3
<1> QED BY <1>2, ReaderUntouched

\* What was sent before the server was killed is still in order.
LEMMA KilledKeepsWhole ==
  ASSUME TypeInv, NEW c \in Readers, Killed(c), NEW r \in Readers,
         Flow(r), FirstFirst(r), Whole(r)
  PROVE  Flow(r)' /\ FirstFirst(r)' /\ Whole(r)'
<1>1. UNCHANGED <<sender, chan, receiver>> /\ r \in Conns
  BY ReadersAreConns DEF Killed
<1>2. CASE pc'[r] = "done"
  <2>1. Flow(r)'
    BY <1>1, <1>2 DEF Flow, Opening
  <2>2. FirstFirst(r)'
    BY <1>1, <1>2 DEF FirstFirst
  <2>3. Whole(r)'
    BY <1>1 DEF Whole
  <2> QED BY <2>1, <2>2, <2>3
<1>3. CASE pc[r] = "start" /\ pc'[r] = "start"
  <2>1. link'[r] = link[r]
    BY <1>3 DEF Killed
  <2> QED BY <1>1, <1>3, <2>1, ReaderUntouched
<1> QED BY <1>1, <1>2, <1>3, KilledThreads

LEMMA ScriptTypesKept ==
  ASSUME TypeInv, ScriptTypes, [Next]_vars
  PROVE  ScriptTypes'
<1>1. got \in [Readers -> Seq(Word)]
  BY DEF TypeInv, TransferTypes
<1>2. CASE \E r \in Readers : WriteScript(r)
  BY <1>1, <1>2 DEF WriteScript, ScriptTypes
<1>3. CASE \E r \in Readers : RunScript(r)
  BY <1>3 DEF RunScript, ScriptTypes
<1>4. CASE \E r \in Readers : UnlinkScript(r)
  BY <1>4 DEF UnlinkScript, ScriptTypes
<1>5. CASE UNCHANGED <<scripts, ran>>
  BY <1>5 DEF ScriptTypes
<1>6. \/ \E r \in Readers : WriteScript(r) \/ RunScript(r) \/ RunFails(r) \/ UnlinkScript(r)
      \/ UNCHANGED <<scripts, ran>>
  BY ZenonT(60) DEF Next, Done, Update, SendStep, StartRead, OpenMissing, OpenFile, SendFirst,
     ReadBlock, SendChunk, SendStop, ReceiveStep, ReceiveError, ReceiveFirst, ReceiveChunk,
     ReceiveStop, ConnectionLost, ScriptFails, Killed, Break
<1>7. CASE \E r \in Readers : RunFails(r)
  BY <1>7 DEF RunFails, ScriptTypes
<1> QED BY <1>2, <1>3, <1>4, <1>5, <1>6, <1>7

LEMMA NextPreservesWhole ==
  ASSUME ScriptsApart, TypeInv, DiskInv, WholeInv, [Next]_vars
  PROVE  WholeInv'
<1>1. /\ ScriptTypes /\ ScriptTypes' /\ Stable
      /\ \A r \in Readers : Flow(r) /\ FirstFirst(r) /\ Whole(r)
  BY ScriptTypesKept DEF WholeInv, DiskInv
<1>2. CASE \E c \in Conns \ Readers : Update(c)
  <2>1. PICK c \in Conns \ Readers : UpdateStep(c) /\ UNCHANGED transferVars
    BY <1>2 DEF Update
  <2>2. \A r \in Readers : pc'[r] = pc[r]
    BY <2>1, UpdateOfOne, ReadersAreConns DEF TypeInv, LifetimeInv
  <2>3. ASSUME NEW r \in Readers PROVE Flow(r)' /\ FirstFirst(r)' /\ Whole(r)'
    BY <1>1, <2>1, <2>2, ReaderUntouched
  <2> QED BY <1>1, <2>3 DEF WholeInv
<1>3. CASE \E r \in Readers : SendStep(r) \/ ReceiveStep(r) \/ Break(r)
  <2>1. PICK r \in Readers : SendStep(r) \/ ReceiveStep(r) \/ Break(r)
    BY <1>3
  <2>2. Flow(r)' /\ FirstFirst(r)' /\ Whole(r)'
    BY <1>1, <2>1, SendKeepsWhole, ReceiveKeepsWhole
  <2>3. ASSUME NEW d \in Readers \ {r} PROVE Flow(d)' /\ FirstFirst(d)' /\ Whole(d)'
    BY <1>1, <2>1, OtherReaders
  <2> QED BY <1>1, <2>2, <2>3 DEF WholeInv
<1>4. CASE UNCHANGED vars
  <2>1. ASSUME NEW r \in Readers PROVE Flow(r)' /\ FirstFirst(r)' /\ Whole(r)'
    BY <1>1, <1>4, ReaderUntouched
  <2> QED BY <1>1, <2>1 DEF WholeInv
<1>5. CASE \E c \in Readers : Killed(c)
  <2>1. ASSUME NEW r \in Readers PROVE Flow(r)' /\ FirstFirst(r)' /\ Whole(r)'
    BY <1>1, <1>5, KilledKeepsWhole
  <2> QED BY <1>1, <2>1 DEF WholeInv
<1> QED BY <1>2, <1>3, <1>4, <1>5 DEF Next, Done

LEMMA WholeInvariant ==
  ASSUME ReadersApart, ScriptsApart
  PROVE  Spec => [](TypeInv /\ DiskInv /\ WholeInv)
<1>1. TransferInit => TypeInv /\ DiskInv /\ WholeInv
  BY InitTypes, InitDisk, InitWhole
<1>2. (TypeInv /\ DiskInv /\ WholeInv) /\ [Next]_vars => (TypeInv /\ DiskInv /\ WholeInv)'
  BY NextPreservesTypes, NextPreservesDisk, NextPreservesWhole
<1> QED BY <1>1, <1>2, PTL DEF Spec

\* A READ or STREAM that is told it is complete has the text the file had when the storage
\* server opened it, and an EXEC runs just that text, for every file, chunk size, number
\* of connections and break of a connection; among WRITEs, DELETEs and CREATEs as long as
\* no connection writes the file in place (ReadersApart) and every EXEC has a temporary
\* file of its own (ScriptsApart).
THEOREM TransfersWhole ==
  ASSUME ReadersApart, ScriptsApart
  PROVE  Spec => []CompleteIsWhole
<1>1. WholeInv => CompleteIsWhole
  BY DEF WholeInv, Whole, CompleteIsWhole
<1> QED BY <1>1, WholeInvariant, PTL

\* handle_exec's buffer has the size of the first message, and what it copies into it
\* never exceeds that, under the same conditions.
THEOREM ExecBufferSafe ==
  ASSUME ReadersApart, ScriptsApart
  PROVE  Spec => []ExecBufferHolds
<1>1. TypeInv /\ WholeInv => ExecBufferHolds
  <2> SUFFICES ASSUME TypeInv, WholeInv, NEW r \in Readers, Op[r] = "EXEC"
               PROVE  Len(got[r]) <= announced[r]
    BY DEF ExecBufferHolds
  <2>1. Flow(r) /\ FirstFirst(r) /\ announced[r] \in Nat
    BY DEF WholeInv, TypeInv, TypeOK
  <2>2. CASE got[r] = <<>>
    <3>1. Len(got[r]) = 0
      BY <2>2
    <3> QED BY <2>1, <3>1
  <2>3. CASE got[r] # <<>>
    <3>1. announced[r] = Len(opened[r])
      BY <2>1, <2>3 DEF FirstFirst
    <3> QED BY <2>1, <3>1 DEF Flow, Prefix
  <2> QED BY <2>2, <2>3
<1> QED BY <1>1, WholeInvariant, PTL
=============================================================================
