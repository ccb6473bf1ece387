------------------------- MODULE WriteSessionProofs -------------------------
(***************************************************************************)
(* What holds of WriteSession for any number of connections, users,        *)
(* sentences and words, with clients vanishing, UNDO, REVERT and crashes   *)
(* at any moment.                                                          *)
(***************************************************************************)
EXTENDS WriteRefinement, ListLemmas

USE WriteSessionAssumption DEF files, cache, mutexes, opened

\* The answer chosen before the lock is one of the replies.
LEMMA RefusalType ==
  ASSUME NEW c \in Conns, NEW i \in Index
  PROVE  WriteRefusal(c, i) \in Replies
BY DEF WriteRefusal, Replies

\* Every variable of the control state keeps its type.
THEOREM ControlTypes == Spec => []ControlTypeOK
<1>1. Init => ControlTypeOK
  BY DEF Init, ControlTypeOK, Index, PCs, Replies, NoGrant
<1>2. ControlTypeOK /\ [Next]_vars => ControlTypeOK'
  <2> SUFFICES ASSUME ControlTypeOK, [Next]_vars PROVE ControlTypeOK'
    OBVIOUS
  <2> USE DEF ControlTypeOK, PCs, Replies
  <2>1. ASSUME NEW c \in Conns, NEW i \in Index, ValidateWrite(c, i)
       PROVE  ControlTypeOK'
    BY <2>1, RefusalType DEF ValidateWrite, Goto, Finish
  <2>2. ASSUME NEW c \in Conns, NEW base, NEW batch, WriteCommand(c, base, batch)
       PROVE  ControlTypeOK'
    BY <2>2 DEF WriteCommand
  <2>3. ASSUME NEW c \in Conns, EndWrite(c)
       PROVE  ControlTypeOK'
    BY <2>3 DEF EndWrite, Goto, unlock_sentence_ll
  <2>4. ASSUME NEW c \in Conns, Disconnect(c)
       PROVE  ControlTypeOK'
    BY <2>4 DEF Disconnect, Goto, unlock_sentence_ll
  <2>5. ASSUME NEW c \in Conns, UndoRequest(c)
       PROVE  ControlTypeOK'
    BY <2>5 DEF UndoRequest, Goto
  <2>6. ASSUME NEW c \in Conns, CheckpointOpen(c)
       PROVE  ControlTypeOK'
    BY <2>6 DEF CheckpointOpen, Goto
  <2>7. ASSUME NEW c \in Conns, RevertNoCheckpoint(c)
       PROVE  ControlTypeOK'
    BY <2>7 DEF RevertNoCheckpoint, Finish
  <2>8. ASSUME NEW c \in Conns, RevertOpen(c)
       PROVE  ControlTypeOK'
    BY <2>8 DEF RevertOpen, Goto
  <2>9. ASSUME NEW c \in Conns, LockRefused(c)
       PROVE  ControlTypeOK'
    BY <2>9 DEF LockRefused, Finish
  <2>10. ASSUME NEW c \in Conns, LockNewSentence(c)
       PROVE  ControlTypeOK'
    BY <2>10 DEF LockNewSentence, Goto
  <2>11. ASSUME NEW c \in Conns, LockSentence(c)
       PROVE  ControlTypeOK'
    BY <2>11 DEF LockSentence, SentenceFree, Goto
  <2>12. ASSUME NEW c \in Conns, RecordWordCount(c)
       PROVE  ControlTypeOK'
    BY <2>12 DEF RecordWordCount, Goto
  <2>13. ASSUME NEW c \in Conns, OpenBackup(c)
       PROVE  ControlTypeOK'
    BY <2>13 DEF OpenBackup, Goto
  <2>14. ASSUME NEW c \in Conns, WriteBackup(c)
       PROVE  ControlTypeOK'
    BY <2>14 DEF WriteBackup, Goto
  <2>15. ASSUME NEW c \in Conns, BeginCommit(c)
       PROVE  ControlTypeOK'
    BY <2>15 DEF BeginCommit, Goto, Finish
  <2>16. ASSUME NEW c \in Conns, ApplyEdit(c)
       PROVE  ControlTypeOK'
    BY <2>16 DEF ApplyEdit
  <2>17. ASSUME NEW c \in Conns, SyncToSwap(c)
       PROVE  ControlTypeOK'
    BY <2>17 DEF SyncToSwap, Goto
  <2>18. ASSUME NEW c \in Conns, Rename(c)
       PROVE  ControlTypeOK'
    BY <2>18 DEF Rename, Goto
  <2>18a. ASSUME NEW c \in Conns, AnswerWrite(c)
       PROVE  ControlTypeOK'
    BY <2>18a DEF AnswerWrite, Finish
  <2>18b. ASSUME NEW c \in Conns, OpenSwapFails(c)
       PROVE  ControlTypeOK'
    BY <2>18b DEF OpenSwapFails, Goto
  <2>18c. ASSUME NEW c \in Conns, RenameFails(c)
       PROVE  ControlTypeOK'
    BY <2>18c DEF RenameFails, Goto
  <2>18d. ASSUME NEW c \in Conns, UndoOpenFails(c)
       PROVE  ControlTypeOK'
    BY <2>18d DEF UndoOpenFails, ReturnFromUndo, Finish
  <2>19. ASSUME NEW c \in Conns, UndoNoBackup(c)
       PROVE  ControlTypeOK'
    BY <2>19 DEF UndoNoBackup, ReturnFromUndo, Finish
  <2>20. ASSUME NEW c \in Conns, UndoOpen(c)
       PROVE  ControlTypeOK'
    BY <2>20 DEF UndoOpen, Goto
  <2>21. ASSUME NEW c \in Conns, UndoCopy(c)
       PROVE  ControlTypeOK'
    BY <2>21 DEF UndoCopy, Goto
  <2>22. ASSUME NEW c \in Conns, UndoReload(c)
       PROVE  ControlTypeOK'
    BY <2>22 DEF UndoReload, ReturnFromUndo, Finish
  <2>23. ASSUME NEW c \in Conns, CheckpointCopy(c)
       PROVE  ControlTypeOK'
    BY <2>23 DEF CheckpointCopy, Finish
  <2>24. ASSUME NEW c \in Conns, RevertCopy(c)
       PROVE  ControlTypeOK'
    BY <2>24 DEF RevertCopy, Finish
  <2>25. ASSUME Crash
       PROVE  ControlTypeOK'
    BY <2>25 DEF Crash
  <2>26. ASSUME UNCHANGED vars
       PROVE  ControlTypeOK'
    BY <2>26 DEF vars
  <2> QED
    BY <2>1, <2>2, <2>3, <2>4, <2>5, <2>6, <2>7, <2>8, <2>9, <2>10, <2>11, <2>12,
       <2>13, <2>14, <2>15, <2>16, <2>17, <2>18, <2>18a, <2>18b, <2>18c, <2>18d,
       <2>19, <2>20, <2>21, <2>22, <2>23,
       <2>24, <2>25, <2>26
       DEF Next, ServerStep, ClientStep, Done
<1> QED
  BY <1>1, <1>2, PTL DEF Spec

-----------------------------------------------------------------------------
\* Only WRITE requests get as far as a sentence lock.
LEMMA WritesOnly == Spec => []RequestFits
<1>1. Init => RequestFits
  BY DEF Init, RequestFits, WriteMode
<1>2. ControlTypeOK /\ RequestFits /\ [Next]_vars => RequestFits'
  <2> SUFFICES ASSUME ControlTypeOK, RequestFits, [Next]_vars PROVE RequestFits'
    OBVIOUS
  <2> USE DEF ControlTypeOK, RequestFits, WriteMode
  <2>1. ASSUME NEW c \in Conns, NEW i \in Index, ValidateWrite(c, i)
       PROVE  RequestFits'
    BY <2>1 DEF ValidateWrite, Goto, Finish
  <2>2. ASSUME NEW c \in Conns, NEW base, NEW batch, WriteCommand(c, base, batch)
       PROVE  RequestFits'
    BY <2>2 DEF WriteCommand
  <2>3. ASSUME NEW c \in Conns, EndWrite(c)
       PROVE  RequestFits'
    BY <2>3 DEF EndWrite, Goto, unlock_sentence_ll
  <2>4. ASSUME NEW c \in Conns, Disconnect(c)
       PROVE  RequestFits'
    BY <2>4 DEF Disconnect, Goto, unlock_sentence_ll
  <2>5. ASSUME NEW c \in Conns, UndoRequest(c)
       PROVE  RequestFits'
    BY <2>5 DEF UndoRequest, Goto
  <2>6. ASSUME NEW c \in Conns, CheckpointOpen(c)
       PROVE  RequestFits'
    BY <2>6 DEF CheckpointOpen, Goto
  <2>7. ASSUME NEW c \in Conns, RevertNoCheckpoint(c)
       PROVE  RequestFits'
    BY <2>7 DEF RevertNoCheckpoint, Finish
  <2>8. ASSUME NEW c \in Conns, RevertOpen(c)
       PROVE  RequestFits'
    BY <2>8 DEF RevertOpen, Goto
  <2>9. ASSUME NEW c \in Conns, LockRefused(c)
       PROVE  RequestFits'
    BY <2>9 DEF LockRefused, Finish
  <2>10. ASSUME NEW c \in Conns, LockNewSentence(c)
       PROVE  RequestFits'
    BY <2>10 DEF LockNewSentence, Goto
  <2>11. ASSUME NEW c \in Conns, LockSentence(c)
       PROVE  RequestFits'
    BY <2>11 DEF LockSentence, SentenceFree, Goto
  <2>12. ASSUME NEW c \in Conns, RecordWordCount(c)
       PROVE  RequestFits'
    BY <2>12 DEF RecordWordCount, Goto
  <2>13. ASSUME NEW c \in Conns, OpenBackup(c)
       PROVE  RequestFits'
    BY <2>13 DEF OpenBackup, Goto
  <2>14. ASSUME NEW c \in Conns, WriteBackup(c)
       PROVE  RequestFits'
    BY <2>14 DEF WriteBackup, Goto
  <2>15. ASSUME NEW c \in Conns, BeginCommit(c)
       PROVE  RequestFits'
    BY <2>15 DEF BeginCommit, Goto, Finish
  <2>16. ASSUME NEW c \in Conns, ApplyEdit(c)
       PROVE  RequestFits'
    BY <2>16 DEF ApplyEdit
  <2>17. ASSUME NEW c \in Conns, SyncToSwap(c)
       PROVE  RequestFits'
    BY <2>17 DEF SyncToSwap, Goto
  <2>18. ASSUME NEW c \in Conns, Rename(c)
       PROVE  RequestFits'
    BY <2>18 DEF Rename, Goto
  <2>18a. ASSUME NEW c \in Conns, AnswerWrite(c)
       PROVE  RequestFits'
    BY <2>18a DEF AnswerWrite, Finish
  <2>18b. ASSUME NEW c \in Conns, OpenSwapFails(c)
       PROVE  RequestFits'
    BY <2>18b DEF OpenSwapFails, Goto
  <2>18c. ASSUME NEW c \in Conns, RenameFails(c)
       PROVE  RequestFits'
    BY <2>18c DEF RenameFails, Goto
  <2>18d. ASSUME NEW c \in Conns, UndoOpenFails(c)
       PROVE  RequestFits'
    BY <2>18d DEF UndoOpenFails, ReturnFromUndo, Finish
  <2>19. ASSUME NEW c \in Conns, UndoNoBackup(c)
       PROVE  RequestFits'
    BY <2>19 DEF UndoNoBackup, ReturnFromUndo, Finish
  <2>20. ASSUME NEW c \in Conns, UndoOpen(c)
       PROVE  RequestFits'
    BY <2>20 DEF UndoOpen, Goto
  <2>21. ASSUME NEW c \in Conns, UndoCopy(c)
       PROVE  RequestFits'
    BY <2>21 DEF UndoCopy, Goto
  <2>22. ASSUME NEW c \in Conns, UndoReload(c)
       PROVE  RequestFits'
    BY <2>22 DEF UndoReload, ReturnFromUndo, Finish
  <2>23. ASSUME NEW c \in Conns, CheckpointCopy(c)
       PROVE  RequestFits'
    BY <2>23 DEF CheckpointCopy, Finish
  <2>24. ASSUME NEW c \in Conns, RevertCopy(c)
       PROVE  RequestFits'
    BY <2>24 DEF RevertCopy, Finish
  <2>25. ASSUME Crash
       PROVE  RequestFits'
    BY <2>25 DEF Crash
  <2>26. ASSUME UNCHANGED vars
       PROVE  RequestFits'
    BY <2>26 DEF vars
  <2> QED
    BY <2>1, <2>2, <2>3, <2>4, <2>5, <2>6, <2>7, <2>8, <2>9, <2>10, <2>11, <2>12,
       <2>13, <2>14, <2>15, <2>16, <2>17, <2>18, <2>18a, <2>18b, <2>18c, <2>18d,
       <2>19, <2>20, <2>21, <2>22, <2>23,
       <2>24, <2>25, <2>26
       DEF Next, ServerStep, ClientStep, Done
<1> QED
  BY <1>1, <1>2, ControlTypes, PTL DEF Spec
-----------------------------------------------------------------------------
\* commit_mutex and undo_mutex are held exactly in their critical sections,
\* whatever path a request takes through them.
THEOREM MutexDiscipline == Spec => []MutexesMatch
<1>1. Init => MutexesMatch
  BY DEF Init, MutexesMatch, InCommit, InUndo
<1>2. ControlTypeOK /\ RequestFits /\ MutexesMatch /\ [Next]_vars => MutexesMatch'
  <2> SUFFICES ASSUME ControlTypeOK, RequestFits, MutexesMatch, [Next]_vars PROVE MutexesMatch'
    OBVIOUS
  <2> USE DEF ControlTypeOK, MutexesMatch, InCommit, InUndo, CommitFree
  <2>1. ASSUME NEW c \in Conns, NEW i \in Index, ValidateWrite(c, i)
       PROVE  MutexesMatch'
    BY <2>1 DEF ValidateWrite, Goto, Finish
  <2>2. ASSUME NEW c \in Conns, NEW base, NEW batch, WriteCommand(c, base, batch)
       PROVE  MutexesMatch'
    BY <2>2 DEF WriteCommand
  <2>3. ASSUME NEW c \in Conns, EndWrite(c)
       PROVE  MutexesMatch'
    BY <2>3 DEF EndWrite, Goto, unlock_sentence_ll
  <2>4. ASSUME NEW c \in Conns, Disconnect(c)
       PROVE  MutexesMatch'
    BY <2>4 DEF RequestFits, WriteMode, Disconnect, Goto, unlock_sentence_ll
  <2>5. ASSUME NEW c \in Conns, UndoRequest(c)
       PROVE  MutexesMatch'
    BY <2>5 DEF UndoRequest, Goto
  <2>6. ASSUME NEW c \in Conns, CheckpointOpen(c)
       PROVE  MutexesMatch'
    BY <2>6 DEF CheckpointOpen, Goto
  <2>7. ASSUME NEW c \in Conns, RevertNoCheckpoint(c)
       PROVE  MutexesMatch'
    BY <2>7 DEF RevertNoCheckpoint, Finish
  <2>8. ASSUME NEW c \in Conns, RevertOpen(c)
       PROVE  MutexesMatch'
    BY <2>8 DEF RevertOpen, Goto
  <2>9. ASSUME NEW c \in Conns, LockRefused(c)
       PROVE  MutexesMatch'
    BY <2>9 DEF LockRefused, Finish
  <2>10. ASSUME NEW c \in Conns, LockNewSentence(c)
       PROVE  MutexesMatch'
    BY <2>10 DEF LockNewSentence, Goto
  <2>11. ASSUME NEW c \in Conns, LockSentence(c)
       PROVE  MutexesMatch'
    BY <2>11 DEF LockSentence, SentenceFree, Goto
  <2>12. ASSUME NEW c \in Conns, RecordWordCount(c)
       PROVE  MutexesMatch'
    BY <2>12 DEF RecordWordCount, Goto
  <2>13. ASSUME NEW c \in Conns, OpenBackup(c)
       PROVE  MutexesMatch'
    BY <2>13 DEF OpenBackup, Goto
  <2>14. ASSUME NEW c \in Conns, WriteBackup(c)
       PROVE  MutexesMatch'
    BY <2>14 DEF WriteBackup, Goto
  <2>15. ASSUME NEW c \in Conns, BeginCommit(c)
       PROVE  MutexesMatch'
    BY <2>15 DEF BeginCommit, Goto, Finish
  <2>16. ASSUME NEW c \in Conns, ApplyEdit(c)
       PROVE  MutexesMatch'
    BY <2>16 DEF ApplyEdit
  <2>17. ASSUME NEW c \in Conns, SyncToSwap(c)
       PROVE  MutexesMatch'
    BY <2>17 DEF SyncToSwap, Goto
  <2>18. ASSUME NEW c \in Conns, Rename(c)
       PROVE  MutexesMatch'
    BY <2>18 DEF Rename, Goto
  <2>18a. ASSUME NEW c \in Conns, AnswerWrite(c)
       PROVE  MutexesMatch'
    BY <2>18a DEF AnswerWrite, Finish
  <2>18b. ASSUME NEW c \in Conns, OpenSwapFails(c)
       PROVE  MutexesMatch'
    BY <2>18b DEF OpenSwapFails, Goto
  <2>18c. ASSUME NEW c \in Conns, RenameFails(c)
       PROVE  MutexesMatch'
    BY <2>18c DEF RenameFails, Goto
  <2>18d. ASSUME NEW c \in Conns, UndoOpenFails(c)
       PROVE  MutexesMatch'
    BY <2>18d DEF UndoOpenFails, ReturnFromUndo, Finish
  <2>19. ASSUME NEW c \in Conns, UndoNoBackup(c)
       PROVE  MutexesMatch'
    BY <2>19 DEF UndoNoBackup, ReturnFromUndo, Finish
  <2>20. ASSUME NEW c \in Conns, UndoOpen(c)
       PROVE  MutexesMatch'
    BY <2>20 DEF UndoOpen, Goto
  <2>21. ASSUME NEW c \in Conns, UndoCopy(c)
       PROVE  MutexesMatch'
    BY <2>21 DEF UndoCopy, Goto
  <2>22. ASSUME NEW c \in Conns, UndoReload(c)
       PROVE  MutexesMatch'
    BY <2>22 DEF UndoReload, ReturnFromUndo, Finish
  <2>23. ASSUME NEW c \in Conns, CheckpointCopy(c)
       PROVE  MutexesMatch'
    BY <2>23 DEF CheckpointCopy, Finish
  <2>24. ASSUME NEW c \in Conns, RevertCopy(c)
       PROVE  MutexesMatch'
    BY <2>24 DEF RevertCopy, Finish
  <2>25. ASSUME Crash
       PROVE  MutexesMatch'
    BY <2>25 DEF Crash
  <2>26. ASSUME UNCHANGED vars
       PROVE  MutexesMatch'
    BY <2>26 DEF vars
  <2> QED
    BY <2>1, <2>2, <2>3, <2>4, <2>5, <2>6, <2>7, <2>8, <2>9, <2>10, <2>11, <2>12,
       <2>13, <2>14, <2>15, <2>16, <2>17, <2>18, <2>18a, <2>18b, <2>18c, <2>18d,
       <2>19, <2>20, <2>21, <2>22, <2>23,
       <2>24, <2>25, <2>26
       DEF Next, ServerStep, ClientStep, Done
<1> QED
  BY <1>1, <1>2, ControlTypes, WritesOnly, PTL DEF Spec
-----------------------------------------------------------------------------
\* Sentence locks are exclusive if no user has two WRITE connections at once.
\* LockExclusion alone is not inductive: releasing a lock is safe because the
\* name on it is the releaser's (LockKept), and a reload gives later grants a
\* document number that no earlier grant has (GrantsFit).
THEOREM SentenceLocksExclude == OneSessionPerUser /\ Spec => []LockExclusion
<1> SUFFICES ASSUME OneSessionPerUser PROVE Spec => []LockExclusion
  OBVIOUS
<1>1. Init => LockInv
  <2> SUFFICES ASSUME Init PROVE LockInv
    OBVIOUS
  <2>1. ControlTypeOK
    BY DEF Init, ControlTypeOK, Index, PCs, Replies, NoGrant
  <2> QED
    BY <2>1 DEF Init, LockInv, RequestFits, GrantsFit, LockKept, LockExclusion,
                WriteMode, NoGrant
<1>2. LockInv /\ ControlTypeOK' /\ [Next]_vars => LockInv'
  <2> SUFFICES ASSUME LockInv, ControlTypeOK', [Next]_vars PROVE LockInv'
    OBVIOUS
  <2> USE DEF LockInv, RequestFits, GrantsFit, LockKept, LockExclusion, WriteMode,
              ControlTypeOK, NoGrant
  <2>1. ASSUME NEW c \in Conns, NEW i \in Index, ValidateWrite(c, i)
       PROVE  LockInv'
    BY <2>1 DEF ValidateWrite, Goto, Finish
  <2>2. ASSUME NEW c \in Conns, NEW base, NEW batch, WriteCommand(c, base, batch)
       PROVE  LockInv'
    BY <2>2 DEF WriteCommand
  <2>3. ASSUME NEW c \in Conns, EndWrite(c)
       PROVE  LockInv'
    BY <2>3, OneSessionPerUser DEF OneSessionPerUser, EndWrite, Goto, unlock_sentence_ll
  <2>4. ASSUME NEW c \in Conns, Disconnect(c)
       PROVE  LockInv'
    BY <2>4, OneSessionPerUser DEF OneSessionPerUser, Disconnect, Goto, unlock_sentence_ll
  <2>5. ASSUME NEW c \in Conns, UndoRequest(c)
       PROVE  LockInv'
    BY <2>5 DEF UndoRequest, Goto
  <2>6. ASSUME NEW c \in Conns, CheckpointOpen(c)
       PROVE  LockInv'
    BY <2>6 DEF CheckpointOpen, Goto
  <2>7. ASSUME NEW c \in Conns, RevertNoCheckpoint(c)
       PROVE  LockInv'
    BY <2>7 DEF RevertNoCheckpoint, Finish
  <2>8. ASSUME NEW c \in Conns, RevertOpen(c)
       PROVE  LockInv'
    BY <2>8 DEF RevertOpen, Goto
  <2>9. ASSUME NEW c \in Conns, LockRefused(c)
       PROVE  LockInv'
    BY <2>9 DEF LockRefused, Finish
  <2>10. ASSUME NEW c \in Conns, LockNewSentence(c)
       PROVE  LockInv'
    BY <2>10 DEF LockNewSentence, Goto
  <2>11. ASSUME NEW c \in Conns, LockSentence(c)
       PROVE  LockInv'
    BY <2>11 DEF LockSentence, SentenceFree, Goto
  <2>12. ASSUME NEW c \in Conns, RecordWordCount(c)
       PROVE  LockInv'
    BY <2>12 DEF RecordWordCount, Goto
  <2>13. ASSUME NEW c \in Conns, OpenBackup(c)
       PROVE  LockInv'
    BY <2>13 DEF OpenBackup, Goto
  <2>14. ASSUME NEW c \in Conns, WriteBackup(c)
       PROVE  LockInv'
    BY <2>14 DEF WriteBackup, Goto
  <2>15. ASSUME NEW c \in Conns, BeginCommit(c)
       PROVE  LockInv'
    <3>1. /\ pc[c] = "commit"
          /\ \E label \in {"apply", "done"} : pc' = [pc EXCEPT ![c] = label]
          /\ UNCHANGED <<gen, locked_by, index, granted>>
      BY <2>15 DEF BeginCommit, Goto, Finish
    <3> QED
      BY <3>1
  <2>16. ASSUME NEW c \in Conns, ApplyEdit(c)
       PROVE  LockInv'
    BY <2>16 DEF ApplyEdit
  <2>17. ASSUME NEW c \in Conns, SyncToSwap(c)
       PROVE  LockInv'
    BY <2>17 DEF SyncToSwap, Goto
  <2>18. ASSUME NEW c \in Conns, Rename(c)
       PROVE  LockInv'
    BY <2>18 DEF Rename, Goto
  <2>18a. ASSUME NEW c \in Conns, AnswerWrite(c)
       PROVE  LockInv'
    BY <2>18a DEF AnswerWrite, Finish
  <2>18b. ASSUME NEW c \in Conns, OpenSwapFails(c)
       PROVE  LockInv'
    BY <2>18b DEF OpenSwapFails, Goto
  <2>18c. ASSUME NEW c \in Conns, RenameFails(c)
       PROVE  LockInv'
    BY <2>18c DEF RenameFails, Goto
  <2>18d. ASSUME NEW c \in Conns, UndoOpenFails(c)
       PROVE  LockInv'
    BY <2>18d DEF UndoOpenFails, ReturnFromUndo, Finish
  <2>19. ASSUME NEW c \in Conns, UndoNoBackup(c)
       PROVE  LockInv'
    BY <2>19 DEF UndoNoBackup, ReturnFromUndo, Finish
  <2>20. ASSUME NEW c \in Conns, UndoOpen(c)
       PROVE  LockInv'
    BY <2>20 DEF UndoOpen, Goto
  <2>21. ASSUME NEW c \in Conns, UndoCopy(c)
       PROVE  LockInv'
    BY <2>21 DEF UndoCopy, Goto
  <2>22. ASSUME NEW c \in Conns, UndoReload(c)
       PROVE  LockInv'
    BY <2>22 DEF UndoReload, ReturnFromUndo, Finish
  <2>23. ASSUME NEW c \in Conns, CheckpointCopy(c)
       PROVE  LockInv'
    BY <2>23 DEF CheckpointCopy, Finish
  <2>24. ASSUME NEW c \in Conns, RevertCopy(c)
       PROVE  LockInv'
    BY <2>24 DEF RevertCopy, Finish
  <2>25. ASSUME Crash
       PROVE  LockInv'
    BY <2>25 DEF Crash
  <2>26. ASSUME UNCHANGED vars
       PROVE  LockInv'
    BY <2>26 DEF vars
  <2> QED
    BY <2>1, <2>2, <2>3, <2>4, <2>5, <2>6, <2>7, <2>8, <2>9, <2>10, <2>11, <2>12,
       <2>13, <2>14, <2>15, <2>16, <2>17, <2>18, <2>18a, <2>18b, <2>18c, <2>18d,
       <2>19, <2>20, <2>21, <2>22, <2>23,
       <2>24, <2>25, <2>26
       DEF Next, ServerStep, ClientStep, Done
<1>3. LockInv => LockExclusion
  BY DEF LockInv
<1> QED
  BY <1>1, <1>2, <1>3, ControlTypes, PTL DEF Spec
-----------------------------------------------------------------------------
\* A locked sentence always has a session in write mode that took the lock.
THEOREM LocksAreOwned == Spec => []NoOrphanLock
<1>1. Init => NoOrphanLock
  BY DEF Init, NoOrphanLock
<1>2. ControlTypeOK /\ NoOrphanLock /\ [Next]_vars => NoOrphanLock'
  <2> SUFFICES ASSUME ControlTypeOK, NoOrphanLock, [Next]_vars PROVE NoOrphanLock'
    OBVIOUS
  <2> USE DEF ControlTypeOK, NoOrphanLock, WriteMode
  <2>1. ASSUME NEW c \in Conns, NEW i \in Index, ValidateWrite(c, i)
       PROVE  NoOrphanLock'
    BY <2>1 DEF ValidateWrite, Goto, Finish
  <2>2. ASSUME NEW c \in Conns, NEW base, NEW batch, WriteCommand(c, base, batch)
       PROVE  NoOrphanLock'
    BY <2>2 DEF WriteCommand
  <2>3. ASSUME NEW c \in Conns, EndWrite(c)
       PROVE  NoOrphanLock'
    BY <2>3 DEF EndWrite, Goto, unlock_sentence_ll
  <2>4. ASSUME NEW c \in Conns, Disconnect(c)
       PROVE  NoOrphanLock'
    BY <2>4 DEF Disconnect, Goto, unlock_sentence_ll
  <2>5. ASSUME NEW c \in Conns, UndoRequest(c)
       PROVE  NoOrphanLock'
    BY <2>5 DEF UndoRequest, Goto
  <2>6. ASSUME NEW c \in Conns, CheckpointOpen(c)
       PROVE  NoOrphanLock'
    BY <2>6 DEF CheckpointOpen, Goto
  <2>7. ASSUME NEW c \in Conns, RevertNoCheckpoint(c)
       PROVE  NoOrphanLock'
    BY <2>7 DEF RevertNoCheckpoint, Finish
  <2>8. ASSUME NEW c \in Conns, RevertOpen(c)
       PROVE  NoOrphanLock'
    BY <2>8 DEF RevertOpen, Goto
  <2>9. ASSUME NEW c \in Conns, LockRefused(c)
       PROVE  NoOrphanLock'
    BY <2>9 DEF LockRefused, Finish
  <2>10. ASSUME NEW c \in Conns, LockNewSentence(c)
       PROVE  NoOrphanLock'
    BY <2>10 DEF LockNewSentence, Goto
  <2>11. ASSUME NEW c \in Conns, LockSentence(c)
       PROVE  NoOrphanLock'
    BY <2>11 DEF LockSentence, SentenceFree, Goto
  <2>12. ASSUME NEW c \in Conns, RecordWordCount(c)
       PROVE  NoOrphanLock'
    BY <2>12 DEF RecordWordCount, Goto
  <2>13. ASSUME NEW c \in Conns, OpenBackup(c)
       PROVE  NoOrphanLock'
    BY <2>13 DEF OpenBackup, Goto
  <2>14. ASSUME NEW c \in Conns, WriteBackup(c)
       PROVE  NoOrphanLock'
    BY <2>14 DEF WriteBackup, Goto
  <2>15. ASSUME NEW c \in Conns, BeginCommit(c)
       PROVE  NoOrphanLock'
    BY <2>15 DEF BeginCommit, Goto, Finish
  <2>16. ASSUME NEW c \in Conns, ApplyEdit(c)
       PROVE  NoOrphanLock'
    BY <2>16 DEF ApplyEdit
  <2>17. ASSUME NEW c \in Conns, SyncToSwap(c)
       PROVE  NoOrphanLock'
    BY <2>17 DEF SyncToSwap, Goto
  <2>18. ASSUME NEW c \in Conns, Rename(c)
       PROVE  NoOrphanLock'
    BY <2>18 DEF Rename, Goto
  <2>18a. ASSUME NEW c \in Conns, AnswerWrite(c)
       PROVE  NoOrphanLock'
    BY <2>18a DEF AnswerWrite, Finish
  <2>18b. ASSUME NEW c \in Conns, OpenSwapFails(c)
       PROVE  NoOrphanLock'
    BY <2>18b DEF OpenSwapFails, Goto
  <2>18c. ASSUME NEW c \in Conns, RenameFails(c)
       PROVE  NoOrphanLock'
    BY <2>18c DEF RenameFails, Goto
  <2>18d. ASSUME NEW c \in Conns, UndoOpenFails(c)
       PROVE  NoOrphanLock'
    BY <2>18d DEF UndoOpenFails, ReturnFromUndo, Finish
  <2>19. ASSUME NEW c \in Conns, UndoNoBackup(c)
       PROVE  NoOrphanLock'
    BY <2>19 DEF UndoNoBackup, ReturnFromUndo, Finish
  <2>20. ASSUME NEW c \in Conns, UndoOpen(c)
       PROVE  NoOrphanLock'
    BY <2>20 DEF UndoOpen, Goto
  <2>21. ASSUME NEW c \in Conns, UndoCopy(c)
       PROVE  NoOrphanLock'
    BY <2>21 DEF UndoCopy, Goto
  <2>22. ASSUME NEW c \in Conns, UndoReload(c)
       PROVE  NoOrphanLock'
    BY <2>22 DEF UndoReload, ReturnFromUndo, Finish
  <2>23. ASSUME NEW c \in Conns, CheckpointCopy(c)
       PROVE  NoOrphanLock'
    BY <2>23 DEF CheckpointCopy, Finish
  <2>24. ASSUME NEW c \in Conns, RevertCopy(c)
       PROVE  NoOrphanLock'
    BY <2>24 DEF RevertCopy, Finish
  <2>25. ASSUME Crash
       PROVE  NoOrphanLock'
    BY <2>25 DEF Crash
  <2>26. ASSUME UNCHANGED vars
       PROVE  NoOrphanLock'
    BY <2>26 DEF vars
  <2> QED
    BY <2>1, <2>2, <2>3, <2>4, <2>5, <2>6, <2>7, <2>8, <2>9, <2>10, <2>11, <2>12,
       <2>13, <2>14, <2>15, <2>16, <2>17, <2>18, <2>18a, <2>18b, <2>18c, <2>18d,
       <2>19, <2>20, <2>21, <2>22, <2>23,
       <2>24, <2>25, <2>26
       DEF Next, ServerStep, ClientStep, Done
<1> QED
  BY <1>1, <1>2, ControlTypes, PTL DEF Spec
-----------------------------------------------------------------------------
(***************************************************************************)
(* The cached sentences and the file.                                      *)
(***************************************************************************)

\* Nobody reverts, no client vanishes and the disk does not fail.  (REVERT replaces the
\* file and leaves the cached sentences alone; the rollback of a vanished client reloads
\* them without commit_mutex, between another session's edits and its rename; a sync that
\* fails leaves the edits in the cache only.)
OnlyUndone ==
  /\ MayDisconnect = {} /\ DiskFails = {}
  /\ \A c \in Conns : Request[c] # "REVERT"

Agreed ==
  \/ mem = parse_file_to_linked_list(disk)
  \/ disk = write_linked_list_to_file(mem)

\* While a commit changes the cached sentences they are in the cache, and the swap file
\* that is about to become the file has been made from them.
AgreeInv ==
  /\ \A c \in Conns : /\ pc[c] \in {"undo", "undo_copy", "undo_reload"} => Request[c] = "UNDO"
                      /\ pc[c] \in {"apply", "rename"} => loaded
                      /\ pc[c] = "rename" => swap = write_linked_list_to_file(mem)
                      /\ pc[c] # "revert_copy"
  /\ loaded /\ Quiescent => Agreed

LEMMA CacheAgrees == OnlyUndone /\ Spec => []AgreeInv
<1> SUFFICES ASSUME OnlyUndone PROVE Spec => []AgreeInv
  OBVIOUS
<1>1. Init => AgreeInv
  BY DEF Init, AgreeInv
<1>2. ControlTypeOK /\ MutexesMatch /\ AgreeInv /\ [Next]_vars => AgreeInv'
  <2> SUFFICES ASSUME ControlTypeOK, MutexesMatch, AgreeInv, [Next]_vars PROVE AgreeInv'
    OBVIOUS
  <2> USE DEF ControlTypeOK, MutexesMatch, InCommit, AgreeInv, Quiescent, Agreed, CommitFree,
              CacheLoaded, get_file_from_cache
  <2>1. ASSUME NEW c \in Conns, NEW i \in Index, ValidateWrite(c, i)
       PROVE  AgreeInv'
    BY <2>1 DEF ValidateWrite, Goto, Finish
  <2>2. ASSUME NEW c \in Conns, NEW base, NEW batch, WriteCommand(c, base, batch)
       PROVE  AgreeInv'
    BY <2>2 DEF WriteCommand
  <2>3. ASSUME NEW c \in Conns, EndWrite(c)
       PROVE  AgreeInv'
    BY <2>3 DEF EndWrite, Goto, unlock_sentence_ll
  <2>4. ASSUME NEW c \in Conns, Disconnect(c)
       PROVE  AgreeInv'
    BY <2>4, OnlyUndone DEF OnlyUndone, Disconnect
  <2>5. ASSUME NEW c \in Conns, UndoRequest(c)
       PROVE  AgreeInv'
    BY <2>5 DEF UndoRequest, Goto
  <2>6. ASSUME NEW c \in Conns, CheckpointOpen(c)
       PROVE  AgreeInv'
    BY <2>6 DEF CheckpointOpen, Goto
  <2>7. ASSUME NEW c \in Conns, RevertNoCheckpoint(c)
       PROVE  AgreeInv'
    BY <2>7 DEF RevertNoCheckpoint, Finish
  <2>8. ASSUME NEW c \in Conns, RevertOpen(c)
       PROVE  AgreeInv'
    BY <2>8, OnlyUndone DEF OnlyUndone, RevertOpen
  <2>9. ASSUME NEW c \in Conns, LockRefused(c)
       PROVE  AgreeInv'
    BY <2>9 DEF LockRefused, Finish
  <2>10. ASSUME NEW c \in Conns, LockNewSentence(c)
       PROVE  AgreeInv'
    BY <2>10 DEF LockNewSentence, Goto
  <2>11. ASSUME NEW c \in Conns, LockSentence(c)
       PROVE  AgreeInv'
    BY <2>11 DEF LockSentence, Goto
  <2>12. ASSUME NEW c \in Conns, RecordWordCount(c)
       PROVE  AgreeInv'
    BY <2>12 DEF RecordWordCount, Goto
  <2>13. ASSUME NEW c \in Conns, OpenBackup(c)
       PROVE  AgreeInv'
    BY <2>13 DEF OpenBackup, Goto
  <2>14. ASSUME NEW c \in Conns, WriteBackup(c)
       PROVE  AgreeInv'
    BY <2>14 DEF WriteBackup, Goto
  <2>15. ASSUME NEW c \in Conns, BeginCommit(c)
       PROVE  AgreeInv'
    BY <2>15 DEF BeginCommit, WithTarget, Goto, Finish
  <2>16. ASSUME NEW c \in Conns, ApplyEdit(c)
       PROVE  AgreeInv'
    BY <2>16 DEF ApplyEdit
  <2>17. ASSUME NEW c \in Conns, SyncToSwap(c)
       PROVE  AgreeInv'
    BY <2>17 DEF SyncToSwap, Goto
  <2>18. ASSUME NEW c \in Conns, Rename(c)
       PROVE  AgreeInv'
    BY <2>18 DEF Rename, Goto
  <2>18a. ASSUME NEW c \in Conns, AnswerWrite(c)
       PROVE  AgreeInv'
    BY <2>18a DEF AnswerWrite, Finish
  <2>18b. ASSUME NEW c \in Conns, OpenSwapFails(c)
       PROVE  AgreeInv'
    BY <2>18b DEF OnlyUndone, OpenSwapFails
  <2>18c. ASSUME NEW c \in Conns, RenameFails(c)
       PROVE  AgreeInv'
    BY <2>18c DEF OnlyUndone, RenameFails
  <2>18d. ASSUME NEW c \in Conns, UndoOpenFails(c)
       PROVE  AgreeInv'
    BY <2>18d DEF OnlyUndone, UndoOpenFails
  <2>19. ASSUME NEW c \in Conns, UndoNoBackup(c)
       PROVE  AgreeInv'
    BY <2>19 DEF UndoNoBackup, ReturnFromUndo, Finish
  <2>20. ASSUME NEW c \in Conns, UndoOpen(c)
       PROVE  AgreeInv'
    BY <2>20 DEF UndoOpen, Goto
  <2>21. ASSUME NEW c \in Conns, UndoCopy(c)
       PROVE  AgreeInv'
    BY <2>21 DEF UndoCopy, Goto
  <2>22. ASSUME NEW c \in Conns, UndoReload(c)
       PROVE  AgreeInv'
    BY <2>22 DEF UndoReload, ReturnFromUndo, Finish, reload_file_from_disk
  <2>23. ASSUME NEW c \in Conns, CheckpointCopy(c)
       PROVE  AgreeInv'
    BY <2>23 DEF CheckpointCopy, Finish
  <2>24. ASSUME NEW c \in Conns, RevertCopy(c)
       PROVE  AgreeInv'
    BY <2>24 DEF RevertCopy
  <2>25. ASSUME Crash
       PROVE  AgreeInv'
    BY <2>25 DEF Crash
  <2>26. ASSUME UNCHANGED vars
       PROVE  AgreeInv'
    BY <2>26 DEF vars
  <2> QED
    BY <2>1, <2>2, <2>3, <2>4, <2>5, <2>6, <2>7, <2>8, <2>9, <2>10, <2>11, <2>12,
       <2>13, <2>14, <2>15, <2>16, <2>17, <2>18, <2>18a, <2>18b, <2>18c, <2>18d,
       <2>19, <2>20, <2>21, <2>22, <2>23,
       <2>24, <2>25, <2>26
       DEF Next, ServerStep, ClientStep, Done
<1> QED
  BY <1>1, <1>2, ControlTypes, MutexDiscipline, PTL DEF Spec

\* Whenever no request is in the middle of changing it, the file is what saving the cached
\* sentences gives, or they are what loading it gives, whatever WRITEs and UNDOs overlap
\* and wherever the server dies: a commit and an UNDO each change both under commit_mutex.
THEOREM CacheMatchesFile == OnlyUndone /\ Spec => []CacheAgreesWithDisk
<1>1. AgreeInv => CacheAgreesWithDisk
  BY DEF AgreeInv, CacheAgreesWithDisk, Agreed
<1> QED
  BY <1>1, CacheAgrees, PTL
-----------------------------------------------------------------------------
(***************************************************************************)
(* Words of a text.                                                        *)
(***************************************************************************)

\* The words of a text in S, one entry for each token.
OneWord(b, S) == IF b \in S THEN <<b>> ELSE <<>>
Picked(text, S) == [i \in DOMAIN text |-> OneWord(text[i].body, S)]
IsPicked(p, text, S) ==
  /\ p \in Seq(Seq(S)) /\ Len(p) = Len(text)
  /\ \A i \in 1 .. Len(text) : p[i] = OneWord(text[i].body, S)
  /\ WordsIn(text, S) = FlattenSeq(p)

LEMMA OneWordType ==
  ASSUME NEW b, NEW S
  PROVE  OneWord(b, S) \in Seq(S)
BY DEF OneWord

LEMMA PickedType ==
  ASSUME NEW text \in Text, NEW S
  PROVE  IsPicked(Picked(text, S), text, S)
<1>1. PICK n \in Nat : n = Len(text) /\ DOMAIN text = 1 .. n
  BY LenProperties DEF Text
<1>2. PICK p : p = Picked(text, S)
  OBVIOUS
<1>3. DOMAIN p = 1 .. n /\ \A i \in 1 .. n : p[i] = OneWord(text[i].body, S)
  BY <1>1, <1>2 DEF Picked
<1>4. \A i \in 1 .. n : p[i] \in Seq(S)
  BY <1>3, OneWordType
<1>5. p = [i \in 1 .. n |-> p[i]]
  BY <1>1, <1>2 DEF Picked
<1>6. p \in [1 .. n -> Seq(S)]
  BY <1>4, <1>5
<1>7. p \in Seq(Seq(S)) /\ Len(p) = n
  BY <1>6
<1>8. WordsIn(text, S) = FlattenSeq(p)
  BY <1>2 DEF WordsIn, Picked, OneWord
<1>9. IsPicked(p, text, S)
  BY <1>1, <1>3, <1>7, <1>8 DEF IsPicked
<1> QED BY <1>2, <1>9

LEMMA WordsType ==
  ASSUME NEW text \in Text, NEW S
  PROVE  WordsIn(text, S) \in Seq(S)
<1>1. PICK p : p = Picked(text, S)
  OBVIOUS
<1>2. p \in Seq(Seq(S)) /\ WordsIn(text, S) = FlattenSeq(p)
  BY <1>1, PickedType DEF IsPicked
<1> QED BY <1>2, FlattenType

LEMMA WordsSmall ==
  ASSUME NEW t \in Token, NEW S
  PROVE  /\ WordsIn(<<>>, S) = <<>>
         /\ WordsIn(<<t>>, S) = IF t.body \in S THEN <<t.body>> ELSE <<>>
<1>1. <<>> \in Text /\ <<t>> \in Text
  BY DEF Text
<1>2. WordsIn(<<>>, S) = <<>>
  <2>1. PICK p : p = Picked(<<>>, S)
    OBVIOUS
  <2>2. p \in Seq(Seq(S)) /\ Len(p) = 0 /\ WordsIn(<<>>, S) = FlattenSeq(p)
    BY <1>1, <2>1, PickedType DEF IsPicked
  <2>3. p = <<>>
    BY <2>2, EmptySeq
  <2>4. <<>> \in Seq(S)
    BY EmptySeq
  <2> QED BY <2>2, <2>3, <2>4, FlattenSmall
<1>3. WordsIn(<<t>>, S) = IF t.body \in S THEN <<t.body>> ELSE <<>>
  <2>1. PICK one : one = <<t>>
    OBVIOUS
  <2>2. PICK p : p = Picked(one, S)
    OBVIOUS
  <2>3. PICK w : w = OneWord(t.body, S)
    OBVIOUS
  <2>4. one \in Text /\ Len(one) = 1 /\ one[1] = t
    BY <1>1, <2>1
  <2>8. IsPicked(p, one, S)
    BY <2>2, <2>4, PickedType
  <2>5. p \in Seq(Seq(S)) /\ Len(p) = 1 /\ p[1] = w /\ WordsIn(one, S) = FlattenSeq(p)
    BY <2>3, <2>4, <2>8 DEF IsPicked
  <2>6. w \in Seq(S)
    BY <2>3, OneWordType
  <2>7. p = <<w>>
    BY <2>5, <2>6
  <2> QED BY <2>1, <2>3, <2>5, <2>6, <2>7, FlattenSmall DEF OneWord
<1> QED BY <1>2, <1>3

LEMMA WordsConcat ==
  ASSUME NEW a \in Text, NEW b \in Text, NEW S
  PROVE  WordsIn(a \o b, S) = WordsIn(a, S) \o WordsIn(b, S)
<1>1. PICK c : c = a \o b
  OBVIOUS
<1>2. PICK m \in Nat : m = Len(a)
  BY LenProperties DEF Text
<1>3. PICK n \in Nat : n = Len(b)
  BY LenProperties DEF Text
<1>4. /\ c \in Text /\ Len(c) = m + n
      /\ \A i \in 1 .. m + n : c[i] = IF i <= m THEN a[i] ELSE b[i - m]
  BY <1>1, <1>2, <1>3, ConcatProperties DEF Text
<1>5. PICK p, q, r : p = Picked(a, S) /\ q = Picked(b, S) /\ r = Picked(c, S)
  OBVIOUS
<1>6. /\ p \in Seq(Seq(S)) /\ Len(p) = m /\ WordsIn(a, S) = FlattenSeq(p)
      /\ \A i \in 1 .. m : p[i] = OneWord(a[i].body, S)
  <2>1. IsPicked(p, a, S)
    BY <1>5, PickedType
  <2> QED BY <1>2, <2>1 DEF IsPicked
<1>7. /\ q \in Seq(Seq(S)) /\ Len(q) = n /\ WordsIn(b, S) = FlattenSeq(q)
      /\ \A i \in 1 .. n : q[i] = OneWord(b[i].body, S)
  <2>1. IsPicked(q, b, S)
    BY <1>5, PickedType
  <2> QED BY <1>3, <2>1 DEF IsPicked
<1>8. /\ r \in Seq(Seq(S)) /\ Len(r) = m + n /\ WordsIn(c, S) = FlattenSeq(r)
      /\ \A i \in 1 .. m + n : r[i] = OneWord(c[i].body, S)
  <2>1. IsPicked(r, c, S)
    BY <1>4, <1>5, PickedType
  <2> QED BY <1>4, <2>1 DEF IsPicked
<1>9. PICK u : u = p \o q
  OBVIOUS
<1>10. /\ u \in Seq(Seq(S)) /\ Len(u) = m + n
       /\ \A i \in 1 .. m + n : u[i] = IF i <= m THEN p[i] ELSE q[i - m]
  <2>1. /\ u \in Seq(Seq(S)) /\ Len(u) = Len(p) + Len(q)
        /\ \A i \in 1 .. Len(p) + Len(q) : u[i] = IF i <= Len(p) THEN p[i] ELSE q[i - Len(p)]
    <3>1. PICK Q : Q = Seq(S)
      OBVIOUS
    <3>2. p \in Seq(Q) /\ q \in Seq(Q)
      BY <1>6, <1>7, <3>1
    <3>3. /\ u \in Seq(Q) /\ Len(u) = Len(p) + Len(q)
          /\ \A i \in 1 .. Len(p) + Len(q) : u[i] = IF i <= Len(p) THEN p[i] ELSE q[i - Len(p)]
      BY ONLY <1>9, <3>2, ConcatProperties
    <3> QED BY ONLY <3>1, <3>3
  <2> QED BY <1>6, <1>7, <2>1
<1>11. ASSUME NEW i \in 1 .. m + n PROVE r[i] = u[i]
  <2>1. CASE i <= m
    <3>1. i \in 1 .. m
      BY <2>1
    <3>2. c[i] = a[i] /\ u[i] = p[i]
      BY <1>4, <1>10, <2>1
    <3>3. r[i] = OneWord(c[i].body, S) /\ p[i] = OneWord(a[i].body, S)
      BY <1>6, <1>8, <3>1
    <3> QED BY <3>2, <3>3
  <2>2. CASE ~(i <= m)
    <3>1. i - m \in 1 .. n
      BY <2>2
    <3> QED BY <1>4, <1>7, <1>8, <1>10, <2>2, <3>1
  <2> QED BY <2>1, <2>2
<1>12. r = u
  BY <1>8, <1>10, <1>11, SeqEqual
<1>13. FlattenSeq(p \o q) = FlattenSeq(p) \o FlattenSeq(q)
  BY <1>6, <1>7, FlattenConcat
<1> QED BY <1>1, <1>6, <1>7, <1>8, <1>9, <1>12, <1>13

\* Only the bodies count.
LEMMA WordsSameBodies ==
  ASSUME NEW a \in Text, NEW b \in Text, NEW S, Len(a) = Len(b),
         \A i \in 1 .. Len(a) : a[i].body = b[i].body
  PROVE  WordsIn(a, S) = WordsIn(b, S)
<1>1. PICK p, q : p = Picked(a, S) /\ q = Picked(b, S)
  OBVIOUS
<1>2. IsPicked(p, a, S) /\ IsPicked(q, b, S)
  BY <1>1, PickedType
<1>3. p \in Seq(Seq(S)) /\ q \in Seq(Seq(S)) /\ Len(p) = Len(q)
  BY <1>2 DEF IsPicked
<1>4. \A i \in 1 .. Len(p) : p[i] = q[i]
  BY <1>2 DEF IsPicked
<1>5. p = q
  BY <1>3, <1>4, SeqEqual
<1> QED BY <1>2, <1>5 DEF IsPicked

LEMMA WordsNone ==
  ASSUME NEW text \in Text, NEW S, \A i \in 1 .. Len(text) : text[i].body \notin S
  PROVE  WordsIn(text, S) = <<>>
<1> DEFINE J == {t \in Text : (\A i \in 1 .. Len(t) : t[i].body \notin S) => WordsIn(t, S) = <<>>}
<1>1. <<>> \in J
  <2>1. <<>> \in Text
    BY DEF Text
  <2>2. [body |-> NoBody, marks |-> <<>>] \in Token
    BY DEF Token
  <2>3. WordsIn(<<>>, S) = <<>>
    BY <2>2, WordsSmall
  <2> QED BY <2>1, <2>3
<1>2. ASSUME NEW s \in Seq(Token), NEW e \in Token, s \in J
      PROVE  Append(s, e) \in J
  <2>1. PICK t, o : t = Append(s, e) /\ o = <<e>>
    OBVIOUS
  <2>2. PICK n \in Nat : n = Len(s)
    BY LenProperties
  <2>3. /\ t \in Text /\ Len(t) = n + 1 /\ t[n + 1] = e /\ \A i \in 1 .. n : t[i] = s[i]
        /\ t = s \o o /\ s \in Text /\ o \in Text
    BY <2>1, <2>2, AppendProperties, AppendIsConcat DEF Text
  <2>4. ASSUME \A i \in 1 .. Len(t) : t[i].body \notin S
        PROVE  WordsIn(t, S) = <<>>
    <3>1. n + 1 \in 1 .. Len(t) /\ \A i \in 1 .. n : i \in 1 .. Len(t)
      BY <2>3
    <3>2. e.body \notin S /\ \A i \in 1 .. Len(s) : s[i].body \notin S
      BY <2>2, <2>3, <2>4, <3>1
    <3>3. WordsIn(s, S) = <<>>
      BY <1>2, <3>2
    <3>4. WordsIn(o, S) = <<>>
      BY <2>1, <3>2, WordsSmall
    <3>5. WordsIn(s \o o, S) = WordsIn(s, S) \o WordsIn(o, S)
      BY <2>3, WordsConcat
    <3> QED BY <2>3, <3>3, <3>4, <3>5
  <2>5. t \in J
    BY <2>3, <2>4
  <2> HIDE DEF J
  <2> QED BY <2>1, <2>5
<1> HIDE DEF J
<1>3. text \in J
  BY <1>1, <1>2, SeqInduction DEF Text
<1> QED BY <1>3 DEF J

\* The words of a chain of texts are the chain of their words.
WordsOfEach(ss, S) == [i \in DOMAIN ss |-> WordsIn(ss[i], S)]

LEMMA WordsOfEachType ==
  ASSUME NEW ss \in Seq(Text), NEW S
  PROVE  /\ WordsOfEach(ss, S) \in Seq(Seq(S))
         /\ Len(WordsOfEach(ss, S)) = Len(ss)
         /\ \A i \in 1 .. Len(ss) : WordsOfEach(ss, S)[i] = WordsIn(ss[i], S)
<1>1. PICK n \in Nat : n = Len(ss) /\ DOMAIN ss = 1 .. n
  BY LenProperties
<1>2. PICK w : w = WordsOfEach(ss, S)
  OBVIOUS
<1>3. \A i \in 1 .. n : w[i] = WordsIn(ss[i], S) /\ w[i] \in Seq(S)
  BY <1>1, <1>2, ElementOfSeq, WordsType DEF WordsOfEach
<1>4. w = [i \in 1 .. n |-> w[i]]
  BY <1>1, <1>2 DEF WordsOfEach
<1>5. w \in [1 .. n -> Seq(S)]
  BY <1>3, <1>4
<1>6. w \in Seq(Seq(S)) /\ Len(w) = n
  BY <1>5
<1> QED BY <1>1, <1>2, <1>3, <1>6

LEMMA WordsFlatten ==
  ASSUME NEW ss \in Seq(Text), NEW S
  PROVE  WordsIn(FlattenSeq(ss), S) = FlattenSeq(WordsOfEach(ss, S))
<1> DEFINE J == {x \in Seq(Text) : WordsIn(FlattenSeq(x), S) = FlattenSeq(WordsOfEach(x, S))}
<1>1. <<>> \in J
  <2>1. PICK w : w = WordsOfEach(<<>>, S)
    OBVIOUS
  <2>2. <<>> \in Seq(Text) /\ Len(<<>>) = 0 /\ <<>> \in Seq(S) /\ <<>> \in Seq(Token)
    BY EmptySeq
  <2>3. w \in Seq(Seq(S)) /\ Len(w) = 0
    BY <2>1, <2>2, WordsOfEachType
  <2>4. w = <<>>
    BY <2>3, EmptySeq
  <2>5. FlattenSeq(<<>>) = <<>>
    BY <2>2, FlattenSmall
  <2>6. [body |-> NoBody, marks |-> <<>>] \in Token
    BY DEF Token
  <2>7. WordsIn(<<>>, S) = <<>>
    BY <2>6, WordsSmall
  <2> QED BY <2>1, <2>2, <2>4, <2>5, <2>7
<1>2. ASSUME NEW x \in Seq(Text), NEW e \in Text, x \in J
      PROVE  Append(x, e) \in J
  <2>1. PICK y : y = Append(x, e)
    OBVIOUS
  <2>2. PICK n \in Nat : n = Len(x)
    BY LenProperties
  <2>3. y \in Seq(Text) /\ Len(y) = n + 1 /\ y[n + 1] = e /\ \A i \in 1 .. n : y[i] = x[i]
    BY <2>1, <2>2, AppendProperties
  <2>4. PICK v, w, u : /\ v = WordsOfEach(x, S) /\ w = WordsOfEach(y, S)
                       /\ u = WordsIn(e, S)
    OBVIOUS
  <2>5. /\ v \in Seq(Seq(S)) /\ Len(v) = n
        /\ \A i \in 1 .. n : v[i] = WordsIn(x[i], S)
    BY <2>2, <2>4, WordsOfEachType
  <2>6. /\ w \in Seq(Seq(S)) /\ Len(w) = n + 1
        /\ \A i \in 1 .. n + 1 : w[i] = WordsIn(y[i], S)
    <3>1. /\ w \in Seq(Seq(S)) /\ Len(w) = Len(y)
          /\ \A i \in 1 .. Len(y) : w[i] = WordsIn(y[i], S)
      BY ONLY <2>3, <2>4, WordsOfEachType
    <3> QED BY <2>3, <3>1
  <2>7. u \in Seq(S)
    BY <2>4, WordsType
  <2>8. w = Append(v, u)
    <3>1. PICK z : z = Append(v, u)
      OBVIOUS
    <3>2. z \in Seq(Seq(S)) /\ Len(z) = n + 1 /\ z[n + 1] = u /\ \A i \in 1 .. n : z[i] = v[i]
      BY <2>5, <2>7, <3>1, AppendProperties
    <3>3. ASSUME NEW i \in 1 .. n + 1 PROVE w[i] = z[i]
      <4>1. CASE i = n + 1
        BY <2>3, <2>4, <2>6, <3>2, <4>1
      <4>2. CASE i # n + 1
        <5>1. i \in 1 .. n
          BY <4>2
        <5> QED BY <2>3, <2>5, <2>6, <3>2, <5>1
      <4> QED BY <4>1, <4>2
    <3>4. w = z
      BY <2>6, <3>2, <3>3, SeqEqual
    <3> QED BY <3>1, <3>4
  <2>9. x \in Seq(Seq(Token)) /\ e \in Seq(Token)
    BY DEF Text
  <2>10. FlattenSeq(y) = FlattenSeq(x) \o e /\ FlattenSeq(x) \in Text
    BY <2>1, <2>9, FlattenAppend, FlattenType DEF Text
  <2>11. WordsIn(FlattenSeq(y), S) = WordsIn(FlattenSeq(x), S) \o u
    <3>1. PICK f : f = FlattenSeq(x)
      OBVIOUS
    <3>2. f \in Text /\ FlattenSeq(y) = f \o e
      BY <2>10, <3>1
    <3>3. WordsIn(f \o e, S) = WordsIn(f, S) \o WordsIn(e, S)
      BY ONLY <3>2, e \in Text, WordsConcat
    <3> QED BY <2>4, <3>1, <3>2, <3>3
  <2>12. FlattenSeq(w) = FlattenSeq(v) \o u
    BY <2>5, <2>7, <2>8, FlattenAppend
  <2>13. WordsIn(FlattenSeq(x), S) = FlattenSeq(v)
    BY <1>2, <2>4
  <2>14. WordsIn(FlattenSeq(y), S) = FlattenSeq(WordsOfEach(y, S))
    BY <2>4, <2>11, <2>12, <2>13
  <2>15. y \in J
    BY <2>3, <2>14
  <2> HIDE DEF J
  <2> QED BY <2>1, <2>15
<1> HIDE DEF J
<1>3. ss \in J
  BY <1>1, <1>2, SeqInduction
<1> QED BY <1>3 DEF J

\* Chains of texts with the same words, each for each.
LEMMA WordsFlattenSame ==
  ASSUME NEW ss \in Seq(Text), NEW tt \in Seq(Text), NEW S, Len(ss) = Len(tt),
         \A i \in 1 .. Len(ss) : WordsIn(ss[i], S) = WordsIn(tt[i], S)
  PROVE  WordsIn(FlattenSeq(ss), S) = WordsIn(FlattenSeq(tt), S)
<1>1. PICK v, w : v = WordsOfEach(ss, S) /\ w = WordsOfEach(tt, S)
  OBVIOUS
<1>2. /\ v \in Seq(Seq(S)) /\ Len(v) = Len(ss)
      /\ \A i \in 1 .. Len(ss) : v[i] = WordsIn(ss[i], S)
  BY <1>1, WordsOfEachType
<1>3. /\ w \in Seq(Seq(S)) /\ Len(w) = Len(tt)
      /\ \A i \in 1 .. Len(tt) : w[i] = WordsIn(tt[i], S)
  BY <1>1, WordsOfEachType
<1>4. \A i \in 1 .. Len(v) : v[i] = w[i]
  BY <1>2, <1>3
<1>5. v = w
  BY <1>2, <1>3, <1>4, SeqEqual
<1> QED BY <1>1, <1>5, WordsFlatten
-----------------------------------------------------------------------------
(***************************************************************************)
(* Loading and saving.                                                     *)
(***************************************************************************)

\* The parts of a token are tokens; only the first keeps its body.
LEMMA PartsType ==
  ASSUME NEW tok \in Token
  PROVE  Parts(tok) \in Text
<1>1. tok.marks \in Seq(Marks) /\ tok.body \in Bodies \cup {NoBody}
  BY DEF Token
<1>2. CASE tok.marks = <<>>
  <2>1. Parts(tok) = <<tok>>
    BY <1>2 DEF Parts
  <2> QED BY <2>1 DEF Text
<1>3. CASE tok.marks # <<>>
  <2>1. PICK n \in Nat : n = Len(tok.marks) /\ DOMAIN tok.marks = 1 .. n
    BY <1>1, LenProperties
  <2>2. PICK p : p = Parts(tok)
    OBVIOUS
  <2>3. p = [i \in 1 .. n |-> [body  |-> IF i = 1 THEN tok.body ELSE NoBody,
                               marks |-> <<tok.marks[i]>>]]
    BY <1>3, <2>1, <2>2 DEF Parts
  <2>4. ASSUME NEW i \in 1 .. n
        PROVE  [body |-> IF i = 1 THEN tok.body ELSE NoBody, marks |-> <<tok.marks[i]>>] \in Token
    <3>1. tok.marks[i] \in Marks
      BY <1>1, <2>1, ElementOfSeq
    <3>2. <<tok.marks[i]>> \in Seq(Marks)
      BY <3>1
    <3> QED BY <1>1, <3>2 DEF Token
  <2>5. p \in [1 .. n -> Token]
    BY <2>3, <2>4
  <2> QED BY <2>2, <2>5 DEF Text
<1> QED BY <1>2, <1>3

LEMMA PartsWords ==
  ASSUME NEW tok \in Token, NEW S, NoBody \notin S
  PROVE  WordsIn(Parts(tok), S) = OneWord(tok.body, S)
<1>1. tok.marks \in Seq(Marks)
  BY DEF Token
<1>2. CASE tok.marks = <<>>
  <2>1. Parts(tok) = <<tok>>
    BY <1>2 DEF Parts
  <2> QED BY <2>1, WordsSmall DEF OneWord
<1>3. CASE tok.marks # <<>>
  <2>1. PICK n \in Nat : n = Len(tok.marks) /\ DOMAIN tok.marks = 1 .. n /\ n # 0
    BY <1>1, <1>3, LenProperties, EmptySeq
  <2>2. PICK p : p = Parts(tok)
    OBVIOUS
  <2>3. /\ p \in Seq(Token) /\ DOMAIN p = 1 .. n /\ p[1].body = tok.body
        /\ \A i \in 1 .. n : i # 1 => p[i].body = NoBody
    <3>1. p = [i \in 1 .. n |-> [body  |-> IF i = 1 THEN tok.body ELSE NoBody,
                                 marks |-> <<tok.marks[i]>>]]
      BY <1>3, <2>1, <2>2 DEF Parts
    <3>2. 1 \in 1 .. n
      BY <2>1
    <3>3. p[1].body = tok.body /\ \A i \in 1 .. n : i # 1 => p[i].body = NoBody
      BY <3>1, <3>2
    <3>4. p \in Seq(Token)
      BY <2>2, PartsType DEF Text
    <3> QED BY <3>1, <3>3, <3>4
  <2>4. Len(p) = n
    BY <2>3
  <2>5. 1 \in 1 .. Len(p) /\ Len(p) \in 1 .. Len(p)
    BY <2>1, <2>4
  <2>6. PICK a, b : a = <<p[1]>> /\ b = SubSeq(p, 2, n)
    OBVIOUS
  <2>7. p = a \o b
    <3>1. SubSeq(p, 1, Len(p)) = << p[1] >> \o SubSeq(p, 1 + 1, Len(p))
      BY <2>3, <2>5, SubSeqRecursiveFirst
    <3>2. SubSeq(p, 1, Len(p)) = p
      BY <2>3, SubSeqFull
    <3> QED BY <2>4, <2>6, <3>1, <3>2
  <2>8. p[1] \in Token
    BY <2>3, <2>5, ElementOfSeq
  <2>9. /\ b \in Seq(Token) /\ Len(b) = n - 1
        /\ \A i \in 1 .. n - 1 : b[i] = p[i + 1]
    <3>1. \A i \in 2 .. n : p[i] \in Token
      BY <2>3, <2>4, ElementOfSeq
    <3>2. /\ b \in Seq(Token) /\ Len(b) = IF 2 <= n THEN n - 2 + 1 ELSE 0
          /\ \A i \in 1 .. n - 2 + 1 : b[i] = p[2 + i - 1]
      BY <2>6, <3>1, SubSeqProperties
    <3> QED BY <2>1, <3>2
  <2>10. \A i \in 1 .. Len(b) : b[i].body \notin S
    <3>1. \A i \in 1 .. n - 1 : i + 1 \in 1 .. n /\ i + 1 # 1
      BY <2>1
    <3> QED BY <2>3, <2>9, <3>1
  <2>11. WordsIn(b, S) = <<>>
    BY <2>9, <2>10, WordsNone DEF Text
  <2>12. WordsIn(a, S) = OneWord(tok.body, S)
    BY <2>3, <2>6, <2>8, WordsSmall DEF OneWord
  <2>13. a \in Text /\ b \in Text
    BY <2>6, <2>8, <2>9 DEF Text
  <2>14. WordsIn(a \o b, S) = WordsIn(a, S) \o WordsIn(b, S)
    BY <2>13, WordsConcat
  <2>15. OneWord(tok.body, S) \o <<>> = OneWord(tok.body, S)
    BY OneWordType, ConcatEmptySeq
  <2> QED BY <2>2, <2>7, <2>11, <2>12, <2>14, <2>15
<1> QED BY <1>2, <1>3

\* The sentences of a document as a list of texts.
WordLists(doc) == [i \in DOMAIN doc |-> doc[i].words]

LEMMA WordListsType ==
  ASSUME NEW doc \in Document
  PROVE  /\ UndoText(doc) = FlattenSeq(WordLists(doc))
         /\ WordLists(doc) \in Seq(Text)
         /\ Len(WordLists(doc)) = Len(doc)
         /\ \A i \in 1 .. Len(doc) : WordLists(doc)[i] = doc[i].words
<1>1. PICK n \in Nat : n = Len(doc) /\ DOMAIN doc = 1 .. n
  BY LenProperties DEF Document
<1>2. PICK w : w = WordLists(doc)
  OBVIOUS
<1>3. \A i \in 1 .. n : doc[i] \in Sentence
  BY <1>1, ElementOfSeq DEF Document
<1>4. \A i \in 1 .. n : w[i] = doc[i].words /\ w[i] \in Text
  BY <1>1, <1>2, <1>3 DEF WordLists, Sentence, Text
<1>5. w = [i \in 1 .. n |-> w[i]]
  BY <1>1, <1>2 DEF WordLists
<1>6. w \in [1 .. n -> Text]
  BY <1>4, <1>5
<1>7. w \in Seq(Text) /\ Len(w) = n
  BY <1>6
<1>8. UndoText(doc) = FlattenSeq(w)
  BY <1>2 DEF UndoText, WordLists
<1> QED BY <1>1, <1>2, <1>4, <1>7, <1>8

\* What the undo backup holds is a text.
LEMMA UndoTextType ==
  ASSUME NEW doc \in Document
  PROVE  UndoText(doc) \in Text
<1>1. PICK w : w = WordLists(doc)
  OBVIOUS
<1>2. w \in Seq(Seq(Token)) /\ UndoText(doc) = FlattenSeq(w)
  BY <1>1, WordListsType DEF Text
<1> QED BY <1>2, FlattenType DEF Text

LEMMA UndoTextAppend ==
  ASSUME NEW doc \in Document, NEW sent \in Sentence
  PROVE  /\ Append(doc, sent) \in Document
         /\ UndoText(Append(doc, sent)) = UndoText(doc) \o sent.words
<1>1. PICK d : d = Append(doc, sent)
  OBVIOUS
<1>2. PICK n \in Nat : n = Len(doc)
  BY LenProperties DEF Document
<1>3. d \in Document /\ Len(d) = n + 1 /\ d[n + 1] = sent /\ \A i \in 1 .. n : d[i] = doc[i]
  BY <1>1, <1>2, AppendProperties DEF Document
<1>4. PICK v, w, u : v = WordLists(doc) /\ w = WordLists(d) /\ u = sent.words
  OBVIOUS
<1>5. /\ v \in Seq(Text) /\ Len(v) = n /\ UndoText(doc) = FlattenSeq(v)
      /\ \A i \in 1 .. n : v[i] = doc[i].words
  BY <1>2, <1>4, WordListsType
<1>6. /\ w \in Seq(Text) /\ Len(w) = n + 1 /\ UndoText(d) = FlattenSeq(w)
      /\ \A i \in 1 .. n + 1 : w[i] = d[i].words
  BY <1>3, <1>4, WordListsType
<1>7. u \in Text
  BY <1>4 DEF Sentence, Text
<1>8. PICK z : z = Append(v, u)
  OBVIOUS
<1>9. z \in Seq(Text) /\ Len(z) = n + 1 /\ z[n + 1] = u /\ \A i \in 1 .. n : z[i] = v[i]
  BY <1>5, <1>7, <1>8, AppendProperties
<1>10. ASSUME NEW i \in 1 .. n + 1 PROVE w[i] = z[i]
  <2>1. CASE i = n + 1
    BY <1>3, <1>4, <1>6, <1>9, <2>1
  <2>2. CASE i # n + 1
    <3>1. i \in 1 .. n
      BY <2>2
    <3> QED BY <1>3, <1>5, <1>6, <1>9, <3>1
  <2> QED BY <2>1, <2>2
<1>11. w = z
  BY <1>6, <1>9, <1>10, SeqEqual
<1>12. v \in Seq(Seq(Token)) /\ u \in Seq(Token)
  BY <1>5, <1>7 DEF Text
<1>13. FlattenSeq(Append(v, u)) = FlattenSeq(v) \o u
  BY <1>12, FlattenAppend
<1> QED BY <1>1, <1>3, <1>4, <1>5, <1>6, <1>8, <1>11, <1>13

\* The parser's state: the sentences that have ended and the words since.
ParserState == [ended: Document, current: Text]
ParserStart == [ended |-> <<>>, current |-> <<>>]
SeenBy(acc) == UndoText(acc.ended) \o acc.current

LEMMA ParserStartType == ParserStart \in ParserState /\ SeenBy(ParserStart) = <<>>
<1>1. <<>> \in Document /\ <<>> \in Text /\ <<>> \in Seq(Token)
  BY DEF Document, Text
<1>2. ParserStart \in ParserState
  BY <1>1 DEF ParserStart, ParserState
<1>3. PICK w : w = WordLists(<<>>)
  OBVIOUS
<1>4. w \in Seq(Text) /\ Len(w) = 0 /\ UndoText(<<>>) = FlattenSeq(w)
  <2>1. Len(<<>>) = 0
    OBVIOUS
  <2> QED BY <1>1, <1>3, <2>1, WordListsType
<1>5. w = <<>>
  BY <1>4, EmptySeq
<1>6. UndoText(<<>>) = <<>>
  BY <1>1, <1>4, <1>5, FlattenSmall
<1>7. SeenBy(ParserStart) = <<>> \o <<>>
  BY <1>6 DEF SeenBy, ParserStart
<1> QED BY <1>1, <1>2, <1>7, ConcatEmptySeq

\* One part more has been seen, and nothing is lost.
LEMMA AddPartKeeps ==
  ASSUME NEW acc \in ParserState, NEW part \in Token
  PROVE  /\ AddPart(acc, part) \in ParserState
         /\ SeenBy(AddPart(acc, part)) = Append(SeenBy(acc), part)
<1>1. PICK ended, current : ended = acc.ended /\ current = acc.current
  OBVIOUS
<1>2. ended \in Document /\ current \in Text /\ acc = [ended |-> ended, current |-> current]
  BY <1>1 DEF ParserState
<1>3. PICK more : more = Append(current, part)
  OBVIOUS
<1>4. more \in Text
  BY <1>2, <1>3, AppendProperties DEF Text
<1>5. PICK seen : seen = UndoText(ended)
  OBVIOUS
<1>6. seen \in Text
  BY <1>2, <1>5, UndoTextType
<1>7. seen \o more = Append(seen \o current, part)
  <2>1. PICK o : o = <<part>>
    OBVIOUS
  <2>2. PICK x : x = seen \o current
    OBVIOUS
  <2>3. x \in Seq(Token)
    BY <1>2, <1>6, <2>2, ConcatProperties DEF Text
  <2>4. more = current \o o /\ Append(x, part) = x \o o /\ o \in Seq(Token)
    BY <1>2, <1>3, <2>1, <2>3, AppendIsConcat DEF Text
  <2>5. seen \in Seq(Token) /\ current \in Seq(Token) /\ o \in Seq(Token)
    BY <1>2, <1>6, <2>4 DEF Text
  <2>6. (seen \o current) \o o = seen \o (current \o o)
    BY ONLY <2>5, Reassociate
  <2> QED BY <2>2, <2>4, <2>6
<1>8. SeenBy(acc) = seen \o current
  BY <1>1, <1>5 DEF SeenBy
<1>9. CASE EndsSentence(part)
  <2>1. PICK sent : sent = [words |-> more, delimiter |-> part.marks[1]]
    OBVIOUS
  <2>2. part.marks \in Seq(Marks) /\ part.marks # <<>>
    BY <1>9 DEF EndsSentence, Token
  <2>3. 1 \in 1 .. Len(part.marks)
    BY <2>2, EmptySeq
  <2>4. part.marks[1] \in Marks
    BY <2>2, <2>3, ElementOfSeq
  <2>5. sent \in Sentence /\ sent.words = more
    BY <1>4, <2>1, <2>4 DEF Sentence, Text
  <2>6. PICK d : d = Append(ended, sent)
    OBVIOUS
  <2>7. d \in Document /\ UndoText(d) = seen \o more
    BY <1>2, <1>5, <2>5, <2>6, UndoTextAppend
  <2>8. AddPart(acc, part) = [ended |-> d, current |-> <<>>]
    BY <1>1, <1>3, <1>9, <2>1, <2>6 DEF AddPart
  <2>9. <<>> \in Text
    BY DEF Text
  <2>10. SeenBy([ended |-> d, current |-> <<>>]) = UndoText(d) \o <<>>
    BY DEF SeenBy
  <2>11. UndoText(d) \o <<>> = UndoText(d)
    BY <2>7, UndoTextType, ConcatEmptySeq DEF Text
  <2> QED BY <1>7, <1>8, <2>7, <2>8, <2>9, <2>10, <2>11 DEF ParserState
<1>10. CASE ~EndsSentence(part)
  <2>1. AddPart(acc, part) = [ended |-> ended, current |-> more]
    BY <1>2, <1>3, <1>10 DEF AddPart
  <2>2. SeenBy([ended |-> ended, current |-> more]) = seen \o more
    BY <1>5 DEF SeenBy
  <2>3. [ended |-> ended, current |-> more] \in ParserState
    BY <1>2, <1>4 DEF ParserState
  <2> QED BY <1>7, <1>8, <2>1, <2>2, <2>3
<1> QED BY <1>9, <1>10

Parsed(parts) == FoldLeft(AddPart, ParserStart, parts)
ParserStep == [p \in ParserState \X Token |-> AddPart(p[1], p[2])]

LEMMA ParserStepType ==
  /\ ParserStep \in [ParserState \X Token -> ParserState]
  /\ \A acc \in ParserState, part \in Token : ParserStep[<<acc, part>>] = AddPart(acc, part)
<1>1. ASSUME NEW p \in ParserState \X Token PROVE ParserStep[p] \in ParserState
  <2>1. p[1] \in ParserState /\ p[2] \in Token
    OBVIOUS
  <2>2. ParserStep[p] = AddPart(p[1], p[2])
    BY DEF ParserStep
  <2> QED BY <2>1, <2>2, AddPartKeeps
<1>2. ParserStep \in [ParserState \X Token -> ParserState]
  BY <1>1 DEF ParserStep
<1>3. \A acc \in ParserState, part \in Token : ParserStep[<<acc, part>>] = AddPart(acc, part)
  BY DEF ParserStep
<1> QED BY <1>2, <1>3

LEMMA ParsedIsFold ==
  ASSUME NEW parts \in Text
  PROVE  \E g : /\ IsFold(g, ParserState, ParserStart, ParserStep, parts)
                /\ Parsed(parts) = g[DOMAIN parts]
<1> DEFINE Def(g) == g = [s \in SUBSET (DOMAIN parts) |->
                            IF s = {} THEN ParserStart ELSE AddPart(g[s \ {Max(s)}], parts[Max(s)])]
           it == CHOOSE g : Def(g)
<1>1. Parsed(parts) = it[DOMAIN parts]
  BY DEF Parsed, FoldLeft, MapThenFoldSet
<1>2. PICK g : IsFold(g, ParserState, ParserStart, ParserStep, parts)
  BY ParserStartType, ParserStepType, FoldExists DEF Text
<1>3. /\ g \in [SUBSET (DOMAIN parts) -> ParserState]
      /\ \A s \in SUBSET (DOMAIN parts) :
           g[s] = IF s = {} THEN ParserStart
                  ELSE ParserStep[<<g[s \ {Max(s)}], parts[Max(s)]>>]
  BY ONLY <1>2 DEF IsFold
<1>4. ASSUME NEW s \in SUBSET (DOMAIN parts)
      PROVE  /\ s # {} => g[s] = AddPart(g[s \ {Max(s)}], parts[Max(s)])
             /\ s # {} => s \ {Max(s)} \in SUBSET (DOMAIN parts) /\ Max(s) \in s
             /\ s # {} => parts[Max(s)] \in Token
  <2>1. PICK n \in Nat : DOMAIN parts = 1 .. n /\ n = Len(parts)
    BY LenProperties DEF Text
  <2>2. s # {} => Max(s) \in s
    BY <2>1, MaxInSet
  <2>3. s \ {Max(s)} \in SUBSET (DOMAIN parts)
    OBVIOUS
  <2>4. s # {} => parts[Max(s)] \in Token
    BY <2>1, <2>2, ElementOfSeq DEF Text
  <2>5. g[s \ {Max(s)}] \in ParserState
    BY <1>3, <2>3
  <2>6. s # {} => ParserStep[<<g[s \ {Max(s)}], parts[Max(s)]>>]
                    = AddPart(g[s \ {Max(s)}], parts[Max(s)])
    BY <2>4, <2>5, ParserStepType
  <2> QED BY <1>3, <2>2, <2>3, <2>4, <2>6
<1>5. Def(g)
  <2>1. \A s \in SUBSET (DOMAIN parts) :
          g[s] = IF s = {} THEN ParserStart ELSE AddPart(g[s \ {Max(s)}], parts[Max(s)])
    BY <1>3, <1>4
  <2>2. g = [s \in SUBSET (DOMAIN parts) |-> g[s]]
    BY <1>3
  <2> QED BY ONLY <2>1, <2>2
<1>6. Def(it)
  <2> HIDE DEF Def
  <2> QED BY <1>5
<1> HIDE DEF it
<1>7. \A s \in SUBSET (DOMAIN parts) : it[s] = g[s]
  <2>1. PICK n \in Nat : DOMAIN parts = 1 .. n
    BY LenProperties DEF Text
  <2>2. ASSUME NEW s \in SUBSET (1 .. n)
        PROVE  it[s] = IF s = {} THEN ParserStart ELSE AddPart(it[s \ {Max(s)}], parts[Max(s)])
    BY <1>6, <2>1
  <2>3. ASSUME NEW s \in SUBSET (1 .. n)
        PROVE  g[s] = IF s = {} THEN ParserStart ELSE AddPart(g[s \ {Max(s)}], parts[Max(s)])
    BY <1>5, <2>1
  <2> DEFINE Bad == {k \in 0 .. n : \E s \in SUBSET (1 .. k) : it[s] # g[s]}
  <2> HIDE DEF Def
  <2>4. Bad = {}
    <3> SUFFICES ASSUME Bad # {} PROVE FALSE
      OBVIOUS
    <3>1. Bad \in SUBSET Nat
      OBVIOUS
    <3>2. PICK k \in Bad : \A j \in Bad : k <= j
      <4> HIDE DEF Bad
      <4> QED BY <3>1, LeastExists
    <3>3. PICK s \in SUBSET (1 .. k) : it[s] # g[s]
      OBVIOUS
    <3>4. k \in 0 .. n /\ (1 .. k) \subseteq (1 .. n)
      BY <3>2
    <3>5. s \in SUBSET (1 .. n)
      BY <3>3, <3>4
    <3>6. s # {}
      BY <2>2, <2>3, <3>3, <3>5
    <3>7. Max(s) \in s /\ \A y \in s : Max(s) >= y
      BY <3>5, <3>6, MaxInSet
    <3>8. PICK m : m = Max(s)
      OBVIOUS
    <3>9. m \in 1 .. k /\ m - 1 \in 0 .. n /\ m - 1 < k
      <4> HIDE DEF Bad
      <4>1. k \in Nat /\ k <= n
        BY ONLY <2>1, <3>4
      <4>2. m \in s /\ s \subseteq 1 .. k
        BY ONLY <3>3, <3>7, <3>8
      <4>3. m \in 1 .. k
        BY ONLY <4>2
      <4> QED BY ONLY <2>1, <4>1, <4>3
    <3>10. s \ {m} \in SUBSET (1 .. m - 1)
      <4>1. \A y \in s : y \in 1 .. k /\ (y # m => y \in 1 .. m - 1)
        BY <3>7, <3>8, <3>9
      <4> QED BY <4>1
    <3>11. m - 1 \notin Bad
      <4> HIDE DEF Bad
      <4> QED BY <3>1, <3>2, <3>9
    <3>12. it[s \ {m}] = g[s \ {m}]
      BY <3>9, <3>10, <3>11
    <3> QED BY <2>2, <2>3, <3>3, <3>5, <3>6, <3>8, <3>12
  <2>5. n \in 0 .. n
    OBVIOUS
  <2> QED BY <2>1, <2>4, <2>5
<1>8. it[DOMAIN parts] = g[DOMAIN parts]
  BY <1>7
<1> QED BY <1>1, <1>2, <1>8

\* The parser sees every part, in order.
LEMMA ParsedKeeps ==
  ASSUME NEW parts \in Text
  PROVE  Parsed(parts) \in ParserState /\ SeenBy(Parsed(parts)) = parts
<1> DEFINE J == {t \in Text : Parsed(t) \in ParserState /\ SeenBy(Parsed(t)) = t}
<1>1. <<>> \in J
  <2>1. <<>> \in Text /\ DOMAIN <<>> = {}
    BY DEF Text
  <2>2. PICK g : /\ IsFold(g, ParserState, ParserStart, ParserStep, <<>>)
                 /\ Parsed(<<>>) = g[DOMAIN <<>>]
    BY <2>1, ParsedIsFold
  <2>3. g[{}] = ParserStart
    BY <2>2 DEF IsFold
  <2>4. Parsed(<<>>) = ParserStart
    BY <2>1, <2>2, <2>3
  <2> QED BY <2>1, <2>4, ParserStartType
<1>2. ASSUME NEW s \in Seq(Token), NEW e \in Token, s \in J
      PROVE  Append(s, e) \in J
  <2>1. PICK t : t = Append(s, e)
    OBVIOUS
  <2>2. t \in Text /\ s \in Text
    BY <2>1, AppendProperties DEF Text
  <2>3. PICK g : /\ IsFold(g, ParserState, ParserStart, ParserStep, s)
                 /\ Parsed(s) = g[DOMAIN s]
    BY <2>2, ParsedIsFold
  <2>4. PICK h : /\ IsFold(h, ParserState, ParserStart, ParserStep, t)
                 /\ Parsed(t) = h[DOMAIN t]
    BY <2>2, ParsedIsFold
  <2>5. h[DOMAIN t] = ParserStep[<<g[DOMAIN s], e>>]
    <3>1. s \in Seq(Token)
      OBVIOUS
    <3>2. e \in Token
      OBVIOUS
    <3>3. ParserStep \in [ParserState \X Token -> ParserState]
      BY ParserStepType
    <3>4. ParserStart \in ParserState
      BY ParserStartType
    <3>5. IsAppended(t, s, e)
      BY <2>1 DEF IsAppended
    <3>6. FoldsOneMore(h, t, ParserStep, g, s, e)
      BY ONLY <2>3, <2>4, <3>1, <3>2, <3>3, <3>4, <3>5, FoldStep
    <3> QED BY <3>6 DEF FoldsOneMore
  <2>6. Parsed(s) \in ParserState /\ SeenBy(Parsed(s)) = s
    BY <1>2
  <2>7. Parsed(t) = AddPart(Parsed(s), e)
    BY <2>3, <2>4, <2>5, <2>6, ParserStepType
  <2>8. Parsed(t) \in ParserState /\ SeenBy(Parsed(t)) = t
    BY <2>1, <2>6, <2>7, AddPartKeeps
  <2>9. t \in J
    BY <2>2, <2>8
  <2> HIDE DEF J
  <2> QED BY <2>1, <2>9
<1> HIDE DEF J
<1>3. parts \in J
  BY <1>1, <1>2, SeqInduction DEF Text
<1> QED BY <1>3 DEF J

\* Loading a file gives a list of sentences whose words, one after the other, are the
\* parts the delimiters cut the file into.
TokenParts(text) == [i \in DOMAIN text |-> Parts(text[i])]

LEMMA TokenPartsType ==
  ASSUME NEW text \in Text
  PROVE  /\ TokenParts(text) \in Seq(Text) /\ Len(TokenParts(text)) = Len(text)
         /\ \A i \in 1 .. Len(text) : TokenParts(text)[i] = Parts(text[i]) /\ text[i] \in Token
         /\ FlattenSeq(TokenParts(text)) \in Text
<1>1. PICK n \in Nat : n = Len(text) /\ DOMAIN text = 1 .. n
  BY LenProperties DEF Text
<1>2. PICK p : p = TokenParts(text)
  OBVIOUS
<1>3. \A i \in 1 .. n : text[i] \in Token
  BY <1>1, ElementOfSeq DEF Text
<1>4. \A i \in 1 .. n : p[i] = Parts(text[i]) /\ p[i] \in Text
  BY <1>1, <1>2, <1>3, PartsType DEF TokenParts
<1>5. p = [i \in 1 .. n |-> p[i]]
  BY <1>1, <1>2 DEF TokenParts
<1>6. p \in [1 .. n -> Text]
  BY <1>4, <1>5
<1>7. p \in Seq(Text) /\ Len(p) = n
  BY <1>6
<1>8. p \in Seq(Seq(Token))
  BY <1>7 DEF Text
<1>9. FlattenSeq(p) \in Text
  BY <1>8, FlattenType DEF Text
<1> QED BY <1>1, <1>2, <1>3, <1>4, <1>7, <1>9

LEMMA ParseIs ==
  ASSUME NEW text \in Text
  PROVE  /\ parse_file_to_linked_list(text) \in Document
         /\ UndoText(parse_file_to_linked_list(text)) = FlattenSeq(TokenParts(text))
<1>1. PICK parts : parts = FlattenSeq(TokenParts(text))
  OBVIOUS
<1>2. parts \in Text
  BY <1>1, TokenPartsType
<1>3. PICK acc : acc = Parsed(parts)
  OBVIOUS
<1>4. acc \in ParserState /\ SeenBy(acc) = parts
  BY <1>2, <1>3, ParsedKeeps
<1>5. PICK ended, current : ended = acc.ended /\ current = acc.current
  OBVIOUS
<1>6. ended \in Document /\ current \in Text /\ UndoText(ended) \o current = parts
  BY <1>4, <1>5 DEF ParserState, SeenBy
<1>7. PICK sent : sent = [words |-> current, delimiter |-> NoMark]
  OBVIOUS
<1>8. parse_file_to_linked_list(text) =
        IF current = <<>> THEN ended ELSE Append(ended, sent)
  BY <1>1, <1>3, <1>5, <1>7 DEF parse_file_to_linked_list, Parsed, ParserStart, TokenParts
<1>9. sent \in Sentence /\ sent.words = current
  BY <1>6, <1>7 DEF Sentence, Text
<1>10. CASE current = <<>>
  <2>1. UndoText(ended) \in Seq(Token)
    BY <1>6, UndoTextType DEF Text
  <2>2. UndoText(ended) \o <<>> = UndoText(ended)
    BY <2>1, ConcatEmptySeq
  <2> QED BY <1>1, <1>6, <1>8, <1>10, <2>2
<1>11. CASE current # <<>>
  <2>1. /\ Append(ended, sent) \in Document
        /\ UndoText(Append(ended, sent)) = UndoText(ended) \o current
    BY <1>6, <1>9, UndoTextAppend
  <2> QED BY <1>1, <1>6, <1>8, <1>11, <2>1
<1> QED BY <1>10, <1>11

\* Loading keeps the words.
LEMMA ParseKeepsWords ==
  ASSUME NEW text \in Text, NEW S, NoBody \notin S
  PROVE  WordsIn(UndoText(parse_file_to_linked_list(text)), S) = WordsIn(text, S)
<1>1. PICK ss : ss = TokenParts(text)
  OBVIOUS
<1>2. /\ ss \in Seq(Text) /\ Len(ss) = Len(text)
      /\ \A i \in 1 .. Len(text) : ss[i] = Parts(text[i]) /\ text[i] \in Token
  BY <1>1, TokenPartsType
<1>3. PICK w, p : w = WordsOfEach(ss, S) /\ p = Picked(text, S)
  OBVIOUS
<1>4. /\ w \in Seq(Seq(S)) /\ Len(w) = Len(ss)
      /\ \A i \in 1 .. Len(ss) : w[i] = WordsIn(ss[i], S)
  BY <1>2, <1>3, WordsOfEachType
<1>5. IsPicked(p, text, S)
  BY <1>3, PickedType
<1>6. /\ p \in Seq(Seq(S)) /\ Len(p) = Len(text) /\ WordsIn(text, S) = FlattenSeq(p)
      /\ \A i \in 1 .. Len(text) : p[i] = OneWord(text[i].body, S)
  BY <1>5 DEF IsPicked
<1>7. \A i \in 1 .. Len(text) : w[i] = p[i]
  BY <1>2, <1>4, <1>6, PartsWords
<1>8. w = p
  <2>1. Len(w) = Len(p) /\ \A i \in 1 .. Len(w) : w[i] = p[i]
    BY <1>2, <1>4, <1>6, <1>7
  <2> QED BY <1>4, <1>6, <2>1, SeqEqual
<1>9. WordsIn(FlattenSeq(ss), S) = FlattenSeq(w)
  BY <1>2, <1>3, WordsFlatten
<1> QED BY <1>1, <1>6, <1>8, <1>9, ParseIs

\* Saving a document writes text with the words of its sentences: a delimiter goes
\* against the last word of its sentence, or stands alone.
LEMMA WrittenSentenceType ==
  ASSUME NEW sent \in Sentence
  PROVE  /\ WrittenSentence(sent) \in Text
         /\ \A S : NoBody \notin S =>
              WordsIn(WrittenSentence(sent), S) = WordsIn(sent.words, S)
<1>1. PICK w, d : w = sent.words /\ d = sent.delimiter
  OBVIOUS
<1>2. w \in Text /\ w \in Seq(Token) /\ d \in Marks \cup {NoMark}
  BY <1>1 DEF Sentence, Text
<1>3. CASE d = NoMark
  <2>1. WrittenSentence(sent) = w
    BY <1>1, <1>3 DEF WrittenSentence
  <2> QED BY <1>1, <1>2, <2>1
<1>4. CASE d # NoMark /\ w = <<>>
  <2>1. PICK m : m = <<d>>
    OBVIOUS
  <2>2. m \in Seq(Marks)
    BY <1>2, <1>4, <2>1
  <2>3. PICK t : t = [body |-> NoBody, marks |-> m]
    OBVIOUS
  <2>4. t \in Token /\ t.body = NoBody
    BY <2>2, <2>3 DEF Token
  <2>5. WrittenSentence(sent) = <<t>>
    BY <1>1, <1>4, <2>1, <2>3 DEF WrittenSentence
  <2>6. <<t>> \in Text
    BY <2>4 DEF Text
  <2>7. ASSUME NEW S, NoBody \notin S PROVE WordsIn(<<t>>, S) = WordsIn(w, S)
    BY <1>4, <2>4, <2>7, WordsSmall
  <2> QED BY <1>1, <2>5, <2>6, <2>7
<1>5. CASE d # NoMark /\ w # <<>>
  <2>1. PICK n \in Nat : n = Len(w) /\ DOMAIN w = 1 .. n
    BY <1>2, LenProperties
  <2>2. n # 0
    BY <1>2, <1>5, <2>1, EmptySeq
  <2>3. PICK y : y = [w EXCEPT ![n].marks = Append(@, d)]
    OBVIOUS
  <2>4. WrittenSentence(sent) = y
    BY <1>1, <1>5, <2>1, <2>3 DEF WrittenSentence
  <2>5. PICK last : last = [w[n] EXCEPT !.marks = Append(@, d)]
    OBVIOUS
  <2>6. w[n] \in Token
    BY <1>2, <2>1, <2>2, ElementOfSeq
  <2>7. d \in Marks
    BY <1>2, <1>5
  <2>8. Append(w[n].marks, d) \in Seq(Marks)
    <3>1. w[n].marks \in Seq(Marks)
      BY <2>6 DEF Token
    <3> QED BY <2>7, <3>1, AppendProperties
  <2>9. last \in Token /\ last.body = w[n].body
    BY <2>5, <2>6, <2>8 DEF Token
  <2>10. y = [w EXCEPT ![n] = last]
    BY <2>3, <2>5
  <2>11. y \in Seq(Token) /\ Len(y) = n /\ \A i \in 1 .. n : y[i] = IF i = n THEN last ELSE w[i]
    BY <1>2, <2>1, <2>2, <2>9, <2>10, ExceptSeq
  <2>12. \A i \in 1 .. n : y[i].body = w[i].body
    BY <2>9, <2>11
  <2>13. y \in Text
    BY <2>11 DEF Text
  <2>14. ASSUME NEW S PROVE WordsIn(y, S) = WordsIn(w, S)
    BY <1>2, <2>1, <2>11, <2>12, <2>13, WordsSameBodies
  <2> QED BY <1>1, <2>4, <2>13, <2>14
<1> QED BY <1>3, <1>4, <1>5

WrittenSentences(doc) == [i \in DOMAIN doc |-> WrittenSentence(doc[i])]

LEMMA WrittenIs ==
  ASSUME NEW doc \in Document
  PROVE  /\ write_linked_list_to_file(doc) \in Text
         /\ \A S : NoBody \notin S =>
              WordsIn(write_linked_list_to_file(doc), S) = WordsIn(UndoText(doc), S)
<1>1. PICK n \in Nat : n = Len(doc) /\ DOMAIN doc = 1 .. n
  BY LenProperties DEF Document
<1>2. PICK p : p = WrittenSentences(doc)
  OBVIOUS
<1>3. \A i \in 1 .. n : doc[i] \in Sentence
  BY <1>1, ElementOfSeq DEF Document
<1>4. \A i \in 1 .. n : p[i] = WrittenSentence(doc[i]) /\ p[i] \in Text
  BY <1>1, <1>2, <1>3, WrittenSentenceType DEF WrittenSentences
<1>5. p = [i \in 1 .. n |-> p[i]]
  BY <1>1, <1>2 DEF WrittenSentences
<1>6. p \in [1 .. n -> Text]
  BY <1>4, <1>5
<1>7. p \in Seq(Text) /\ Len(p) = n
  BY <1>6
<1>8. p \in Seq(Seq(Token))
  BY <1>7 DEF Text
<1>9. write_linked_list_to_file(doc) = FlattenSeq(p)
  BY <1>2 DEF write_linked_list_to_file, WrittenSentences
<1>10. FlattenSeq(p) \in Text
  BY <1>8, FlattenType DEF Text
<1>11. PICK q : q = WordLists(doc)
  OBVIOUS
<1>12. /\ UndoText(doc) = FlattenSeq(q) /\ q \in Seq(Text) /\ Len(q) = n
       /\ \A i \in 1 .. n : q[i] = doc[i].words
  BY <1>1, <1>11, WordListsType
<1>13. ASSUME NEW S, NoBody \notin S
       PROVE  WordsIn(FlattenSeq(p), S) = WordsIn(FlattenSeq(q), S)
  <2>1. \A i \in 1 .. Len(p) : WordsIn(p[i], S) = WordsIn(q[i], S)
    BY <1>3, <1>4, <1>7, <1>12, <1>13, WrittenSentenceType
  <2> QED BY <1>7, <1>12, <2>1, WordsFlattenSame
<1> QED BY <1>9, <1>10, <1>12, <1>13

\* What replacing the words of one sentence does to the words of the document: the
\* text before it and the text behind it stay.
SetWords(doc, i, w) == [doc EXCEPT ![i + 1].words = w]
TextAround(text, w, a, b) == text = (a \o w) \o b

LEMMA SetWordsType ==
  ASSUME NEW doc \in Document, NEW i \in Nat, i < Len(doc), NEW w \in Text
  PROVE  /\ SetWords(doc, i, w) \in Document /\ Len(SetWords(doc, i, w)) = Len(doc)
         /\ SetWords(doc, i, w)[i + 1].words = w
         /\ \A j \in 1 .. Len(doc) : j # i + 1 => SetWords(doc, i, w)[j] = doc[j]
<1>1. PICK n \in Nat : n = Len(doc) /\ DOMAIN doc = 1 .. n
  BY LenProperties DEF Document
<1>2. PICK s : s = [doc[i + 1] EXCEPT !.words = w]
  OBVIOUS
<1>3. i + 1 \in 1 .. n /\ doc[i + 1] \in Sentence
  BY <1>1, ElementOfSeq DEF Document
<1>4. s \in Sentence /\ s.words = w
  BY <1>2, <1>3 DEF Sentence, Text
<1>5. PICK y : y = SetWords(doc, i, w)
  OBVIOUS
<1>6. y = [doc EXCEPT ![i + 1] = s]
  BY <1>2, <1>5 DEF SetWords
<1>7. /\ y \in Seq(Sentence) /\ Len(y) = n
      /\ \A j \in 1 .. n : y[j] = IF j = i + 1 THEN s ELSE doc[j]
  BY <1>1, <1>3, <1>4, <1>6, ExceptSeq DEF Document
<1> QED BY <1>1, <1>3, <1>4, <1>5, <1>7 DEF Document

LEMMA SetWordsText ==
  ASSUME NEW doc \in Document, NEW i \in Nat, i < Len(doc), NEW w \in Text
  PROVE  \E a, b \in Text : /\ TextAround(UndoText(doc), doc[i + 1].words, a, b)
                            /\ TextAround(UndoText(SetWords(doc, i, w)), w, a, b)
<1>1. PICK n \in Nat : n = Len(doc)
  BY LenProperties DEF Document
<1>2. PICK new : new = SetWords(doc, i, w)
  OBVIOUS
<1>3. /\ new \in Document /\ Len(new) = n /\ new[i + 1].words = w
      /\ \A j \in 1 .. n : j # i + 1 => new[j] = doc[j]
  BY <1>1, <1>2, SetWordsType
<1>4. PICK ss, tt : ss = WordLists(doc) /\ tt = WordLists(new)
  OBVIOUS
<1>5. /\ ss \in Seq(Text) /\ Len(ss) = n /\ UndoText(doc) = FlattenSeq(ss)
      /\ \A j \in 1 .. n : ss[j] = doc[j].words
  BY <1>1, <1>4, WordListsType
<1>6. /\ tt \in Seq(Text) /\ Len(tt) = n /\ UndoText(new) = FlattenSeq(tt)
      /\ \A j \in 1 .. n : tt[j] = new[j].words
  BY <1>3, <1>4, WordListsType
<1>7. i + 1 \in 1 .. n
  BY <1>1
<1>8. ss[i + 1] = doc[i + 1].words /\ tt[i + 1] = w
  BY <1>3, <1>5, <1>6, <1>7
<1>9. ss[i + 1] \in Text /\ tt[i + 1] \in Text
  BY <1>5, <1>6, <1>7, ElementOfSeq
<1>10. \A j \in 1 .. Len(ss) : j # i + 1 => ss[j] = tt[j]
  BY <1>3, <1>5, <1>6
<1>11. i < Len(ss) /\ Len(tt) = Len(ss)
  BY <1>1, <1>5, <1>6
<1>12. PICK a, b \in Seq(Text) : /\ Around(Text, ss, ss[i + 1], a, b)
                                 /\ Around(Text, tt, tt[i + 1], a, b)
  <2>1. ss \in Seq(Text) /\ tt \in Seq(Text) /\ i \in Nat
    BY <1>5, <1>6
  <2> QED BY ONLY <2>1, <1>10, <1>11, SplitAround
<1>13. a \in Seq(Seq(Token)) /\ b \in Seq(Seq(Token))
  BY <1>12 DEF Text
<1>14. PICK x, y : x = ss[i + 1] /\ y = tt[i + 1]
  OBVIOUS
<1>15. /\ x \in Seq(Token) /\ y \in Seq(Token)
       /\ Around(Seq(Token), ss, x, a, b) /\ Around(Seq(Token), tt, y, a, b)
  BY <1>9, <1>12, <1>14 DEF Text
<1>16. PICK p, q : p = FlattenSeq(a) /\ q = FlattenSeq(b)
  OBVIOUS
<1>17. FlattenSeq(ss) = (p \o x) \o q /\ p \in Seq(Token) /\ q \in Seq(Token)
  <2>1. x \in Seq(Token) /\ Around(Seq(Token), ss, x, a, b)
    BY <1>15
  <2>2. /\ FlattenSeq(ss) = (FlattenSeq(a) \o x) \o FlattenSeq(b)
        /\ FlattenSeq(a) \in Seq(Token) /\ FlattenSeq(b) \in Seq(Token)
    BY ONLY <1>13, <2>1, FlattenAround
  <2> QED BY <1>16, <2>2
<1>18. FlattenSeq(tt) = (p \o y) \o q
  <2>1. y \in Seq(Token) /\ Around(Seq(Token), tt, y, a, b)
    BY <1>15
  <2>2. FlattenSeq(tt) = (FlattenSeq(a) \o y) \o FlattenSeq(b)
    BY ONLY <1>13, <2>1, FlattenAround
  <2> QED BY <1>16, <2>2
<1>19. /\ TextAround(UndoText(doc), doc[i + 1].words, p, q)
       /\ TextAround(UndoText(new), w, p, q)
  BY <1>5, <1>6, <1>8, <1>14, <1>17, <1>18 DEF TextAround
<1> QED BY <1>2, <1>17, <1>19 DEF Text

\* The words of such a text.
LEMMA WordsAround ==
  ASSUME NEW text, NEW w \in Text, NEW a \in Text, NEW b \in Text, NEW S,
         TextAround(text, w, a, b)
  PROVE  TextAround(WordsIn(text, S), WordsIn(w, S), WordsIn(a, S), WordsIn(b, S))
<1>1. PICK x : x = a \o w
  OBVIOUS
<1>2. x \in Text
  BY <1>1, ConcatProperties DEF Text
<1>3. text = x \o b
  BY <1>1 DEF TextAround
<1>4. WordsIn(text, S) = WordsIn(x, S) \o WordsIn(b, S)
  BY <1>2, <1>3, WordsConcat
<1>5. WordsIn(x, S) = WordsIn(a, S) \o WordsIn(w, S)
  BY <1>1, WordsConcat
<1> QED BY <1>4, <1>5 DEF TextAround

\* text2 is text with one more word somewhere.
WordPut(text, word, text2) ==
  \E a, o, b \in Text : /\ text = a \o b /\ o = <<word>> /\ text2 = (a \o o) \o b

LEMMA TextConcat ==
  ASSUME NEW x \in Text, NEW y \in Text
  PROVE  x \o y \in Text
BY ConcatProperties DEF Text

Regrouped(x, y, z) == (x \o y) \o z = x \o (y \o z)

LEMMA TextReassociate ==
  ASSUME NEW x \in Text, NEW y \in Text, NEW z \in Text
  PROVE  Regrouped(x, y, z)
<1>1. x \in Seq(Token) /\ y \in Seq(Token) /\ z \in Seq(Token)
  BY DEF Text
<1>2. (x \o y) \o z = x \o (y \o z)
  BY ONLY <1>1, Reassociate
<1> QED BY <1>2 DEF Regrouped

\* A commit that inserts a queued word into the sentence puts one more word into the
\* text of the document, whatever the offset of its conflict resolution is.
LEMMA PutInside ==
  ASSUME NEW text, NEW text2, NEW r \in Text, NEW k \in 0 .. Len(r), NEW word \in Token,
         NEW r2, PutBehind(Token, r, k, word, r2), NEW a \in Text, NEW b \in Text,
         TextAround(text, r, a, b), TextAround(text2, r2, a, b)
  PROVE  WordPut(text, word, text2)
<1>1. PICK x, o, y \in Text : /\ r = x \o y /\ o = <<word>> /\ r2 = (x \o o) \o y
  BY DEF PutBehind, Text
<1>2. PICK ax, yb : ax = a \o x /\ yb = y \o b
  OBVIOUS
<1>3. ax \in Text /\ yb \in Text
  BY <1>1, <1>2, TextConcat
<1>30. /\ a \in Text /\ b \in Text /\ x \in Text /\ o \in Text
       /\ y \in Text /\ ax \in Text
  BY <1>1, <1>3
<1>4. text = ax \o yb
  <2>1. text = (a \o (x \o y)) \o b
    BY <1>1 DEF TextAround
  <2>2. Regrouped(a, x, y)
    BY ONLY <1>30, TextReassociate
  <2>3. Regrouped(ax, y, b)
    BY ONLY <1>30, TextReassociate
  <2> QED BY <1>2, <2>1, <2>2, <2>3 DEF Regrouped
<1>5. text2 = (ax \o o) \o yb
  <2>1. text2 = (a \o ((x \o o) \o y)) \o b
    BY <1>1 DEF TextAround
  <2>2. PICK xo : xo = x \o o
    OBVIOUS
  <2>3. xo \in Text
    BY <1>1, <2>2, TextConcat
  <2>4. Regrouped(a, xo, y)
    BY ONLY <1>30, <2>3, TextReassociate
  <2>5. Regrouped(a, x, o)
    BY ONLY <1>30, TextReassociate
  <2>6. PICK axo : axo = ax \o o
    OBVIOUS
  <2>7. axo \in Text
    BY <1>1, <1>3, <2>6, TextConcat
  <2>8. Regrouped(axo, y, b)
    BY ONLY <1>30, <2>7, TextReassociate
  <2> QED BY <1>2, <2>1, <2>2, <2>4, <2>5, <2>6, <2>8 DEF Regrouped
<1> QED BY <1>1, <1>3, <1>4, <1>5 DEF WordPut

\* The words of S in a text with one more word.
PutAmong(S, u, b, v) ==
  \E x, y \in Seq(S) : u = x \o y /\ v = (x \o OneWord(b, S)) \o y

LEMMA WordPutWords ==
  ASSUME NEW text, NEW text2, NEW word \in Token, WordPut(text, word, text2), NEW S
  PROVE  PutAmong(S, WordsIn(text, S), word.body, WordsIn(text2, S))
<1>1. PICK a, o, b \in Text : text = a \o b /\ o = <<word>> /\ text2 = (a \o o) \o b
  BY DEF WordPut
<1>2. PICK x, y : x = WordsIn(a, S) /\ y = WordsIn(b, S)
  OBVIOUS
<1>3. x \in Seq(S) /\ y \in Seq(S)
  BY <1>1, <1>2, WordsType
<1>4. WordsIn(text, S) = x \o y
  <2>1. WordsIn(a \o b, S) = WordsIn(a, S) \o WordsIn(b, S)
    BY WordsConcat
  <2> QED BY <1>1, <1>2, <2>1
<1>5. TextAround(text2, o, a, b)
  BY <1>1 DEF TextAround
<1>6. WordsIn(text2, S) = (x \o WordsIn(o, S)) \o y
  <2>1. a \in Text /\ o \in Text /\ b \in Text
    OBVIOUS
  <2>2. TextAround(WordsIn(text2, S), WordsIn(o, S), WordsIn(a, S), WordsIn(b, S))
    BY ONLY <1>5, <2>1, WordsAround
  <2> QED BY <1>2, <2>2 DEF TextAround
<1>7. WordsIn(o, S) = OneWord(word.body, S)
  BY <1>1, WordsSmall DEF OneWord
<1> QED BY <1>3, <1>4, <1>6, <1>7 DEF PutAmong

\* Words of others stay as they are.
LEMMA WordPutElsewhere ==
  ASSUME NEW text, NEW text2, NEW word \in Token, WordPut(text, word, text2), NEW S,
         word.body \notin S
  PROVE  WordsIn(text2, S) = WordsIn(text, S)
<1>1. PICK x, y \in Seq(S) : /\ WordsIn(text, S) = x \o y
                             /\ WordsIn(text2, S) = (x \o OneWord(word.body, S)) \o y
  <2>1. PutAmong(S, WordsIn(text, S), word.body, WordsIn(text2, S))
    BY WordPutWords
  <2> QED BY <2>1 DEF PutAmong
<1>2. OneWord(word.body, S) = <<>>
  BY DEF OneWord
<1>3. x \o <<>> = x
  BY <1>1, ConcatEmptySeq
<1> QED BY <1>1, <1>2, <1>3

LEMMA AdjustedInside ==
  ASSUME NEW word_index \in Int, NEW word_offset \in Int, NEW count \in Nat
  PROVE  AdjustedIndex(word_index, word_offset, count) \in 0 .. count
BY DEF AdjustedIndex

\* One step of the commit loop: the sentence gets the word at the adjusted index, and
\* every other sentence stays.
InsertsInto(doc, i, e, new) ==
  \E k \in 0 .. Len(doc[i + 1].words) : \E r2 \in Text :
    /\ k = AdjustedIndex(e.ops[e.applied + 1].word_index, e.word_offset,
                         Len(doc[i + 1].words))
    /\ PutBehind(Token, doc[i + 1].words, k, e.ops[e.applied + 1].word, r2)
    /\ new = SetWords(doc, i, r2)

LEMMA SentenceWords ==
  ASSUME NEW doc \in Document, NEW i \in Nat, i < Len(doc)
  PROVE  doc[i + 1] \in Sentence /\ doc[i + 1].words \in Text
<1>1. i + 1 \in 1 .. Len(doc)
  BY LenProperties DEF Document
<1>2. doc[i + 1] \in Sentence
  BY <1>1, ElementOfSeq DEF Document
<1> QED BY <1>2 DEF Sentence, Text

LEMMA WordInsertedIs ==
  ASSUME NEW doc \in Document, NEW i \in Nat, NEW e \in EditLocals,
         e.ops[e.applied + 1] \in EditOp
  PROVE  /\ i < Len(doc) => InsertsInto(doc, i, e, WordInserted(doc, i, e))
         /\ ~(i < Len(doc)) => WordInserted(doc, i, e) = doc
<1>1. PICK op : op = e.ops[e.applied + 1]
  OBVIOUS
<1>2. op.word_index \in Int /\ op.word \in Token /\ e.word_offset \in Int
  BY <1>1 DEF EditOp, EditLocals
<1>3. CASE i < Len(doc)
  <2>1. PICK r : r = doc[i + 1].words
    OBVIOUS
  <2>2. r \in Text
    BY <1>3, <2>1, SentenceWords
  <2>3. Len(r) \in Nat
    BY <2>2, LenProperties DEF Text
  <2>4. PICK k \in 0 .. Len(r) : k = AdjustedIndex(op.word_index, e.word_offset, Len(r))
    BY <1>2, <2>3, AdjustedInside
  <2>5. PICK r2 : r2 = InsertAt(r, k + 1, op.word)
    OBVIOUS
  <2>6. PutBehind(Token, r, k, op.word, r2)
    BY <1>2, <2>2, <2>4, <2>5, InsertAtSplits DEF Text
  <2>7. r2 \in Text
    BY <1>2, <2>2, <2>4, <2>6, PutBehindProperties DEF Text
  <2>8. WordInserted(doc, i, e) = SetWords(doc, i, r2)
    BY <1>1, <2>1, <2>4, <2>5 DEF WordInserted, SetWords
  <2> QED BY <1>1, <1>3, <2>1, <2>4, <2>6, <2>7, <2>8 DEF InsertsInto
<1>4. CASE ~(i < Len(doc))
  <2>1. DOMAIN doc = 1 .. Len(doc) /\ Len(doc) \in Nat
    BY LenProperties DEF Document
  <2>2. i + 1 \notin DOMAIN doc
    BY <1>4, <2>1
  <2>3. doc = [j \in DOMAIN doc |-> doc[j]]
    BY DEF Document
  <2> QED BY <1>4, <2>2, <2>3 DEF WordInserted
<1> QED BY <1>3, <1>4

LEMMA InsertsIntoType ==
  ASSUME NEW doc \in Document, NEW i \in Nat, i < Len(doc), NEW e \in EditLocals,
         e.ops[e.applied + 1] \in EditOp, NEW new, InsertsInto(doc, i, e, new)
  PROVE  /\ new \in Document /\ Len(new) = Len(doc)
         /\ WordPut(UndoText(doc), e.ops[e.applied + 1].word, UndoText(new))
<1>1. PICK r, w : r = doc[i + 1].words /\ w = e.ops[e.applied + 1].word
  OBVIOUS
<1>2. r \in Text /\ w \in Token
  BY <1>1, SentenceWords DEF EditOp
<1>3. PICK k \in 0 .. Len(r), r2 \in Text : /\ PutBehind(Token, r, k, w, r2)
                                            /\ new = SetWords(doc, i, r2)
  BY <1>1 DEF InsertsInto
<1>4. new \in Document /\ Len(new) = Len(doc)
  BY <1>3, SetWordsType
<1>5. PICK a, b \in Text : /\ TextAround(UndoText(doc), r, a, b)
                           /\ TextAround(UndoText(new), r2, a, b)
  BY <1>1, <1>3, SetWordsText
<1>6. WordPut(UndoText(doc), w, UndoText(new))
  BY <1>2, <1>3, <1>5, PutInside
<1> QED BY <1>1, <1>4, <1>6

\* The sentence a commit creates one past the end has no words yet.
LEMMA TargetType ==
  ASSUME NEW doc \in Document, NEW i \in Nat
  PROVE  /\ WithTarget(doc, i) \in Document
         /\ UndoText(WithTarget(doc, i)) = UndoText(doc)
         /\ Len(doc) \in Nat /\ Len(WithTarget(doc, i)) \in Nat
         /\ Len(doc) <= Len(WithTarget(doc, i))
         /\ \A j \in Nat : WordCount(WithTarget(doc, i), j) = WordCount(doc, j)
<1>1. PICK n \in Nat : n = Len(doc)
  BY LenProperties DEF Document
<1>2. CASE i # n
  BY <1>1, <1>2 DEF WithTarget
<1>3. CASE i = n
  <2>1. PICK s : s = [words |-> <<>>, delimiter |-> NoMark]
    OBVIOUS
  <2>2. s \in Sentence /\ s.words = <<>>
    BY <2>1 DEF Sentence
  <2>3. PICK d : d = Append(doc, s)
    OBVIOUS
  <2>4. WithTarget(doc, i) = d
    BY <1>1, <1>3, <2>1, <2>3 DEF WithTarget
  <2>5. d \in Document /\ UndoText(d) = UndoText(doc) \o s.words
    BY <2>2, <2>3, UndoTextAppend
  <2>6. UndoText(doc) \o <<>> = UndoText(doc)
    BY UndoTextType, ConcatEmptySeq DEF Text
  <2>7. Len(d) = n + 1 /\ d[n + 1] = s /\ \A j \in 1 .. n : d[j] = doc[j]
    BY <1>1, <2>2, <2>3, AppendProperties DEF Document
  <2>8. ASSUME NEW j \in Nat PROVE WordCount(d, j) = WordCount(doc, j)
    <3>1. CASE j < n
      <4>1. j + 1 \in 1 .. n /\ j < n + 1
        BY <3>1
      <4> QED BY <1>1, <2>7, <3>1, <4>1 DEF WordCount
    <3>2. CASE j = n
      <4>1. j < n + 1 /\ ~(j < n) /\ j + 1 = n + 1
        BY <3>2
      <4>2. Len(d[j + 1].words) = 0
        BY <2>2, <2>7, <4>1
      <4> QED BY <1>1, <2>7, <4>1, <4>2 DEF WordCount
    <3>3. CASE j > n
      <4>1. ~(j < n + 1) /\ ~(j < n)
        BY <3>3
      <4> QED BY <1>1, <2>7, <4>1 DEF WordCount
    <3> QED BY <3>1, <3>2, <3>3
  <2> QED BY <1>1, <2>2, <2>4, <2>5, <2>6, <2>7, <2>8
<1> QED BY <1>2, <1>3

-----------------------------------------------------------------------------
\* Types of the data: what is read is there.  A rename finds the swap file its commit
\* wrote, the copies of UNDO and REVERT the file they opened.
SourcesExist ==
  \A c \in Conns :
    /\ pc[c] = "rename" => swap # NoFile
    /\ pc[c] = "undo_copy" => undo # NoFile
    /\ pc[c] = "revert_copy" => ckpt # NoFile

LocksInside == \A i \in Index : locked_by[i] # NoUser => loaded /\ i < Len(mem)

LEMMA WordCountType ==
  ASSUME NEW doc \in Document, NEW i \in Nat
  PROVE  WordCount(doc, i) \in Nat
<1>1. CASE i < Len(doc)
  <2>1. PICK w \in Text : w = doc[i + 1].words
    BY <1>1, SentenceWords
  <2> QED BY <1>1, <2>1, LenProperties DEF WordCount, Text
<1>2. CASE ~(i < Len(doc))
  BY <1>2 DEF WordCount
<1> QED BY <1>1, <1>2

LEMMA CachedType ==
  ASSUME DataTypeOK
  PROVE  get_file_from_cache \in Document /\ Len(get_file_from_cache) \in Nat
<1>1. get_file_from_cache \in Document
  BY ParseIs DEF DataTypeOK, get_file_from_cache
<1> QED BY <1>1, LenProperties DEF Document

\* A lookup keeps the cache well-formed and every locked sentence in it.
LEMMA CacheLoadedType ==
  ASSUME DataTypeOK, CacheLoaded, locked_by' = locked_by
  PROVE  loaded' = TRUE /\ mem' \in Document /\ LocksInside'
<1>1. mem' = get_file_from_cache /\ loaded' = TRUE /\ mem' \in Document
  BY CachedType DEF CacheLoaded
<1>2. ASSUME NEW i \in Index, locked_by[i] # NoUser PROVE i < Len(mem')
  <2>1. loaded /\ i < Len(mem)
    BY <1>2 DEF DataTypeOK
  <2> QED BY <1>1, <2>1 DEF get_file_from_cache
<1> QED BY <1>1, <1>2 DEF LocksInside

\* unlock_sentence_ll only takes a lock away.
LEMMA UnlockType ==
  ASSUME NEW c \in Conns, ControlTypeOK, DataTypeOK, unlock_sentence_ll(c)
  PROVE  loaded' = TRUE /\ mem' \in Document /\ LocksInside'
<1>1. mem' = get_file_from_cache /\ loaded' = TRUE /\ mem' \in Document
  BY CachedType DEF CacheLoaded, unlock_sentence_ll
<1>2. ASSUME NEW i \in Index, locked_by'[i] # NoUser PROVE i < Len(mem')
  <2>1. locked_by[i] # NoUser
    BY <1>2 DEF unlock_sentence_ll, ControlTypeOK
  <2>2. loaded /\ i < Len(mem)
    BY <2>1 DEF DataTypeOK
  <2> QED BY <1>1, <2>2 DEF get_file_from_cache
<1> QED BY <1>1, <1>2 DEF LocksInside

\* Queueing a batch of words gives a list of edit operations.
QueuedOps(base, batch) ==
  [k \in 1 .. Len(batch) |-> [word_index |-> base + k - 1, word |-> batch[k]]]

LEMMA QueuedOpsType ==
  ASSUME NEW base \in Nat, NEW batch \in Seq(Token)
  PROVE  /\ QueuedOps(base, batch) \in Seq(EditOp)
         /\ Len(QueuedOps(base, batch)) = Len(batch)
         /\ \A k \in 1 .. Len(batch) : /\ QueuedOps(base, batch)[k].word_index = base + k - 1
                                       /\ QueuedOps(base, batch)[k].word = batch[k]
<1>1. PICK n \in Nat : n = Len(batch)
  BY LenProperties
<1>2. PICK p : p = QueuedOps(base, batch)
  OBVIOUS
<1>3. \A k \in 1 .. n : batch[k] \in Token /\ base + k - 1 \in Int
  BY <1>1, ElementOfSeq
<1>4. \A k \in 1 .. n : p[k] = [word_index |-> base + k - 1, word |-> batch[k]]
  BY <1>1, <1>2 DEF QueuedOps
<1>5. ASSUME NEW k \in 1 .. n
      PROVE  p[k] \in EditOp /\ p[k].word_index = base + k - 1 /\ p[k].word = batch[k]
  <2>1. PICK b, i : b = batch[k] /\ i = base + k - 1
    OBVIOUS
  <2>2. b \in Token /\ i \in Int
    BY <1>3, <2>1
  <2>3. p[k] = [word_index |-> i, word |-> b]
    BY <1>4, <2>1
  <2> QED BY <2>1, <2>2, <2>3 DEF EditOp
<1>6. p = [k \in 1 .. n |-> p[k]]
  BY <1>1, <1>2 DEF QueuedOps
<1>7. p \in [1 .. n -> EditOp]
  BY <1>5, <1>6
<1>8. p \in Seq(EditOp) /\ Len(p) = n
  BY <1>7
<1> QED BY <1>1, <1>2, <1>5, <1>8

LEMMA QueuedType ==
  ASSUME NEW e \in EditLocals, NEW base \in Nat, NEW batch \in Seq(Token)
  PROVE  /\ Queued(e, base, batch) \in EditLocals
         /\ Queued(e, base, batch).original_word_count = e.original_word_count
         /\ Queued(e, base, batch).applied = e.applied
         /\ Queued(e, base, batch).ops = e.ops \o QueuedOps(base, batch)
<1>1. PICK n \in Nat : n = Len(batch)
  BY LenProperties
<1>2. PICK ops : ops = e.ops \o QueuedOps(base, batch)
  OBVIOUS
<1>3. ops \in Seq(EditOp)
  <2>1. e.ops \in Seq(EditOp) /\ QueuedOps(base, batch) \in Seq(EditOp)
    BY QueuedOpsType DEF EditLocals
  <2> QED BY <1>2, <2>1, ConcatProperties
<1>4. PICK delimited : delimited = {k \in 1 .. n : EndsSentence(batch[k])}
  OBVIOUS
<1>5. delimited # {} => base + Min(delimited) - 1 \in Int
  <2>1. delimited \in SUBSET Nat
    BY <1>4
  <2>2. ASSUME delimited # {} PROVE Min(delimited) \in Nat
    BY <2>1, <2>2, MinIsLeast
  <2> QED BY <2>2
<1>6. PICK d : d = IF e.delimiter_index >= 0 THEN e.delimiter_index + n
                   ELSE IF delimited # {} THEN base + Min(delimited) - 1
                   ELSE e.delimiter_index
  OBVIOUS
<1>7. e.delimiter_index \in Int
  BY DEF EditLocals
<1>8. d \in Int
  BY <1>5, <1>6, <1>7
<1>9. Queued(e, base, batch) = [e EXCEPT !.ops = ops, !.delimiter_index = d]
  BY <1>1, <1>2, <1>4, <1>6 DEF Queued, QueuedOps
<1> QED BY <1>2, <1>3, <1>8, <1>9 DEF EditLocals

DataInv == DataTypeOK /\ SourcesExist

LEMMA DataTypes == Spec => []DataInv
<1>1. Init => DataInv
  <2> SUFFICES ASSUME Init PROVE DataInv
    OBVIOUS
  <2>1. <<>> \in Text /\ <<>> \in Document /\ <<>> \in Seq(EditOp)
    BY DEF Text, Document
  <2>2. NoEdits \in EditLocals
    BY <2>1 DEF NoEdits, EditLocals
  <2>3. DataTypeOK
    <3>1. disk \in Text /\ ino \in Nat /\ mem \in Document /\ loaded \in BOOLEAN
      BY <2>1, TextAssumption DEF Init
    <3>2. /\ swap \in Text \cup {NoFile} /\ undo \in Text \cup {NoFile}
          /\ ckpt \in Text \cup {NoFile} /\ crashes \in 0 .. MaxCrashes
      BY TextAssumption DEF Init
    <3>3. /\ edit \in [Conns -> EditLocals] /\ dst \in [Conns -> Nat]
          /\ displaced \in [Conns -> Text]
      BY <2>1, <2>2 DEF Init
    <3>4. \A i \in Index : locked_by[i] = NoUser
      BY DEF Init
    <3> QED BY <3>1, <3>2, <3>3, <3>4 DEF DataTypeOK
  <2>4. SourcesExist
    BY DEF Init, SourcesExist
  <2> QED BY <2>3, <2>4 DEF DataInv
<1>2. ControlTypeOK /\ MutexesMatch /\ DataInv /\ [Next]_vars => DataInv'
  <2> SUFFICES ASSUME ControlTypeOK, MutexesMatch, DataInv, [Next]_vars PROVE DataInv'
    OBVIOUS
  <2>0. DataTypeOK
    BY DEF DataInv
  <2> USE <2>0
  <2>1. ASSUME NEW c \in Conns, NEW i \in Index, ValidateWrite(c, i)
        PROVE  DataInv'
    <3>1. DataTypeOK'
      BY <2>1 DEF DataTypeOK, ValidateWrite
    <3>2. SourcesExist'
      BY <2>1 DEF DataInv, SourcesExist, ControlTypeOK, ValidateWrite, Goto, Finish
    <3> QED BY <3>1, <3>2 DEF DataInv
  <2>2. ASSUME NEW c \in Conns, NEW batch \in Batches[c], NEW base \in 0 .. MaxWordIndex,
             WriteCommand(c, base, batch)
        PROVE  DataInv'
    <3>1. base \in Nat /\ batch \in Seq(Token) /\ edit[c] \in EditLocals
      BY TextAssumption DEF DataTypeOK
    <3>2. Queued(edit[c], base, batch) \in EditLocals
      BY <3>1, QueuedType
    <3>3. edit' \in [Conns -> EditLocals]
      BY <2>2, <3>2 DEF WriteCommand, DataTypeOK
    <3> QED BY <2>2, <3>3 DEF DataInv, DataTypeOK, SourcesExist, WriteCommand
  <2>3. ASSUME NEW c \in Conns, EndWrite(c)
        PROVE  DataInv'
    <3>1. loaded' = TRUE /\ mem' \in Document /\ LocksInside'
      BY <2>3, UnlockType DEF EndWrite
    <3> QED BY <2>3, <3>1 DEF DataInv, DataTypeOK, SourcesExist, LocksInside, EndWrite, Goto
  <2>4. ASSUME NEW c \in Conns, Disconnect(c)
        PROVE  DataInv'
    <3>1. loaded' = TRUE /\ mem' \in Document /\ LocksInside'
      BY <2>4, UnlockType DEF Disconnect
    <3> QED BY <2>4, <3>1 DEF DataInv, DataTypeOK, SourcesExist, LocksInside, Disconnect, Goto
  <2>5. ASSUME NEW c \in Conns, UndoRequest(c)
        PROVE  DataInv'
    <3>1. DataTypeOK'
      BY <2>5 DEF DataTypeOK, UndoRequest
    <3>2. SourcesExist'
      BY <2>5 DEF DataInv, SourcesExist, ControlTypeOK, UndoRequest, Goto
    <3> QED BY <3>1, <3>2 DEF DataInv
  <2>6. ASSUME NEW c \in Conns, CheckpointOpen(c)
        PROVE  DataInv'
    <3>0. <<>> \in Text
      BY DEF Text
    <3>1. <<>> \in Text /\ <<>> # NoFile
      BY <3>0, TextAssumption
    <3> QED BY <2>6, <3>1 DEF DataInv, DataTypeOK, SourcesExist, CheckpointOpen, Goto
  <2>7. ASSUME NEW c \in Conns, RevertNoCheckpoint(c)
        PROVE  DataInv'
    <3>1. DataTypeOK'
      BY <2>7 DEF DataTypeOK, RevertNoCheckpoint
    <3>2. SourcesExist'
      BY <2>7 DEF DataInv, SourcesExist, ControlTypeOK, RevertNoCheckpoint, Finish
    <3> QED BY <3>1, <3>2 DEF DataInv
  <2>8. ASSUME NEW c \in Conns, RevertOpen(c)
        PROVE  DataInv'
    <3>1. <<>> \in Text
      BY DEF Text
    <3> QED BY <2>8, <3>1 DEF DataInv, DataTypeOK, SourcesExist, RevertOpen, Goto
  <2>9. ASSUME NEW c \in Conns, LockRefused(c)
        PROVE  DataInv'
    <3>1. loaded' = TRUE /\ mem' \in Document /\ LocksInside'
      BY <2>9, CacheLoadedType DEF LockRefused
    <3>2. DataTypeOK'
      BY <2>9, <3>1 DEF DataTypeOK, LocksInside, LockRefused
    <3>3. SourcesExist'
      BY <2>9 DEF DataInv, SourcesExist, ControlTypeOK, LockRefused, Finish
    <3> QED BY <3>2, <3>3 DEF DataInv
  <2>10. ASSUME NEW c \in Conns, LockNewSentence(c)
        PROVE  DataInv'
    <3>1. loaded' = TRUE /\ mem' \in Document /\ LocksInside'
      BY <2>10, CacheLoadedType DEF LockNewSentence
    <3>2. DataTypeOK'
      BY <2>10, <3>1 DEF DataTypeOK, LocksInside, LockNewSentence
    <3>3. SourcesExist'
      BY <2>10 DEF DataInv, SourcesExist, ControlTypeOK, LockNewSentence, Goto
    <3> QED BY <3>2, <3>3 DEF DataInv
  <2>11. ASSUME NEW c \in Conns, LockSentence(c)
        PROVE  DataInv'
    <3>1. mem' = get_file_from_cache /\ loaded' = TRUE /\ mem' \in Document
      BY <2>11, CachedType DEF LockSentence, CacheLoaded
    <3>2. ASSUME NEW i \in Index, locked_by'[i] # NoUser PROVE i < Len(mem')
      <4>1. CASE i = index[c]
        BY <2>11, <3>1, <4>1 DEF LockSentence
      <4>2. CASE i # index[c]
        <5>1. loaded /\ i < Len(mem)
          BY <2>11, <3>2, <4>2 DEF LockSentence, ControlTypeOK, DataTypeOK
        <5> QED BY <3>1, <5>1 DEF get_file_from_cache
      <4> QED BY <4>1, <4>2
    <3> QED BY <2>11, <3>1, <3>2 DEF DataInv, DataTypeOK, SourcesExist, LockSentence, Goto
  <2>12. ASSUME NEW c \in Conns, RecordWordCount(c)
        PROVE  DataInv'
    <3>1. loaded' = TRUE /\ mem' \in Document /\ LocksInside'
      BY <2>12, CacheLoadedType DEF RecordWordCount
    <3>2. WordCount(get_file_from_cache, index[c]) \in Nat
      BY CachedType, WordCountType DEF ControlTypeOK, Index
    <3>3. edit' \in [Conns -> EditLocals]
      <4>1. PICK n \in Nat : n = WordCount(get_file_from_cache, index[c])
        BY <3>2
      <4>2. [edit[c] EXCEPT !.original_word_count = n] \in EditLocals
        <5>1. edit[c] \in EditLocals
          BY DEF DataTypeOK
        <5> QED BY <5>1 DEF EditLocals
      <4>3. edit' = [edit EXCEPT ![c] = [edit[c] EXCEPT !.original_word_count = n]]
        BY <2>12, <4>1 DEF RecordWordCount
      <4> QED BY <4>2, <4>3 DEF DataTypeOK
    <3> QED BY <2>12, <3>1, <3>3 DEF DataInv, DataTypeOK, SourcesExist, LocksInside, RecordWordCount, Goto
  <2>13. ASSUME NEW c \in Conns, OpenBackup(c)
        PROVE  DataInv'
    <3>1. loaded' = TRUE /\ mem' \in Document /\ LocksInside'
      BY <2>13, CacheLoadedType DEF OpenBackup
    <3>2. undo' \in Text /\ undo' # NoFile
      <4>1. <<>> \in Text
        BY DEF Text
      <4> QED BY <2>13, <4>1, TextAssumption DEF OpenBackup
    <3> QED BY <2>13, <3>1, <3>2 DEF DataInv, DataTypeOK, SourcesExist, LocksInside, OpenBackup, Goto
  <2>14. ASSUME NEW c \in Conns, WriteBackup(c)
        PROVE  DataInv'
    <3>1. loaded' = TRUE /\ mem' \in Document /\ LocksInside'
      BY <2>14, CacheLoadedType DEF WriteBackup
    <3>2. undo' \in Text /\ undo' # NoFile
      BY <2>14, CachedType, UndoTextType, TextAssumption DEF WriteBackup
    <3> QED BY <2>14, <3>1, <3>2 DEF DataInv, DataTypeOK, SourcesExist, LocksInside, WriteBackup, Goto
  <2>15. ASSUME NEW c \in Conns, BeginCommit(c)
        PROVE  DataInv'
    <3>1. index[c] \in Nat /\ edit[c] \in EditLocals /\ gen \in Nat
      BY DEF ControlTypeOK, DataTypeOK, Index
    <3>2. PICK doc : doc = WithTarget(get_file_from_cache, index[c])
      OBVIOUS
    <3>3. /\ doc \in Document
          /\ Len(get_file_from_cache) \in Nat /\ Len(doc) \in Nat
          /\ Len(get_file_from_cache) <= Len(doc)
      BY <3>1, <3>2, CachedType, TargetType
    <3>4. loaded' = TRUE /\ mem' = doc
      BY <2>15, <3>2 DEF BeginCommit
    <3>5. LocksInside'
      <4>1. ASSUME NEW i \in Index, locked_by[i] # NoUser PROVE i < Len(doc)
        <5>1. loaded /\ i < Len(mem)
          BY <4>1 DEF DataTypeOK
        <5>2. i < Len(get_file_from_cache)
          BY <5>1 DEF get_file_from_cache
        <5> QED BY <3>3, <5>2 DEF Index
      <4> QED BY <2>15, <3>4, <4>1 DEF BeginCommit, LocksInside
    <3>6. edit' \in [Conns -> EditLocals]
      <4>1. WordCount(doc, index[c]) \in Nat
        BY <3>1, <3>3, WordCountType
      <4>2. WordCount(doc, index[c]) - edit[c].original_word_count \in Int
        BY <3>1, <4>1 DEF EditLocals
      <4>3. edit \in [Conns -> EditLocals]
        BY DEF DataTypeOK
      <4>4. CASE edit' = edit
        BY <4>3, <4>4
      <4>5. CASE edit' = [edit EXCEPT ![c].doc = gen,
                            ![c].word_offset = WordCount(doc, index[c])
                                                 - edit[c].original_word_count]
        BY <3>1, <4>2, <4>3, <4>5 DEF EditLocals
      <4> QED BY <2>15, <3>2, <4>4, <4>5 DEF BeginCommit
    <3>7. UNCHANGED <<disk, ino, swap, undo, ckpt, dst, displaced, crashes>>
      BY <2>15 DEF BeginCommit
    <3>8. DataTypeOK'
      BY <3>3, <3>4, <3>5, <3>6, <3>7 DEF DataTypeOK, LocksInside
    <3>9. SourcesExist'
      <4>1. \A d \in Conns : pc'[d] \in {"done", "apply", pc[d]}
        BY <2>15 DEF BeginCommit, Goto, Finish, ControlTypeOK
      <4> QED BY <3>7, <4>1 DEF DataInv, SourcesExist
    <3> QED BY <3>8, <3>9 DEF DataInv
  <2>16. ASSUME NEW c \in Conns, ApplyEdit(c)
        PROVE  DataInv'
    <3>1. PICK e : e = edit[c]
      OBVIOUS
    <3>2. e \in EditLocals /\ index[c] \in Nat /\ mem \in Document
      BY <3>1 DEF ControlTypeOK, DataTypeOK, Index
    <3>3. e.ops[e.applied + 1] \in EditOp
      <4>1. e.ops \in Seq(EditOp) /\ e.applied \in Nat /\ Len(e.ops) \in Nat
        BY <3>2, LenProperties DEF EditLocals
      <4>2. e.applied + 1 \in 1 .. Len(e.ops)
        BY <2>16, <3>1, <4>1 DEF ApplyEdit
      <4> QED BY <4>1, <4>2, ElementOfSeq
    <3>4. PICK new : new = WordInserted(mem, index[c], e)
      OBVIOUS
    <3>5. new \in Document /\ Len(new) = Len(mem)
      BY <3>2, <3>3, <3>4, WordInsertedIs, InsertsIntoType
    <3>6. mem' \in Document /\ Len(mem') = Len(mem)
      BY <2>16, <3>1, <3>2, <3>4, <3>5 DEF ApplyEdit
    <3>7. edit' \in [Conns -> EditLocals]
      <4>1. [e EXCEPT !.applied = e.applied + 1] \in EditLocals
        BY ONLY <3>2 DEF EditLocals
      <4>2. edit' = [edit EXCEPT ![c] = [e EXCEPT !.applied = e.applied + 1]]
        BY <2>16, <3>1 DEF ApplyEdit
      <4> QED BY <4>1, <4>2 DEF DataTypeOK
    <3> QED BY <2>16, <3>6, <3>7 DEF DataInv, DataTypeOK, SourcesExist, ApplyEdit
  <2>17. ASSUME NEW c \in Conns, SyncToSwap(c)
        PROVE  DataInv'
    <3>1. loaded' = TRUE /\ mem' \in Document /\ LocksInside'
      BY <2>17, CacheLoadedType DEF SyncToSwap
    <3>2. swap' \in Text /\ swap' # NoFile
      BY <2>17, CachedType, WrittenIs, TextAssumption DEF SyncToSwap
    <3> QED BY <2>17, <3>1, <3>2 DEF DataInv, DataTypeOK, SourcesExist, LocksInside, SyncToSwap, Goto
  <2>18. ASSUME NEW c \in Conns, Rename(c)
        PROVE  DataInv'
    <3>1. swap \in Text
      BY <2>18 DEF DataInv, DataTypeOK, SourcesExist, Rename
    <3>2. displaced' \in [Conns -> Text]
      BY <2>18 DEF Rename, Replaced, DataTypeOK
    <3>3. DataTypeOK'
      BY <2>18, <3>1, <3>2 DEF DataTypeOK, Rename
    <3>4. ASSUME NEW d \in Conns PROVE pc'[d] # "rename"
      BY <2>18 DEF Rename, Goto, MutexesMatch, InCommit, ControlTypeOK
    <3>5. SourcesExist'
      BY <2>18, <3>4 DEF DataInv, SourcesExist, Rename, Goto, ControlTypeOK
    <3> QED BY <3>3, <3>5 DEF DataInv
  <2>18a. ASSUME NEW c \in Conns, AnswerWrite(c)
        PROVE  DataInv'
    <3>1. DataTypeOK'
      BY <2>18a DEF DataTypeOK, AnswerWrite
    <3>2. SourcesExist'
      BY <2>18a DEF DataInv, SourcesExist, ControlTypeOK, AnswerWrite, Finish
    <3> QED BY <3>1, <3>2 DEF DataInv
  <2>18b. ASSUME NEW c \in Conns, OpenSwapFails(c)
        PROVE  DataInv'
    <3>1. loaded' = TRUE /\ mem' \in Document /\ LocksInside'
      BY <2>18b, CacheLoadedType DEF OpenSwapFails
    <3> QED BY <2>18b, <3>1 DEF DataInv, DataTypeOK, SourcesExist, LocksInside, OpenSwapFails, Goto
  <2>18c. ASSUME NEW c \in Conns, RenameFails(c)
        PROVE  DataInv'
    <3>1. DataTypeOK'
      BY <2>18c DEF DataTypeOK, RenameFails
    <3>2. ASSUME NEW d \in Conns PROVE pc'[d] # "rename"
      BY <2>18c DEF RenameFails, Goto, MutexesMatch, InCommit, ControlTypeOK
    <3>3. SourcesExist'
      BY <2>18c, <3>2 DEF DataInv, SourcesExist, RenameFails, Goto, ControlTypeOK
    <3> QED BY <3>1, <3>3 DEF DataInv
  <2>18d. ASSUME NEW c \in Conns, UndoOpenFails(c)
        PROVE  DataInv'
    <3>1. disk' \in Text
      <4>1. <<>> \in Text
        BY DEF Text
      <4> QED BY <2>18d, <4>1 DEF UndoOpenFails, DataTypeOK
    <3>2. DataTypeOK'
      BY <2>18d, <3>1 DEF DataTypeOK, UndoOpenFails
    <3>3. SourcesExist'
      BY <2>18d DEF DataInv, SourcesExist, ControlTypeOK, UndoOpenFails, ReturnFromUndo, Finish
    <3> QED BY <3>2, <3>3 DEF DataInv
  <2>19. ASSUME NEW c \in Conns, UndoNoBackup(c)
        PROVE  DataInv'
    <3>1. DataTypeOK'
      BY <2>19 DEF DataTypeOK, UndoNoBackup
    <3>2. SourcesExist'
      BY <2>19 DEF DataInv, SourcesExist, ControlTypeOK, UndoNoBackup, ReturnFromUndo, Finish
    <3> QED BY <3>1, <3>2 DEF DataInv
  <2>20. ASSUME NEW c \in Conns, UndoOpen(c)
        PROVE  DataInv'
    <3>1. <<>> \in Text
      BY DEF Text
    <3> QED BY <2>20, <3>1 DEF DataInv, DataTypeOK, SourcesExist, UndoOpen, Goto
  <2>21. ASSUME NEW c \in Conns, UndoCopy(c)
        PROVE  DataInv'
    <3>1. undo \in Text
      BY <2>21 DEF DataInv, DataTypeOK, SourcesExist, UndoCopy
    <3>2. disk' \in Text /\ displaced' \in [Conns -> Text]
      BY <2>21, <3>1 DEF UndoCopy, Overwrite, Replaced, DataTypeOK
    <3> QED BY <2>21, <3>2 DEF DataInv, DataTypeOK, SourcesExist, UndoCopy, Goto
  <2>22. ASSUME NEW c \in Conns, UndoReload(c)
        PROVE  DataInv'
    <3>1. mem' \in Document
      BY <2>22, ParseIs DEF UndoReload, reload_file_from_disk, DataTypeOK
    <3> QED BY <2>22, <3>1 DEF DataInv, DataTypeOK, SourcesExist, UndoReload, ReturnFromUndo, Finish,
                          ControlTypeOK
  <2>23. ASSUME NEW c \in Conns, CheckpointCopy(c)
        PROVE  DataInv'
    <3>1. ckpt' \in Text /\ ckpt' # NoFile
      BY <2>23, TextAssumption DEF CheckpointCopy, DataTypeOK
    <3> QED BY <2>23, <3>1 DEF DataInv, DataTypeOK, SourcesExist, CheckpointCopy, Finish
  <2>24. ASSUME NEW c \in Conns, RevertCopy(c)
        PROVE  DataInv'
    <3>1. ckpt \in Text
      BY <2>24 DEF DataInv, DataTypeOK, SourcesExist, RevertCopy
    <3>2. disk' \in Text /\ displaced' \in [Conns -> Text]
      BY <2>24, <3>1 DEF RevertCopy, Overwrite, Replaced, DataTypeOK
    <3> QED BY <2>24, <3>2 DEF DataInv, DataTypeOK, SourcesExist, RevertCopy, Finish
  <2>25. ASSUME Crash
        PROVE  DataInv'
    <3>1. <<>> \in Document
      BY DEF Document
    <3>2. crashes' \in 0 .. MaxCrashes
      BY <2>25 DEF Crash, DataInv, DataTypeOK
    <3> QED BY <2>25, <3>1, <3>2 DEF DataInv, DataTypeOK, SourcesExist, Crash, ControlTypeOK
  <2>26. ASSUME UNCHANGED vars
        PROVE  DataInv'
    <3>1. DataTypeOK'
      BY <2>26 DEF DataTypeOK, vars
    <3>2. SourcesExist'
      BY <2>26 DEF DataInv, SourcesExist, ControlTypeOK, vars
    <3> QED BY <3>1, <3>2 DEF DataInv
  <2> QED
    BY <2>1, <2>2, <2>3, <2>4, <2>5, <2>6, <2>7, <2>8, <2>9, <2>10, <2>11, <2>12,
       <2>13, <2>14, <2>15, <2>16, <2>17, <2>18, <2>18a, <2>18b, <2>18c, <2>18d,
       <2>19, <2>20, <2>21, <2>22, <2>23,
       <2>24, <2>25, <2>26
       DEF Next, ServerStep, ClientStep, Done
<1> QED
  BY <1>1, <1>2, ControlTypes, MutexDiscipline, PTL DEF Spec

\* Every variable of WriteSession keeps its type, whatever the threads, the clients and
\* crashes do: in particular every text a thread reads exists, and a lock is only ever
\* held on a sentence that is in the cache.
THEOREM AllTypes == Spec => []TypeOK
<1>1. ControlTypeOK /\ DataInv => TypeOK
  BY DEF DataInv, TypeOK
<1> QED
  BY <1>1, ControlTypes, DataTypes, PTL

-----------------------------------------------------------------------------
(***************************************************************************)
(* Sessions.                                                               *)
(***************************************************************************)

\* Every queued word is one its client may send, ...
OpsOwn(c, e) == \A k \in 1 .. Len(e.ops) : e.ops[k].word.body \in OwnBodies(c)

\* ... and lies inside the sentence the session counted, grown by the words queued before.
OpsFit(e) ==
  \A k \in 1 .. Len(e.ops) : e.ops[k].word_index \in 0 .. e.original_word_count + k - 1

LEMMA QueuedFits ==
  ASSUME NEW c \in Conns, NEW e \in EditLocals, NEW base \in Nat, NEW batch \in Batches[c],
         batch \in Seq(Token), OpsOwn(c, e), OpsFit(e), e.applied <= Len(e.ops),
         BatchAccepted(e, base, batch), NEW f, f = Queued(e, base, batch)
  PROVE  OpsFit(f) /\ OpsOwn(c, f) /\ f.applied = e.applied /\ f.applied <= Len(f.ops)
<1>1. PICK q : q = QueuedOps(base, batch)
  OBVIOUS
<1>2. PICK b \in Nat : b = Len(batch)
  BY LenProperties
<1>3. /\ q \in Seq(EditOp) /\ Len(q) = b
      /\ \A k \in 1 .. b : q[k].word_index = base + k - 1 /\ q[k].word = batch[k]
  <2>1. /\ q \in Seq(EditOp) /\ Len(q) = Len(batch)
        /\ \A k \in 1 .. Len(batch) : q[k].word_index = base + k - 1 /\ q[k].word = batch[k]
    BY ONLY <1>1, base \in Nat, batch \in Seq(Token), QueuedOpsType
  <2> QED BY ONLY <1>2, <2>1
<1>4. /\ f.original_word_count = e.original_word_count /\ f.applied = e.applied
      /\ f.ops = e.ops \o q
  BY <1>1, QueuedType
<1>5. e.ops \in Seq(EditOp) /\ e.original_word_count \in Nat /\ e.applied \in Nat
  BY DEF EditLocals
<1>6. PICK n \in Nat : n = Len(e.ops)
  BY <1>5, LenProperties
<1>7. /\ Len(f.ops) = n + b
      /\ \A k \in 1 .. n + b : f.ops[k] = IF k <= n THEN e.ops[k] ELSE q[k - n]
  <2>1. PICK u, v : u = e.ops /\ v = f.ops
    OBVIOUS
  <2>2. u \in Seq(EditOp) /\ q \in Seq(EditOp) /\ v = u \o q
    BY <1>3, <1>4, <1>5, <2>1
  <2>3. /\ Len(v) = Len(u) + Len(q)
        /\ \A k \in 1 .. Len(u) + Len(q) : v[k] = IF k <= Len(u) THEN u[k] ELSE q[k - Len(u)]
    BY ONLY <2>2, ConcatProperties
  <2> QED BY <1>3, <1>6, <2>1, <2>3
<1>8. PICK o \in Nat : o = e.original_word_count
  BY <1>5
<1>9. ASSUME NEW k \in 1 .. b
      PROVE  q[k].word_index \in 0 .. o + (n + k) - 1 /\ q[k].word.body \in OwnBodies(c)
  <2>1. k - 1 \in 0 .. b - 1
    BY <1>2
  <2>2. base + (k - 1) <= o + n + (k - 1)
    BY <1>2, <1>6, <1>8, <2>1 DEF BatchAccepted
  <2>3. q[k].word_index \in 0 .. o + (n + k) - 1
    BY <1>3, <2>2
  <2>4. k \in DOMAIN batch
    BY <1>2, LenProperties
  <2>5. batch[k].body \in OwnBodies(c)
    BY <2>4 DEF OwnBodies
  <2> QED BY <1>3, <2>3, <2>5
<1>10. ASSUME NEW k \in 1 .. n + b
       PROVE  f.ops[k].word_index \in 0 .. o + k - 1 /\ f.ops[k].word.body \in OwnBodies(c)
  <2>1. CASE k <= n
    <3>1. k \in 1 .. n /\ f.ops[k] = e.ops[k]
      BY <1>7, <2>1
    <3> QED BY <1>6, <1>8, <3>1 DEF OpsFit, OpsOwn
  <2>2. CASE ~(k <= n)
    <3>1. PICK j \in 1 .. b : j = k - n
      BY <2>2
    <3>2. f.ops[k] = q[j] /\ n + j = k
      BY <1>7, <2>2, <3>1
    <3> QED BY <1>9, <3>2
  <2> QED BY <2>1, <2>2
<1>11. f.applied <= Len(f.ops)
  BY <1>4, <1>5, <1>6, <1>7
<1>12. OpsFit(f)
  BY <1>4, <1>7, <1>8, <1>10 DEF OpsFit
<1>13. OpsOwn(c, f)
  BY <1>7, <1>10 DEF OpsOwn
<1> QED BY <1>4, <1>11, <1>12, <1>13

\* The local variables of a write session along its life.
SessionInv ==
  \A c \in Conns :
    /\ pc[c] \in {"lock", "count", "open_backup", "write_backup", "edit", "commit",
                  "apply", "rename"} => Request[c] = "WRITE"
    /\ OpsFit(edit[c]) /\ OpsOwn(c, edit[c])
    /\ pc[c] \in {"start", "lock", "count"} => edit[c].ops = <<>>
    /\ pc[c] \in {"start", "lock", "count", "open_backup", "write_backup", "edit", "commit"}
         => edit[c].applied = 0
    /\ edit[c].applied <= Len(edit[c].ops)

LEMMA SessionsFit == Spec => []SessionInv
<1>1. Init => SessionInv
  BY DEF Init, SessionInv, NoEdits, OpsFit, OpsOwn
<1>2. ControlTypeOK /\ DataTypeOK /\ SessionInv /\ [Next]_vars => SessionInv'
  <2> SUFFICES ASSUME ControlTypeOK, DataTypeOK, SessionInv, [Next]_vars PROVE SessionInv'
    OBVIOUS
  <2>0. edit \in [Conns -> EditLocals] /\ pc \in [Conns -> PCs]
    BY DEF ControlTypeOK, DataTypeOK
  <2> USE <2>0 DEF SessionInv
  <2>1. ASSUME NEW c \in Conns, NEW i \in Index, ValidateWrite(c, i)
        PROVE  SessionInv'
    BY <2>1 DEF ValidateWrite, Goto, Finish
  <2>2. ASSUME NEW c \in Conns, NEW batch \in Batches[c], NEW base \in 0 .. MaxWordIndex,
             WriteCommand(c, base, batch)
        PROVE  SessionInv'
    <3>1. base \in Nat /\ batch \in Seq(Token) /\ edit[c] \in EditLocals
      BY TextAssumption
    <3>2. PICK e, f : e = edit[c] /\ f = Queued(edit[c], base, batch)
      OBVIOUS
    <3>3. OpsFit(f) /\ OpsOwn(c, f) /\ f.applied = e.applied /\ f.applied <= Len(f.ops)
      <4>1. OpsFit(e) /\ OpsOwn(c, e) /\ e.applied <= Len(e.ops) /\ BatchAccepted(e, base, batch)
        BY <2>2, <3>2 DEF WriteCommand
      <4> QED BY <3>1, <3>2, <4>1, QueuedFits
    <3>4. f.applied = 0
      BY <2>2, <3>2, <3>3 DEF WriteCommand
    <3>5. pc' = pc /\ edit'[c] = f /\ \A d \in Conns : d # c => edit'[d] = edit[d]
      BY <2>2, <3>2 DEF WriteCommand
    <3> QED BY <2>2, <3>3, <3>4, <3>5 DEF WriteCommand
  <2>3. ASSUME NEW c \in Conns, EndWrite(c)
        PROVE  SessionInv'
    BY <2>3 DEF EndWrite, Goto
  <2>4. ASSUME NEW c \in Conns, Disconnect(c)
        PROVE  SessionInv'
    BY <2>4 DEF Disconnect, Goto
  <2>5. ASSUME NEW c \in Conns, UndoRequest(c)
        PROVE  SessionInv'
    BY <2>5 DEF UndoRequest, Goto
  <2>6. ASSUME NEW c \in Conns, CheckpointOpen(c)
        PROVE  SessionInv'
    BY <2>6 DEF CheckpointOpen, Goto
  <2>7. ASSUME NEW c \in Conns, RevertNoCheckpoint(c)
        PROVE  SessionInv'
    BY <2>7 DEF RevertNoCheckpoint, Finish
  <2>8. ASSUME NEW c \in Conns, RevertOpen(c)
        PROVE  SessionInv'
    BY <2>8 DEF RevertOpen, Goto
  <2>9. ASSUME NEW c \in Conns, LockRefused(c)
        PROVE  SessionInv'
    BY <2>9 DEF LockRefused, Finish
  <2>10. ASSUME NEW c \in Conns, LockNewSentence(c)
        PROVE  SessionInv'
    BY <2>10 DEF LockNewSentence, Goto
  <2>11. ASSUME NEW c \in Conns, LockSentence(c)
        PROVE  SessionInv'
    BY <2>11 DEF LockSentence, Goto
  <2>12. ASSUME NEW c \in Conns, RecordWordCount(c)
        PROVE  SessionInv'
    <3>1. PICK n : n = WordCount(get_file_from_cache, index[c])
      OBVIOUS
    <3>2. edit[c] \in EditLocals /\ edit[c].ops = <<>> /\ edit[c].applied = 0
      BY <2>12 DEF RecordWordCount
    <3>3. edit' = [edit EXCEPT ![c] = [edit[c] EXCEPT !.original_word_count = n]]
      BY <2>12, <3>1 DEF RecordWordCount
    <3>4. /\ edit'[c].ops = <<>> /\ edit'[c].applied = 0
          /\ \A d \in Conns : d # c => edit'[d] = edit[d]
      BY <3>2, <3>3 DEF EditLocals
    <3>5. OpsFit(edit'[c]) /\ OpsOwn(c, edit'[c])
      BY <3>4 DEF OpsFit, OpsOwn
    <3> QED BY <2>12, <3>4, <3>5 DEF RecordWordCount, Goto
  <2>13. ASSUME NEW c \in Conns, OpenBackup(c)
        PROVE  SessionInv'
    BY <2>13 DEF OpenBackup, Goto
  <2>14. ASSUME NEW c \in Conns, WriteBackup(c)
        PROVE  SessionInv'
    BY <2>14 DEF WriteBackup, Goto
  <2>15. ASSUME NEW c \in Conns, BeginCommit(c)
        PROVE  SessionInv'
    <3>1. /\ edit'[c].ops = edit[c].ops /\ edit'[c].applied = edit[c].applied
          /\ edit'[c].original_word_count = edit[c].original_word_count
          /\ \A d \in Conns : d # c => edit'[d] = edit[d]
      <4>1. edit[c] \in EditLocals
        OBVIOUS
      <4>2. CASE edit' = edit
        BY <4>2
      <4>3. ASSUME NEW x, NEW y, edit' = [edit EXCEPT ![c].doc = x, ![c].word_offset = y]
            PROVE  /\ edit'[c].ops = edit[c].ops /\ edit'[c].applied = edit[c].applied
                   /\ edit'[c].original_word_count = edit[c].original_word_count
                   /\ \A d \in Conns : d # c => edit'[d] = edit[d]
        BY <4>1, <4>3 DEF EditLocals
      <4>4. PICK y : y = WordCount(WithTarget(get_file_from_cache, index[c]), index[c])
                           - edit[c].original_word_count
        OBVIOUS
      <4>5. edit' = edit \/ edit' = [edit EXCEPT ![c].doc = gen, ![c].word_offset = y]
        BY <2>15, <4>4 DEF BeginCommit
      <4> QED BY <4>2, <4>3, <4>5
    <3>2. OpsFit(edit'[c]) /\ OpsOwn(c, edit'[c])
      BY <3>1 DEF OpsFit, OpsOwn
    <3>3. \A d \in Conns : pc'[d] = pc[d] \/ (d = c /\ pc'[d] \in {"apply", "done"})
      BY <2>15 DEF BeginCommit, Goto, Finish
    <3>4. pc[c] = "commit"
      BY <2>15 DEF BeginCommit
    <3> QED BY <3>1, <3>2, <3>3, <3>4
  <2>16. ASSUME NEW c \in Conns, ApplyEdit(c)
        PROVE  SessionInv'
    <3>1. /\ edit'[c].ops = edit[c].ops /\ edit'[c].applied = edit[c].applied + 1
          /\ edit'[c].original_word_count = edit[c].original_word_count
          /\ \A d \in Conns : d # c => edit'[d] = edit[d]
      <4>1. edit[c] \in EditLocals
        OBVIOUS
      <4> QED BY <2>16, <4>1 DEF ApplyEdit, EditLocals
    <3>2. OpsFit(edit'[c]) /\ OpsOwn(c, edit'[c])
      BY <3>1 DEF OpsFit, OpsOwn
    <3>3. edit[c].applied + 1 <= Len(edit[c].ops)
      <4>1. edit[c].applied \in Nat /\ Len(edit[c].ops) \in Nat
        <5>1. edit[c] \in EditLocals
          OBVIOUS
        <5> QED BY <5>1, LenProperties DEF EditLocals
      <4> QED BY <2>16, <4>1 DEF ApplyEdit
    <3> QED BY <2>16, <3>1, <3>2, <3>3 DEF ApplyEdit
  <2>17. ASSUME NEW c \in Conns, SyncToSwap(c)
        PROVE  SessionInv'
    BY <2>17 DEF SyncToSwap, Goto
  <2>18. ASSUME NEW c \in Conns, Rename(c)
        PROVE  SessionInv'
    BY <2>18 DEF Rename, Goto
  <2>18a. ASSUME NEW c \in Conns, AnswerWrite(c)
        PROVE  SessionInv'
    BY <2>18a DEF AnswerWrite, Finish
  <2>18b. ASSUME NEW c \in Conns, OpenSwapFails(c)
        PROVE  SessionInv'
    BY <2>18b DEF OpenSwapFails, Goto
  <2>18c. ASSUME NEW c \in Conns, RenameFails(c)
        PROVE  SessionInv'
    BY <2>18c DEF RenameFails, Goto
  <2>18d. ASSUME NEW c \in Conns, UndoOpenFails(c)
        PROVE  SessionInv'
    BY <2>18d DEF UndoOpenFails, ReturnFromUndo, Finish
  <2>19. ASSUME NEW c \in Conns, UndoNoBackup(c)
        PROVE  SessionInv'
    BY <2>19 DEF UndoNoBackup, ReturnFromUndo, Finish
  <2>20. ASSUME NEW c \in Conns, UndoOpen(c)
        PROVE  SessionInv'
    BY <2>20 DEF UndoOpen, Goto
  <2>21. ASSUME NEW c \in Conns, UndoCopy(c)
        PROVE  SessionInv'
    BY <2>21 DEF UndoCopy, Goto
  <2>22. ASSUME NEW c \in Conns, UndoReload(c)
        PROVE  SessionInv'
    BY <2>22 DEF UndoReload, ReturnFromUndo, Finish
  <2>23. ASSUME NEW c \in Conns, CheckpointCopy(c)
        PROVE  SessionInv'
    BY <2>23 DEF CheckpointCopy, Finish
  <2>24. ASSUME NEW c \in Conns, RevertCopy(c)
        PROVE  SessionInv'
    BY <2>24 DEF RevertCopy, Finish
  <2>25. ASSUME Crash
        PROVE  SessionInv'
    BY <2>25 DEF Crash
  <2>26. ASSUME UNCHANGED vars
        PROVE  SessionInv'
    BY <2>26 DEF vars
  <2> QED
    BY <2>1, <2>2, <2>3, <2>4, <2>5, <2>6, <2>7, <2>8, <2>9, <2>10, <2>11, <2>12,
       <2>13, <2>14, <2>15, <2>16, <2>17, <2>18, <2>18a, <2>18b, <2>18c, <2>18d,
       <2>19, <2>20, <2>21, <2>22, <2>23,
       <2>24, <2>25, <2>26
       DEF Next, ServerStep, ClientStep, Done
<1> QED
  BY <1>1, <1>2, ControlTypes, DataTypes, PTL DEF Spec, DataInv

-----------------------------------------------------------------------------
(***************************************************************************)
(* What a commit carries over.                                             *)
(***************************************************************************)

\* A word in the file can be traced to the connection that sent it: connections send words
\* of their own.
Traceable ==
  \A c \in Writers :
    /\ OwnBodies(c) \subseteq Bodies
    /\ \A d \in Writers : c # d => OwnBodies(c) \cap OwnBodies(d) = {}

\* While one session commits, the cached sentences, and then the swap file, hold the same
\* words of every other session as the file.
CarriedInv ==
  \A d \in Conns : \A c \in Writers : c # d =>
    /\ pc[d] = "apply" => OwnWords(UndoText(mem), c) = OwnWords(disk, c)
    /\ pc[d] = "rename" => OwnWords(swap, c) = OwnWords(disk, c)

\* A commit that inserts a word leaves the words of every other session as they are.
LEMMA OthersKept ==
  ASSUME ControlTypeOK, DataTypeOK, SessionInv, Traceable, NEW c \in Conns, ApplyEdit(c),
         NEW d \in Writers, d # c
  PROVE  OwnWords(UndoText(mem'), d) = OwnWords(UndoText(mem), d)
<1>1. PICK e, n : e = edit[c] /\ n = e.applied + 1
  OBVIOUS
<1>2. e \in EditLocals /\ index[c] \in Nat /\ mem \in Document
  BY <1>1 DEF ControlTypeOK, DataTypeOK, Index
<1>3. n \in Nat /\ n \in 1 .. Len(e.ops)
  <2>1. e.ops \in Seq(EditOp) /\ e.applied \in Nat /\ Len(e.ops) \in Nat
    BY <1>2, LenProperties DEF EditLocals
  <2>2. e.applied < Len(e.ops) /\ n = e.applied + 1
    BY <1>1 DEF ApplyEdit
  <2> QED BY ONLY <2>1, <2>2
<1>4. e.ops[n] \in EditOp /\ e.ops[n].word \in Token
  <2>1. e.ops \in Seq(EditOp)
    BY <1>2 DEF EditLocals
  <2>2. e.ops[n] \in EditOp
    BY <1>3, <2>1, ElementOfSeq
  <2> QED BY <2>2 DEF EditOp
<1>5. Request[c] = "WRITE" /\ e.ops[n].word.body \in OwnBodies(c)
  BY <1>1, <1>3 DEF SessionInv, OpsOwn, ApplyEdit
<1>6. mem' = mem \/ WordPut(UndoText(mem), e.ops[n].word, UndoText(mem'))
  BY <1>1, <1>2, <1>3, <1>4, WordInsertedIs, InsertsIntoType DEF ApplyEdit
<1>7. e.ops[n].word.body \notin OwnBodies(d)
  BY <1>5 DEF Traceable, Writers
<1> QED BY <1>4, <1>6, <1>7, WordPutElsewhere DEF OwnWords

LEMMA WordsCarried == OnlyUndone /\ Traceable /\ Spec => []CarriedInv
<1> SUFFICES ASSUME OnlyUndone, Traceable PROVE Spec => []CarriedInv
  OBVIOUS
<1>1. Init => CarriedInv
  BY DEF Init, CarriedInv
<1>2. ControlTypeOK /\ MutexesMatch /\ DataTypeOK /\ SessionInv /\ AgreeInv /\ CarriedInv
        /\ [Next]_vars => CarriedInv'
  <2> SUFFICES ASSUME ControlTypeOK, MutexesMatch, DataTypeOK, SessionInv, AgreeInv, CarriedInv,
                      [Next]_vars
               PROVE  CarriedInv'
    OBVIOUS
  <2>0. pc \in [Conns -> PCs] /\ \A d \in Conns : pc[d] \in {"apply", "rename"} => loaded
    BY DEF ControlTypeOK, AgreeInv
  <2> USE <2>0 DEF CarriedInv
  <2>1. ASSUME NEW c \in Conns, NEW i \in Index, ValidateWrite(c, i)
        PROVE  CarriedInv'
    BY <2>1 DEF ValidateWrite, Goto, Finish
  <2>2. ASSUME NEW c \in Conns, NEW batch \in Batches[c], NEW base \in 0 .. MaxWordIndex,
             WriteCommand(c, base, batch)
        PROVE  CarriedInv'
    BY <2>2 DEF WriteCommand
  <2>3. ASSUME NEW c \in Conns, EndWrite(c)
        PROVE  CarriedInv'
    BY <2>3 DEF EndWrite, Goto, unlock_sentence_ll, CacheLoaded, get_file_from_cache
  <2>4. ASSUME NEW c \in Conns, Disconnect(c)
        PROVE  CarriedInv'
    BY <2>4 DEF OnlyUndone, Disconnect
  <2>5. ASSUME NEW c \in Conns, UndoRequest(c)
        PROVE  CarriedInv'
    BY <2>5 DEF UndoRequest, Goto
  <2>6. ASSUME NEW c \in Conns, CheckpointOpen(c)
        PROVE  CarriedInv'
    BY <2>6 DEF CheckpointOpen, Goto
  <2>7. ASSUME NEW c \in Conns, RevertNoCheckpoint(c)
        PROVE  CarriedInv'
    BY <2>7 DEF RevertNoCheckpoint, Finish
  <2>8. ASSUME NEW c \in Conns, RevertOpen(c)
        PROVE  CarriedInv'
    BY <2>8 DEF OnlyUndone, RevertOpen
  <2>9. ASSUME NEW c \in Conns, LockRefused(c)
        PROVE  CarriedInv'
    BY <2>9 DEF LockRefused, Finish, CacheLoaded, get_file_from_cache
  <2>10. ASSUME NEW c \in Conns, LockNewSentence(c)
        PROVE  CarriedInv'
    BY <2>10 DEF LockNewSentence, Goto, CacheLoaded, get_file_from_cache
  <2>11. ASSUME NEW c \in Conns, LockSentence(c)
        PROVE  CarriedInv'
    BY <2>11 DEF LockSentence, Goto, CacheLoaded, get_file_from_cache
  <2>12. ASSUME NEW c \in Conns, RecordWordCount(c)
        PROVE  CarriedInv'
    BY <2>12 DEF RecordWordCount, Goto, CacheLoaded, get_file_from_cache
  <2>13. ASSUME NEW c \in Conns, OpenBackup(c)
        PROVE  CarriedInv'
    BY <2>13 DEF OpenBackup, Goto, CacheLoaded, get_file_from_cache
  <2>14. ASSUME NEW c \in Conns, WriteBackup(c)
        PROVE  CarriedInv'
    BY <2>14 DEF WriteBackup, Goto, CacheLoaded, get_file_from_cache
  <2>15. ASSUME NEW c \in Conns, BeginCommit(c)
        PROVE  CarriedInv'
    <3>1. \A d \in Conns : pc[d] \notin {"apply", "rename", "undo_copy", "undo_reload"}
      BY <2>15 DEF BeginCommit, CommitFree, MutexesMatch, InCommit, AgreeInv
    <3>2. PICK doc : doc = get_file_from_cache
      OBVIOUS
    <3>3. doc \in Document /\ index[c] \in Nat
      BY <3>2, CachedType DEF ControlTypeOK, Index
    <3>4. ASSUME NEW d \in Writers PROVE OwnWords(UndoText(doc), d) = OwnWords(disk, d)
      <4>1. mem = doc \/ doc = parse_file_to_linked_list(disk)
        BY <3>2 DEF get_file_from_cache
      <4>2. loaded => Agreed
        BY <3>1 DEF AgreeInv, Quiescent
      <4>3. doc = parse_file_to_linked_list(disk) \/ disk = write_linked_list_to_file(doc)
        BY <3>2, <4>1, <4>2 DEF Agreed, get_file_from_cache
      <4>4. disk \in Text /\ NoBody \notin OwnBodies(d)
        BY BodiesAssumption DEF DataTypeOK, Traceable
      <4> QED BY <3>3, <4>3, <4>4, ParseKeepsWords, WrittenIs DEF OwnWords
    <3>5. mem' = WithTarget(doc, index[c])
      BY <2>15, <3>2 DEF BeginCommit
    <3>6. UndoText(mem') = UndoText(doc)
      BY <3>3, <3>5, TargetType
    <3>7. disk' = disk /\ \A d \in Conns : pc'[d] # "rename"
      BY <2>15, <3>1 DEF BeginCommit, Goto, Finish
    <3> QED BY <3>4, <3>6, <3>7
  <2>16. ASSUME NEW c \in Conns, ApplyEdit(c)
        PROVE  CarriedInv'
    <3>1. \A d \in Writers : d # c => OwnWords(UndoText(mem'), d) = OwnWords(UndoText(mem), d)
      BY <2>16, OthersKept
    <3>2. \A d \in Conns : pc[d] \in {"apply", "rename"} => d = c
      BY <2>16 DEF ApplyEdit, MutexesMatch, InCommit
    <3>3. pc' = pc /\ disk' = disk /\ swap' = swap
      BY <2>16 DEF ApplyEdit
    <3> QED BY <2>16, <3>1, <3>2, <3>3 DEF ApplyEdit
  <2>17. ASSUME NEW c \in Conns, SyncToSwap(c)
        PROVE  CarriedInv'
    <3>1. \A d \in Conns : pc[d] \in {"apply", "rename"} => d = c
      BY <2>17 DEF SyncToSwap, MutexesMatch, InCommit
    <3>2. loaded /\ mem \in Document
      BY <2>17 DEF SyncToSwap, AgreeInv, DataTypeOK
    <3>3. swap' = write_linked_list_to_file(mem) /\ mem' = mem /\ disk' = disk
      BY <2>17, <3>2 DEF SyncToSwap, CacheLoaded, get_file_from_cache
    <3>4. ASSUME NEW d \in Writers PROVE OwnWords(swap', d) = OwnWords(UndoText(mem), d)
      <4>1. NoBody \notin OwnBodies(d)
        BY BodiesAssumption DEF Traceable
      <4> QED BY <3>2, <3>3, <4>1, WrittenIs DEF OwnWords
    <3>5. \A d \in Conns : pc'[d] = IF d = c THEN "rename" ELSE pc[d]
      BY <2>17 DEF SyncToSwap, Goto
    <3> QED BY <2>17, <3>1, <3>3, <3>4, <3>5 DEF SyncToSwap
  <2>18. ASSUME NEW c \in Conns, Rename(c)
        PROVE  CarriedInv'
    <3>1. \A d \in Conns : pc'[d] \notin {"apply", "rename"}
      BY <2>18 DEF Rename, Goto, MutexesMatch, InCommit
    <3> QED BY <3>1
  <2>18a. ASSUME NEW c \in Conns, AnswerWrite(c)
        PROVE  CarriedInv'
    BY <2>18a DEF AnswerWrite, Finish
  <2>18b. ASSUME NEW c \in Conns, OpenSwapFails(c)
        PROVE  CarriedInv'
    BY <2>18b DEF OnlyUndone, OpenSwapFails
  <2>18c. ASSUME NEW c \in Conns, RenameFails(c)
        PROVE  CarriedInv'
    BY <2>18c DEF OnlyUndone, RenameFails
  <2>18d. ASSUME NEW c \in Conns, UndoOpenFails(c)
        PROVE  CarriedInv'
    BY <2>18d DEF OnlyUndone, UndoOpenFails
  <2>19. ASSUME NEW c \in Conns, UndoNoBackup(c)
        PROVE  CarriedInv'
    BY <2>19 DEF UndoNoBackup, ReturnFromUndo, Finish
  <2>20. ASSUME NEW c \in Conns, UndoOpen(c)
        PROVE  CarriedInv'
    <3>1. \A d \in Conns : pc'[d] \notin {"apply", "rename"}
      <4>1. Request[c] = "UNDO"
        BY <2>20 DEF UndoOpen, AgreeInv
      <4> QED BY <2>20, <4>1 DEF UndoOpen, Goto, MutexesMatch, InCommit
    <3> QED BY <3>1
  <2>21. ASSUME NEW c \in Conns, UndoCopy(c)
        PROVE  CarriedInv'
    <3>1. \A d \in Conns : pc'[d] \notin {"apply", "rename"}
      <4>1. Request[c] = "UNDO"
        BY <2>21 DEF UndoCopy, AgreeInv
      <4> QED BY <2>21, <4>1 DEF UndoCopy, Goto, MutexesMatch, InCommit
    <3> QED BY <3>1
  <2>22. ASSUME NEW c \in Conns, UndoReload(c)
        PROVE  CarriedInv'
    <3>1. \A d \in Conns : pc'[d] \notin {"apply", "rename"}
      <4>1. Request[c] = "UNDO"
        BY <2>22 DEF UndoReload, AgreeInv
      <4> QED BY <2>22, <4>1 DEF UndoReload, ReturnFromUndo, Finish, MutexesMatch, InCommit
    <3> QED BY <3>1
  <2>23. ASSUME NEW c \in Conns, CheckpointCopy(c)
        PROVE  CarriedInv'
    BY <2>23 DEF CheckpointCopy, Finish
  <2>24. ASSUME NEW c \in Conns, RevertCopy(c)
        PROVE  CarriedInv'
    BY <2>24 DEF AgreeInv, RevertCopy
  <2>25. ASSUME Crash
        PROVE  CarriedInv'
    <3>1. \A d \in Conns : pc'[d] \notin {"apply", "rename"}
      BY <2>25 DEF Crash
    <3> QED BY <3>1
  <2>26. ASSUME UNCHANGED vars
        PROVE  CarriedInv'
    BY <2>26 DEF vars
  <2> QED
    BY <2>1, <2>2, <2>3, <2>4, <2>5, <2>6, <2>7, <2>8, <2>9, <2>10, <2>11, <2>12,
       <2>13, <2>14, <2>15, <2>16, <2>17, <2>18, <2>18a, <2>18b, <2>18c, <2>18d,
       <2>19, <2>20, <2>21, <2>22, <2>23,
       <2>24, <2>25, <2>26
       DEF Next, ServerStep, ClientStep, Done
<1> QED
  BY <1>1, <1>2, ControlTypes, MutexDiscipline, DataTypes, SessionsFit, CacheAgrees, PTL
     DEF Spec, DataInv

\* Words that an UNDO took out of the file do not come back with the next commit: a commit
\* replaces the file by one with the same words of every other session, so a cached
\* document that still held them would show.
THEOREM UndoneStaysUndone == OnlyUndone /\ Traceable /\ Spec => RemovedStaysRemoved
<1> SUFFICES ASSUME OnlyUndone, Traceable PROVE Spec => RemovedStaysRemoved
  OBVIOUS
<1> DEFINE Kept ==
      \A c, d \in Writers :
       /\ Committed(c) /\ OwnWords(disk, c) = <<>> /\ Len(edit[c].ops) > 0
       /\ \A r \in Conns : pc[r] \notin {"undo_copy", "revert_copy"}
       /\ pc[d] = "rename" /\ pc'[d] = "answer"
       => OwnWords(disk', c) = <<>>
<1>1. ASSUME ControlTypeOK, AgreeInv, CarriedInv, Next PROVE Kept
  <2> SUFFICES ASSUME NEW a \in Writers, NEW d \in Writers,
                      Committed(a), OwnWords(disk, a) = <<>>,
                      pc[d] = "rename", pc'[d] = "answer", disk' # disk
               PROVE  OwnWords(disk', a) = <<>>
    OBVIOUS
  <2>0. pc \in [Conns -> PCs] /\ d \in Conns /\ a # d
    BY <1>1 DEF ControlTypeOK, Writers, Committed
  <2> USE <1>1, <2>0
  <2> HIDE DEF Kept
  <2>1. ASSUME NEW c \in Conns, NEW i \in Index, ValidateWrite(c, i)
        PROVE  OwnWords(disk', a) = <<>>
    BY <2>1 DEF ValidateWrite, Goto, Finish
  <2>2. ASSUME NEW c \in Conns, NEW batch \in Batches[c], NEW base \in 0 .. MaxWordIndex,
             WriteCommand(c, base, batch)
        PROVE  OwnWords(disk', a) = <<>>
    BY <2>2 DEF WriteCommand
  <2>3. ASSUME NEW c \in Conns, EndWrite(c)
        PROVE  OwnWords(disk', a) = <<>>
    BY <2>3 DEF EndWrite, Goto
  <2>4. ASSUME NEW c \in Conns, Disconnect(c)
        PROVE  OwnWords(disk', a) = <<>>
    BY <2>4 DEF Disconnect, Goto
  <2>5. ASSUME NEW c \in Conns, UndoRequest(c)
        PROVE  OwnWords(disk', a) = <<>>
    BY <2>5 DEF UndoRequest, Goto
  <2>6. ASSUME NEW c \in Conns, CheckpointOpen(c)
        PROVE  OwnWords(disk', a) = <<>>
    BY <2>6 DEF CheckpointOpen, Goto
  <2>7. ASSUME NEW c \in Conns, RevertNoCheckpoint(c)
        PROVE  OwnWords(disk', a) = <<>>
    BY <2>7 DEF RevertNoCheckpoint, Finish
  <2>8. ASSUME NEW c \in Conns, RevertOpen(c)
        PROVE  OwnWords(disk', a) = <<>>
    BY <2>8 DEF OnlyUndone, RevertOpen
  <2>9. ASSUME NEW c \in Conns, LockRefused(c)
        PROVE  OwnWords(disk', a) = <<>>
    BY <2>9 DEF LockRefused, Finish
  <2>10. ASSUME NEW c \in Conns, LockNewSentence(c)
        PROVE  OwnWords(disk', a) = <<>>
    BY <2>10 DEF LockNewSentence, Goto
  <2>11. ASSUME NEW c \in Conns, LockSentence(c)
        PROVE  OwnWords(disk', a) = <<>>
    BY <2>11 DEF LockSentence, Goto
  <2>12. ASSUME NEW c \in Conns, RecordWordCount(c)
        PROVE  OwnWords(disk', a) = <<>>
    BY <2>12 DEF RecordWordCount, Goto
  <2>13. ASSUME NEW c \in Conns, OpenBackup(c)
        PROVE  OwnWords(disk', a) = <<>>
    BY <2>13 DEF OpenBackup, Goto
  <2>14. ASSUME NEW c \in Conns, WriteBackup(c)
        PROVE  OwnWords(disk', a) = <<>>
    BY <2>14 DEF WriteBackup, Goto
  <2>15. ASSUME NEW c \in Conns, BeginCommit(c)
        PROVE  OwnWords(disk', a) = <<>>
    BY <2>15 DEF BeginCommit, Goto, Finish
  <2>16. ASSUME NEW c \in Conns, ApplyEdit(c)
        PROVE  OwnWords(disk', a) = <<>>
    BY <2>16 DEF ApplyEdit
  <2>17. ASSUME NEW c \in Conns, SyncToSwap(c)
        PROVE  OwnWords(disk', a) = <<>>
    BY <2>17 DEF SyncToSwap, Goto
  <2>18. ASSUME NEW c \in Conns, Rename(c)
        PROVE  OwnWords(disk', a) = <<>>
    <3>1. disk' = swap /\ \A e \in Conns : e # c => pc'[e] = pc[e]
      BY <2>18 DEF Rename, Goto
    <3>2. d = c
      BY <3>1
    <3> QED BY <3>1, <3>2 DEF CarriedInv, Writers
  <2>18a. ASSUME NEW c \in Conns, AnswerWrite(c)
        PROVE  OwnWords(disk', a) = <<>>
    BY <2>18a DEF AnswerWrite, Finish
  <2>18b. ASSUME NEW c \in Conns, OpenSwapFails(c)
        PROVE  OwnWords(disk', a) = <<>>
    BY <2>18b DEF OnlyUndone, OpenSwapFails
  <2>18c. ASSUME NEW c \in Conns, RenameFails(c)
        PROVE  OwnWords(disk', a) = <<>>
    BY <2>18c DEF OnlyUndone, RenameFails
  <2>18d. ASSUME NEW c \in Conns, UndoOpenFails(c)
        PROVE  OwnWords(disk', a) = <<>>
    BY <2>18d DEF OnlyUndone, UndoOpenFails
  <2>19. ASSUME NEW c \in Conns, UndoNoBackup(c)
        PROVE  OwnWords(disk', a) = <<>>
    BY <2>19 DEF UndoNoBackup, ReturnFromUndo, Finish
  <2>20. ASSUME NEW c \in Conns, UndoOpen(c)
        PROVE  OwnWords(disk', a) = <<>>
    BY <2>20 DEF UndoOpen, Goto
  <2>21. ASSUME NEW c \in Conns, UndoCopy(c)
        PROVE  OwnWords(disk', a) = <<>>
    BY <2>21 DEF UndoCopy, Goto
  <2>22. ASSUME NEW c \in Conns, UndoReload(c)
        PROVE  OwnWords(disk', a) = <<>>
    BY <2>22 DEF UndoReload, ReturnFromUndo, Finish
  <2>23. ASSUME NEW c \in Conns, CheckpointCopy(c)
        PROVE  OwnWords(disk', a) = <<>>
    BY <2>23 DEF CheckpointCopy, Finish
  <2>24. ASSUME NEW c \in Conns, RevertCopy(c)
        PROVE  OwnWords(disk', a) = <<>>
    BY <2>24 DEF AgreeInv, RevertCopy
  <2>25. ASSUME Crash
        PROVE  OwnWords(disk', a) = <<>>
    BY <2>25 DEF Crash
  <2>26. ASSUME UNCHANGED vars
        PROVE  OwnWords(disk', a) = <<>>
    BY <2>26 DEF vars
  <2> QED
    BY <2>1, <2>2, <2>3, <2>4, <2>5, <2>6, <2>7, <2>8, <2>9, <2>10, <2>11, <2>12,
       <2>13, <2>14, <2>15, <2>16, <2>17, <2>18, <2>18a, <2>18b, <2>18c, <2>18d,
       <2>19, <2>20, <2>21, <2>22, <2>23,
       <2>24, <2>25, <2>26
       DEF Next, ServerStep, ClientStep, Done
<1>2. [][Kept]_vars => RemovedStaysRemoved
  BY PTL DEF RemovedStaysRemoved
<1> HIDE DEF Kept
<1>3. ControlTypeOK /\ AgreeInv /\ CarriedInv /\ [Next]_vars => [Kept]_vars
  BY <1>1
<1> QED BY <1>2, <1>3, ControlTypes, CacheAgrees, WordsCarried, PTL DEF Spec

-----------------------------------------------------------------------------
(***************************************************************************)
(* A session that edits alone, and the same session among others.          *)
(***************************************************************************)
Blanks(count) == [i \in 1 .. count |-> [body |-> NoBody, marks |-> <<>>]]

\* f[k] is the sentence after the first k operations.
IsEdited(f, count, ops, n) ==
  f = [k \in 0 .. n |-> IF k = 0 THEN Blanks(count) ELSE PutWord(f[k - 1], ops[k])]

LEMMA EditedExists ==
  ASSUME NEW count, NEW ops, NEW n \in Nat
  PROVE  \E f : IsEdited(f, count, ops, n)
<1> DEFINE Bad == {m \in Nat : ~\E f : IsEdited(f, count, ops, m)}
<1>1. SUFFICES ASSUME Bad # {} PROVE FALSE
  OBVIOUS
<1>2. Bad \in SUBSET Nat
  OBVIOUS
<1>3. PICK m \in Bad : \A j \in Bad : m <= j
  <2> HIDE DEF Bad
  <2> QED BY <1>1, <1>2, LeastExists
<1>4. m \in Nat /\ ~\E f : IsEdited(f, count, ops, m)
  OBVIOUS
<1>5. CASE m = 0
  <2>1. PICK f : f = [k \in 0 .. m |-> Blanks(count)]
    OBVIOUS
  <2>2. \A k \in 0 .. m : k = 0 /\ f[k] = Blanks(count)
    BY <1>5, <2>1
  <2>3. IsEdited(f, count, ops, m)
    BY ONLY <2>1, <2>2 DEF IsEdited
  <2> QED BY <1>4, <2>3
<1>6. CASE m # 0
  <2>1. PICK j \in Nat : j = m - 1
    BY <1>4, <1>6
  <2>2. j \notin Bad
    <3> HIDE DEF Bad
    <3> QED BY <1>2, <1>3, <1>4, <2>1
  <2>3. PICK f : IsEdited(f, count, ops, j)
    BY <2>2
  <2>4. \A k \in 0 .. j : f[k] = IF k = 0 THEN Blanks(count) ELSE PutWord(f[k - 1], ops[k])
    BY ONLY <2>3 DEF IsEdited
  <2>5. PICK g : g = [k \in 0 .. m |-> IF k = m THEN PutWord(f[j], ops[m]) ELSE f[k]]
    OBVIOUS
  <2>6. ASSUME NEW k \in 0 .. m
        PROVE  g[k] = IF k = 0 THEN Blanks(count) ELSE PutWord(g[k - 1], ops[k])
    <3> HIDE DEF Bad
    <3>1. CASE k = m
      <4>1. k - 1 = j /\ j \in 0 .. m /\ j # m /\ k # 0
        BY <1>4, <1>6, <2>1, <3>1
      <4> QED BY <2>5, <3>1, <4>1
    <3>2. CASE k # m
      <4>1. k \in 0 .. j
        BY <1>4, <2>1, <3>2
      <4>2. k # 0 => k - 1 \in 0 .. m /\ k - 1 # m
        BY <1>4, <2>1, <4>1
      <4> QED BY <2>4, <2>5, <3>2, <4>1, <4>2
    <3> QED BY <3>1, <3>2
  <2>7. g = [k \in 0 .. m |-> g[k]]
    BY ONLY <2>5
  <2>8. IsEdited(g, count, ops, m)
    BY ONLY <2>6, <2>7 DEF IsEdited
  <2> QED BY <1>4, <2>8
<1> QED BY <1>5, <1>6

\* The sentence after k operations depends on these operations only.
LEMMA EditedSame ==
  ASSUME NEW count, NEW ops, NEW n \in Nat, NEW f, IsEdited(f, count, ops, n),
         NEW others, NEW m \in Nat, NEW g, IsEdited(g, count, others, m),
         NEW k \in Nat, k <= n, k <= m, \A i \in 1 .. k : ops[i] = others[i]
  PROVE  f[k] = g[k]
<1> DEFINE Bad == {i \in 0 .. k : f[i] # g[i]}
<1>1. \A i \in 0 .. n : f[i] = IF i = 0 THEN Blanks(count) ELSE PutWord(f[i - 1], ops[i])
  BY ONLY IsEdited(f, count, ops, n) DEF IsEdited
<1>2. \A i \in 0 .. m : g[i] = IF i = 0 THEN Blanks(count) ELSE PutWord(g[i - 1], others[i])
  BY ONLY IsEdited(g, count, others, m) DEF IsEdited
<1>3. Bad = {}
  <2> SUFFICES ASSUME Bad # {} PROVE FALSE
    OBVIOUS
  <2>1. Bad \in SUBSET Nat
    OBVIOUS
  <2>2. PICK i \in Bad : \A j \in Bad : i <= j
    <3> HIDE DEF Bad
    <3> QED BY <2>1, LeastExists
  <2>3. i \in 0 .. k /\ f[i] # g[i]
    OBVIOUS
  <2>4. i \in 0 .. n /\ i \in 0 .. m
    BY ONLY <2>3, n \in Nat, m \in Nat, k \in Nat, k <= n, k <= m
  <2>5. i # 0
    BY <1>1, <1>2, <2>3, <2>4
  <2>6. i - 1 \in 0 .. k /\ i - 1 < i /\ i \in 1 .. k
    BY <2>3, <2>5
  <2>7. i - 1 \notin Bad
    <3> HIDE DEF Bad
    <3> QED BY <2>1, <2>2, <2>3, <2>6
  <2>8. f[i - 1] = g[i - 1]
    BY <2>6, <2>7
  <2> QED BY <1>1, <1>2, <2>3, <2>4, <2>5, <2>6, <2>8
<1>4. k \in 0 .. k
  OBVIOUS
<1> QED BY <1>3, <1>4

LEMMA EditedIs ==
  ASSUME NEW count, NEW ops, Len(ops) \in Nat, NEW f, IsEdited(f, count, ops, Len(ops))
  PROVE  EditedAlone(count, ops) = f[Len(ops)]
<1> DEFINE it == CHOOSE g : IsEdited(g, count, ops, Len(ops))
<1>1. EditedAlone(count, ops) = it[Len(ops)]
  BY DEF EditedAlone, IsEdited, Blanks
<1>2. IsEdited(it, count, ops, Len(ops))
  OBVIOUS
<1> HIDE DEF it
<1>3. it[Len(ops)] = f[Len(ops)]
  <2>1. PICK n \in Nat : n = Len(ops)
    OBVIOUS
  <2>2. IsEdited(it, count, ops, n) /\ IsEdited(f, count, ops, n) /\ n <= n
    BY <1>2, <2>1
  <2>3. it[n] = f[n]
    BY <2>2, EditedSame
  <2> QED BY <2>1, <2>3
<1> QED BY <1>1, <1>3

\* The first k operations of a list.
FirstOps(ops, k) == SubSeq(ops, 1, k)

LEMMA FirstOpsType ==
  ASSUME NEW ops \in Seq(EditOp), NEW k \in Nat, k <= Len(ops)
  PROVE  /\ FirstOps(ops, k) \in Seq(EditOp) /\ Len(FirstOps(ops, k)) = k
         /\ \A i \in 1 .. k : FirstOps(ops, k)[i] = ops[i]
         /\ k = Len(ops) => FirstOps(ops, k) = ops
<1>1. PICK n \in Nat : n = Len(ops)
  BY LenProperties
<1>2. \A j \in 1 .. k : ops[j] \in EditOp
  BY <1>1, ElementOfSeq
<1>3. PICK p : p = SubSeq(ops, 1, k)
  OBVIOUS
<1>4. p \in Seq(EditOp) /\ Len(p) = k /\ \A i \in 1 .. k : p[i] = ops[i]
  BY <1>1, <1>2, <1>3, SubSeqProperties
<1>5. k = Len(ops) => p = ops
  BY <1>3, SubSeqFull
<1> QED BY <1>3, <1>4, <1>5 DEF FirstOps

\* One more operation puts its word into the sentence so far.
LEMMA EditedNext ==
  ASSUME NEW count, NEW ops \in Seq(EditOp), NEW k \in Nat, k < Len(ops)
  PROVE  EditedAlone(count, FirstOps(ops, k + 1))
           = PutWord(EditedAlone(count, FirstOps(ops, k)), ops[k + 1])
<1>1. PICK a, b : a = FirstOps(ops, k) /\ b = FirstOps(ops, k + 1)
  OBVIOUS
<1>2. k + 1 \in Nat /\ k + 1 <= Len(ops) /\ k <= Len(ops)
  BY LenProperties
<1>3. Len(a) = k /\ \A i \in 1 .. k : a[i] = ops[i]
  BY <1>1, <1>2, FirstOpsType
<1>4. Len(b) = k + 1 /\ \A i \in 1 .. k + 1 : b[i] = ops[i]
  BY <1>1, <1>2, FirstOpsType
<1>5. PICK f : IsEdited(f, count, a, k)
  BY EditedExists
<1>6. PICK m \in Nat : m = k + 1
  BY <1>2
<1>7. PICK g : IsEdited(g, count, b, m)
  BY EditedExists
<1>8. \A i \in 1 .. k : a[i] = b[i]
  BY <1>3, <1>4
<1>9. f[k] = g[k]
  <2>1. k <= k /\ k <= m /\ k \in Nat /\ m \in Nat
    BY <1>6
  <2> QED BY ONLY <1>5, <1>7, <1>8, <2>1, EditedSame
<1>10. g[m] = PutWord(g[k], b[m])
  <2>1. \A i \in 0 .. m : g[i] = IF i = 0 THEN Blanks(count) ELSE PutWord(g[i - 1], b[i])
    BY ONLY <1>7 DEF IsEdited
  <2>2. m \in 0 .. m /\ m # 0 /\ m - 1 = k
    BY <1>6
  <2> QED BY <2>1, <2>2
<1>11. EditedAlone(count, a) = f[k]
  BY <1>3, <1>5, EditedIs
<1>12. EditedAlone(count, b) = g[m]
  BY <1>4, <1>6, <1>7, EditedIs
<1>13. b[m] = ops[k + 1]
  BY <1>4, <1>6
<1> QED BY <1>1, <1>9, <1>10, <1>11, <1>12, <1>13

LEMMA EditedNone ==
  ASSUME NEW count, NEW ops \in Seq(EditOp)
  PROVE  EditedAlone(count, FirstOps(ops, 0)) = Blanks(count)
<1>1. PICK a : a = FirstOps(ops, 0)
  OBVIOUS
<1>2. Len(a) = 0
  BY <1>1, FirstOpsType, LenProperties
<1>3. PICK f : IsEdited(f, count, a, 0)
  BY EditedExists
<1>4. f[0] = Blanks(count)
  BY ONLY <1>3 DEF IsEdited
<1> QED BY <1>1, <1>2, <1>3, <1>4, EditedIs

\* No words of S means that no token has one.
LEMMA WordsEmpty ==
  ASSUME NEW text \in Text, NEW S, WordsIn(text, S) = <<>>, NEW i \in 1 .. Len(text)
  PROVE  text[i].body \notin S
<1>1. PICK k \in Nat : k = i - 1 /\ k < Len(text) /\ i = k + 1
  <2>1. Len(text) \in Nat
    BY LenProperties DEF Text
  <2> QED BY <2>1
<1>2. PICK t \in Token : t = text[k + 1]
  BY <1>1, ElementOfSeq DEF Text
<1>3. PICK a, b \in Text : Around(Token, text, t, a, b)
  <2>1. text \in Seq(Token) /\ k \in Nat /\ k < Len(text) /\ Len(text) = Len(text)
    BY <1>1 DEF Text
  <2>2. \A j \in 1 .. Len(text) : j # k + 1 => text[j] = text[j]
    OBVIOUS
  <2>3. \E a, b \in Seq(Token) : Around(Token, text, text[k + 1], a, b)
    BY ONLY <2>1, <2>2, SplitAround
  <2> QED BY <1>2, <2>3 DEF Text
<1>4. PICK o \in Text : o = <<t>> /\ TextAround(text, o, a, b)
  BY <1>3 DEF Around, TextAround, Text
<1>5. PICK x, y, z : x = WordsIn(a, S) /\ y = WordsIn(o, S) /\ z = WordsIn(b, S)
  OBVIOUS
<1>6. x \in Seq(S) /\ y \in Seq(S) /\ z \in Seq(S)
  BY <1>5, WordsType
<1>7. <<>> = (x \o y) \o z
  <2>1. TextAround(WordsIn(text, S), WordsIn(o, S), WordsIn(a, S), WordsIn(b, S))
    BY <1>4, WordsAround
  <2> QED BY <1>5, <2>1 DEF TextAround
<1>8. y = <<>>
  BY <1>6, <1>7, ThreeEmpty
<1>9. y = OneWord(t.body, S)
  BY <1>4, <1>5, WordsSmall DEF OneWord
<1> QED BY <1>1, <1>2, <1>8, <1>9 DEF OneWord

\* Texts that show the same word at every place hold the same words.
LEMMA WordsSameEach ==
  ASSUME NEW a \in Text, NEW b \in Text, NEW S, NEW R, Len(a) = Len(b),
         \A i \in 1 .. Len(a) : OneWord(a[i].body, S) = OneWord(b[i].body, R)
  PROVE  WordsIn(a, S) = WordsIn(b, R)
<1>1. PICK p, q : p = Picked(a, S) /\ q = Picked(b, R)
  OBVIOUS
<1>2. IsPicked(p, a, S) /\ IsPicked(q, b, R)
  BY <1>1, PickedType
<1>3. PICK n \in Nat : n = Len(a)
  BY LenProperties DEF Text
<1>4. p \in Seq(Seq(S)) /\ Len(p) = n /\ q \in Seq(Seq(R)) /\ Len(q) = n
  BY <1>2, <1>3 DEF IsPicked
<1>5. \A i \in 1 .. n : p[i] = q[i]
  BY <1>2, <1>3 DEF IsPicked
<1>6. p = [i \in 1 .. n |-> p[i]] /\ q = [i \in 1 .. n |-> q[i]]
  BY <1>4, LenProperties
<1>7. p = q
  BY <1>5, <1>6
<1> QED BY <1>2, <1>7 DEF IsPicked

\* r is a sentence among others: off tokens of other sessions, then a token for every one
\* of s, which shows the same word if it belongs to the session, and a word of another
\* session where s has a blank.
Aligned(r, s, off, S) ==
  /\ s \in Text /\ off \in Nat /\ Len(r) = Len(s) + off
  /\ \A p \in 1 .. off : r[p].body \notin S
  /\ \A p \in 1 .. Len(s) : OneWord(r[p + off].body, S) = OneWord(s[p].body, Bodies)

LEMMA BlanksType ==
  ASSUME NEW count \in Nat
  PROVE  /\ Blanks(count) \in Text /\ Len(Blanks(count)) = count
         /\ \A p \in 1 .. count : Blanks(count)[p].body = NoBody
<1>1. PICK s : s = Blanks(count)
  OBVIOUS
<1>2. PICK t : t = [body |-> NoBody, marks |-> <<>>]
  OBVIOUS
<1>3. t \in Token /\ t.body = NoBody
  BY <1>2 DEF Token
<1>4. s = [i \in 1 .. count |-> t]
  BY <1>1, <1>2 DEF Blanks
<1>5. s \in [1 .. count -> Token]
  BY <1>3, <1>4
<1>6. s \in Seq(Token) /\ Len(s) = count
  BY <1>5
<1>7. \A p \in 1 .. count : s[p].body = NoBody
  BY <1>3, <1>4
<1> QED BY <1>1, <1>6, <1>7 DEF Text

\* Before the first word.
LEMMA AlignedStart ==
  ASSUME NEW r \in Text, NEW S, WordsIn(r, S) = <<>>, NEW count \in Nat, count <= Len(r)
  PROVE  Aligned(r, Blanks(count), Len(r) - count, S)
<1>1. PICK n \in Nat : n = Len(r)
  BY LenProperties DEF Text
<1>20. count <= n /\ n - count \in Nat
  <2>1. count <= n
    BY <1>1
  <2> QED BY ONLY <2>1, n \in Nat, count \in Nat
<1>2. PICK off \in Nat : off = n - count
  BY ONLY <1>20
<1>3. PICK s : s = Blanks(count)
  OBVIOUS
<1>4. s \in Text /\ Len(s) = count /\ \A p \in 1 .. count : s[p].body = NoBody
  BY <1>3, BlanksType
<1>5. \A i \in 1 .. n : r[i].body \notin S
  BY <1>1, WordsEmpty
<1>6. n = count + off
  BY ONLY <1>2, n \in Nat, count \in Nat
<1>7. \A p \in 1 .. off : r[p].body \notin S
  BY <1>5, <1>6
<1>8. ASSUME NEW p \in 1 .. count PROVE OneWord(r[p + off].body, S) = OneWord(s[p].body, Bodies)
  <2>1. p + off \in 1 .. n
    BY <1>6
  <2> QED BY <1>4, <1>5, <2>1, BodiesAssumption DEF OneWord
<1>9. Aligned(r, s, off, S)
  BY <1>1, <1>4, <1>6, <1>7, <1>8 DEF Aligned
<1> QED BY <1>1, <1>2, <1>3, <1>9

\* After one more: the adjusted index is the queued one, moved by off.
LEMMA AlignedStep ==
  ASSUME NEW r \in Text, NEW s, NEW off, NEW S, Aligned(r, s, off, S), S \subseteq Bodies,
         NEW w \in Token, w.body \in S, NEW k \in 0 .. Len(s),
         NEW r2, PutBehind(Token, r, k + off, w, r2), NEW s2, PutBehind(Token, s, k, w, s2)
  PROVE  Aligned(r2, s2, off, S)
<1>1. s \in Seq(Token) /\ off \in Nat /\ r \in Seq(Token)
  BY DEF Aligned, Text
<1>2. PICK n \in Nat : n = Len(s)
  BY <1>1, LenProperties
<1>3. Len(r) = n + off /\ k \in 0 .. n
  BY <1>2 DEF Aligned
<1>4. PICK m \in Nat : m = k + off /\ m \in 0 .. Len(r)
  BY <1>1, <1>2, <1>3
<1>5. /\ r2 \in Seq(Token) /\ Len(r2) = Len(r) + 1
      /\ \A j \in 1 .. Len(r) + 1 :
           r2[j] = IF j <= m THEN r[j] ELSE IF j = m + 1 THEN w ELSE r[j - 1]
  <2>1. PutBehind(Token, r, m, w, r2) /\ m \in 0 .. Len(r)
    BY <1>4
  <2> QED BY <1>1, <2>1, PutBehindProperties
<1>6. /\ s2 \in Seq(Token) /\ Len(s2) = Len(s) + 1
      /\ \A j \in 1 .. Len(s) + 1 :
           s2[j] = IF j <= k THEN s[j] ELSE IF j = k + 1 THEN w ELSE s[j - 1]
  BY <1>1, PutBehindProperties
<1>7. ASSUME NEW p \in 1 .. off PROVE r2[p].body \notin S
  <2>1. p <= m /\ p \in 1 .. Len(r) + 1
    BY <1>1, <1>2, <1>3, <1>4
  <2> QED BY <1>5, <2>1 DEF Aligned
<1>8. ASSUME NEW p \in 1 .. n + 1 PROVE OneWord(r2[p + off].body, S) = OneWord(s2[p].body, Bodies)
  <2>0. p + off \in 1 .. Len(r) + 1 /\ p \in 1 .. Len(s) + 1
    BY <1>1, <1>2, <1>3
  <2>1. CASE p <= k
    <3>1. p + off <= m /\ p \in 1 .. n
      BY <1>1, <1>3, <1>4, <2>1
    <3> QED BY <1>2, <1>5, <1>6, <2>0, <2>1, <3>1 DEF Aligned
  <2>2. CASE p = k + 1
    <3>1. p + off = m + 1 /\ ~(p + off <= m) /\ ~(p <= k)
      BY <1>1, <1>3, <1>4, <2>2
    <3>2. r2[p + off] = w /\ s2[p] = w
      BY <1>5, <1>6, <2>0, <2>2, <3>1
    <3> QED BY <3>2 DEF OneWord
  <2>3. CASE p > k + 1
    <3>1. PICK q \in 1 .. n : q = p - 1
      BY <1>2, <1>3, <2>3
    <3>2. /\ ~(p + off <= m) /\ p + off # m + 1 /\ (p + off) - 1 = q + off
          /\ ~(p <= k) /\ p # k + 1 /\ p - 1 = q
      BY <1>1, <1>3, <1>4, <2>3, <3>1
    <3>3. r2[p + off] = r[q + off] /\ s2[p] = s[q]
      BY <1>5, <1>6, <2>0, <3>2
    <3> QED BY <1>2, <3>1, <3>3 DEF Aligned
  <2> QED BY <1>3, <2>1, <2>2, <2>3
<1>9. Len(r2) = Len(s2) + off
  <2>1. Len(r2) = (n + off) + 1 /\ Len(s2) = n + 1
    BY <1>2, <1>3, <1>5, <1>6
  <2>2. (n + off) + 1 = (n + 1) + off
    BY ONLY <1>1, n \in Nat
  <2> QED BY <2>1, <2>2
<1> QED BY <1>1, <1>2, <1>6, <1>7, <1>8, <1>9 DEF Aligned, Text

\* At the end: the session's words are in the sentence, in the order it built them up in.
LEMMA AlignedWords ==
  ASSUME NEW r \in Text, NEW s, NEW off, NEW S, Aligned(r, s, off, S)
  PROVE  WordsIn(r, S) = WordsIn(s, Bodies)
<1>1. s \in Text /\ s \in Seq(Token) /\ off \in Nat /\ r \in Seq(Token)
  BY DEF Aligned, Text
<1>2. PICK n \in Nat : n = Len(s) /\ Len(r) = n + off
  BY <1>1, LenProperties DEF Aligned
<1>3. PICK x, y : x = SubSeq(r, 1, off) /\ y = SubSeq(r, off + 1, Len(r))
  OBVIOUS
<1>4. \A j \in 1 .. n + off : r[j] \in Token
  BY <1>1, <1>2, ElementOfSeq
<1>5. x \in Seq(Token) /\ Len(x) = off /\ \A p \in 1 .. off : x[p] = r[p]
  <2>1. \A j \in 1 .. off : r[j] \in Token
    BY <1>1, <1>2, <1>4
  <2> QED BY <1>1, <1>2, <1>3, <2>1, SubSeqProperties
<1>6. y \in Seq(Token) /\ Len(y) = n /\ \A p \in 1 .. n : y[p] = r[p + off]
  <2>1. \A j \in off + 1 .. n + off : r[j] \in Token
    BY <1>1, <1>2, <1>4
  <2>2. off + 1 \in 1 .. Len(r) + 1 /\ Len(r) \in off .. Len(r)
    BY <1>1, <1>2
  <2> QED BY <1>1, <1>2, <1>3, <2>1, <2>2, SubSeqProperties
<1>7. r = x \o y
  <2>1. 1 \in 1 .. Len(r) + 1 /\ off \in 1 - 1 .. Len(r) /\ Len(r) \in off .. Len(r)
    BY <1>1, <1>2
  <2>2. SubSeq(r, 1, off) \o SubSeq(r, off + 1, Len(r)) = SubSeq(r, 1, Len(r))
    BY <1>1, <2>1, ConcatAdjacentSubSeq
  <2> QED BY <1>1, <1>3, <2>2, SubSeqFull
<1>8. x \in Text /\ y \in Text
  BY <1>5, <1>6 DEF Text
<1>9. WordsIn(x, S) = <<>>
  <2>1. \A i \in 1 .. Len(x) : x[i].body \notin S
    BY <1>5 DEF Aligned
  <2> QED BY <1>8, <2>1, WordsNone
<1>10. WordsIn(y, S) = WordsIn(s, Bodies)
  <2>1. \A i \in 1 .. Len(y) : OneWord(y[i].body, S) = OneWord(s[i].body, Bodies)
    BY <1>2, <1>6 DEF Aligned
  <2> QED BY <1>1, <1>2, <1>6, <1>8, <2>1, WordsSameEach
<1>11. WordsIn(r, S) = WordsIn(x, S) \o WordsIn(y, S)
  BY <1>7, <1>8, WordsConcat
<1>12. WordsIn(s, Bodies) \in Seq(Bodies)
  BY <1>1, WordsType
<1>13. <<>> \o WordsIn(s, Bodies) = WordsIn(s, Bodies)
  BY <1>12, ConcatEmptySeq
<1> QED BY <1>9, <1>10, <1>11, <1>13

-----------------------------------------------------------------------------
(***************************************************************************)
(* Commits are all or nothing.                                             *)
(***************************************************************************)

\* Nobody undoes, no client vanishes and the disk does not fail.  (Either of the first two
\* brings back the undo backup, which is written without commit_mutex and may hold half of
\* another session's commit; a sync that fails is answered with success all the same.)
NothingUndone ==
  /\ MayDisconnect = {} /\ DiskFails = {}
  /\ \A c \in Conns : Request[c] # "UNDO"

\* A word that is inserted makes no sentence shorter.
LEMMA ApplyCounts ==
  ASSUME ControlTypeOK, DataTypeOK, NEW c \in Conns, ApplyEdit(c)
  PROVE  /\ mem' \in Document
         /\ \A j \in Nat : WordCount(mem, j) <= WordCount(mem', j)
<1>1. PICK e, i : e = edit[c] /\ i = index[c]
  OBVIOUS
<1>2. e \in EditLocals /\ i \in Nat /\ mem \in Document
  BY <1>1 DEF ControlTypeOK, DataTypeOK, Index
<1>3. e.ops[e.applied + 1] \in EditOp /\ e.ops[e.applied + 1].word \in Token
  <2>1. e.ops \in Seq(EditOp) /\ e.applied \in Nat /\ Len(e.ops) \in Nat
    BY <1>2, LenProperties DEF EditLocals
  <2>2. e.applied + 1 \in 1 .. Len(e.ops)
    BY <1>1, <2>1 DEF ApplyEdit
  <2>3. e.ops[e.applied + 1] \in EditOp
    BY <2>1, <2>2, ElementOfSeq
  <2> QED BY <2>3 DEF EditOp
<1>4. mem' = mem \/ (i < Len(mem) /\ InsertsInto(mem, i, e, mem'))
  BY <1>1, <1>2, <1>3, WordInsertedIs DEF ApplyEdit
<1>5. \A j \in Nat : WordCount(mem, j) \in Nat
  BY <1>2, WordCountType
<1>6. CASE mem' = mem
  BY <1>2, <1>5, <1>6
<1>7. CASE i < Len(mem) /\ InsertsInto(mem, i, e, mem')
  <2>1. PICK r, w : r = mem[i + 1].words /\ w = e.ops[e.applied + 1].word
    OBVIOUS
  <2>2. r \in Text
    BY <1>2, <1>7, <2>1, SentenceWords
  <2>3. PICK k \in 0 .. Len(r), r2 \in Text : /\ PutBehind(Token, r, k, w, r2)
                                              /\ mem' = SetWords(mem, i, r2)
    BY <1>7, <2>1 DEF InsertsInto
  <2>4. /\ mem' \in Document /\ Len(mem') = Len(mem) /\ mem'[i + 1].words = r2
        /\ \A j \in 1 .. Len(mem) : j # i + 1 => mem'[j] = mem[j]
    BY <1>2, <1>7, <2>3, SetWordsType
  <2>5. Len(r2) = Len(r) + 1 /\ Len(r) \in Nat
    BY <1>3, <2>1, <2>2, <2>3, PutBehindProperties, LenProperties DEF Text
  <2>6. ASSUME NEW j \in Nat PROVE WordCount(mem, j) <= WordCount(mem', j)
    <3>1. CASE j = i
      BY <1>7, <2>1, <2>4, <2>5, <3>1 DEF WordCount
    <3>2. CASE j # i /\ j < Len(mem)
      <4>1. j + 1 \in 1 .. Len(mem) /\ j + 1 # i + 1
        BY <1>2, <3>2, LenProperties DEF Document
      <4>2. WordCount(mem', j) = WordCount(mem, j)
        BY <2>4, <3>2, <4>1 DEF WordCount
      <4> QED BY <1>5, <4>2
    <3>3. CASE ~(j < Len(mem))
      BY <2>4, <3>3 DEF WordCount
    <3> QED BY <3>1, <3>2, <3>3
  <2> QED BY <2>4, <2>6
<1> QED BY <1>4, <1>6, <1>7

\* From the moment it counted the words of its sentence, a session finds the file in the
\* cache and its sentence never shorter than that.
Counted ==
  \A c \in Conns :
    /\ pc[c] \in {"count", "open_backup", "write_backup", "edit", "commit", "apply", "rename"}
         => loaded
    /\ pc[c] \in {"open_backup", "write_backup", "edit", "commit"}
         => edit[c].original_word_count <= WordCount(mem, index[c])
    /\ pc[c] \notin {"undo", "undo_copy", "undo_reload"}

LEMMA SentencesGrow == NothingUndone /\ Spec => []Counted
<1> SUFFICES ASSUME NothingUndone PROVE Spec => []Counted
  OBVIOUS
<1>1. Init => Counted
  BY DEF Init, Counted
<1>2. ControlTypeOK /\ DataTypeOK /\ Counted /\ [Next]_vars => Counted'
  <2> SUFFICES ASSUME ControlTypeOK, DataTypeOK, Counted, [Next]_vars PROVE Counted'
    OBVIOUS
  <2>0. edit \in [Conns -> EditLocals] /\ pc \in [Conns -> PCs] /\ index \in [Conns -> Index]
    BY DEF ControlTypeOK, DataTypeOK
  <2> USE <2>0 DEF Counted
  <2>1. ASSUME NEW c \in Conns, NEW i \in Index, ValidateWrite(c, i)
        PROVE  Counted'
    BY <2>1 DEF ValidateWrite, Goto, Finish
  <2>2. ASSUME NEW c \in Conns, NEW batch \in Batches[c], NEW base \in 0 .. MaxWordIndex,
             WriteCommand(c, base, batch)
        PROVE  Counted'
    <3>1. base \in Nat /\ batch \in Seq(Token) /\ edit[c] \in EditLocals
      BY TextAssumption
    <3>2. PICK f : f = Queued(edit[c], base, batch)
      OBVIOUS
    <3>3. f \in EditLocals /\ f.original_word_count = edit[c].original_word_count
      BY <3>1, <3>2, QueuedType
    <3>4. edit' = [edit EXCEPT ![c] = f]
      BY <2>2, <3>2 DEF WriteCommand
    <3>5. /\ edit'[c].original_word_count = edit[c].original_word_count
          /\ \A d \in Conns : d # c => edit'[d] = edit[d]
      BY <3>3, <3>4
    <3>6. UNCHANGED <<loaded, mem, pc, index>>
      BY <2>2 DEF WriteCommand
    <3> QED BY <3>5, <3>6
  <2>3. ASSUME NEW c \in Conns, EndWrite(c)
        PROVE  Counted'
    BY <2>3 DEF EndWrite, Goto, unlock_sentence_ll, CacheLoaded, get_file_from_cache
  <2>4. ASSUME NEW c \in Conns, Disconnect(c)
        PROVE  Counted'
    BY <2>4 DEF NothingUndone, Disconnect
  <2>5. ASSUME NEW c \in Conns, UndoRequest(c)
        PROVE  Counted'
    BY <2>5 DEF NothingUndone, UndoRequest
  <2>6. ASSUME NEW c \in Conns, CheckpointOpen(c)
        PROVE  Counted'
    BY <2>6 DEF CheckpointOpen, Goto
  <2>7. ASSUME NEW c \in Conns, RevertNoCheckpoint(c)
        PROVE  Counted'
    BY <2>7 DEF RevertNoCheckpoint, Finish
  <2>8. ASSUME NEW c \in Conns, RevertOpen(c)
        PROVE  Counted'
    BY <2>8 DEF RevertOpen, Goto
  <2>9. ASSUME NEW c \in Conns, LockRefused(c)
        PROVE  Counted'
    BY <2>9 DEF LockRefused, Finish, CacheLoaded, get_file_from_cache
  <2>10. ASSUME NEW c \in Conns, LockNewSentence(c)
        PROVE  Counted'
    BY <2>10 DEF LockNewSentence, Goto, CacheLoaded, get_file_from_cache
  <2>11. ASSUME NEW c \in Conns, LockSentence(c)
        PROVE  Counted'
    BY <2>11 DEF LockSentence, Goto, CacheLoaded, get_file_from_cache
  <2>12. ASSUME NEW c \in Conns, RecordWordCount(c)
        PROVE  Counted'
    <3>1. PICK n : n = WordCount(get_file_from_cache, index[c])
      OBVIOUS
    <3>2. /\ loaded' = TRUE /\ mem' = get_file_from_cache /\ index' = index
          /\ edit' = [edit EXCEPT ![c] = [edit[c] EXCEPT !.original_word_count = n]]
          /\ pc' = [pc EXCEPT ![c] = "open_backup"] /\ pc[c] = "count"
      BY <2>12, <3>1 DEF RecordWordCount, CacheLoaded, Goto
    <3>3. edit'[c].original_word_count = n /\ \A d \in Conns : d # c => edit'[d] = edit[d]
      <4>1. edit[c] \in EditLocals
        OBVIOUS
      <4> QED BY <3>2, <4>1 DEF EditLocals
    <3>4. n \in Nat
      BY <3>1, CachedType, WordCountType DEF ControlTypeOK, Index
    <3>5. WordCount(mem', index'[c]) = n
      BY <3>1, <3>2
    <3>6. ASSUME NEW d \in Conns, d # c, pc[d] \in {"open_backup", "write_backup", "edit", "commit"}
          PROVE  edit'[d].original_word_count <= WordCount(mem', index'[d])
      <4>1. mem' = mem
        BY <3>2, <3>6 DEF get_file_from_cache
      <4> QED BY <3>2, <3>3, <3>6, <4>1
    <3> QED BY <3>2, <3>3, <3>4, <3>5, <3>6
  <2>13. ASSUME NEW c \in Conns, OpenBackup(c)
        PROVE  Counted'
    BY <2>13 DEF OpenBackup, Goto, CacheLoaded, get_file_from_cache
  <2>14. ASSUME NEW c \in Conns, WriteBackup(c)
        PROVE  Counted'
    BY <2>14 DEF WriteBackup, Goto, CacheLoaded, get_file_from_cache
  <2>15. ASSUME NEW c \in Conns, BeginCommit(c)
        PROVE  Counted'
    <3>1. loaded /\ get_file_from_cache = mem
      BY <2>15 DEF BeginCommit, get_file_from_cache
    <3>2. loaded' = TRUE /\ mem' = WithTarget(mem, index[c]) /\ index' = index
      BY <2>15, <3>1 DEF BeginCommit
    <3>3. index[c] \in Nat /\ mem \in Document /\ \A d \in Conns : index[d] \in Nat
      BY DEF ControlTypeOK, DataTypeOK, Index
    <3>4. \A d \in Conns : WordCount(mem', index'[d]) = WordCount(mem, index[d])
      BY <3>2, <3>3, TargetType
    <3>5. \A d \in Conns : d # c => edit'[d] = edit[d] /\ pc'[d] = pc[d]
      BY <2>15 DEF BeginCommit, Goto, Finish
    <3>6. pc'[c] \in {"apply", "done"}
      BY <2>15 DEF BeginCommit, Goto, Finish
    <3> QED BY <3>1, <3>2, <3>4, <3>5, <3>6
  <2>16. ASSUME NEW c \in Conns, ApplyEdit(c)
        PROVE  Counted'
    <3>1. \A j \in Nat : WordCount(mem, j) <= WordCount(mem', j)
      BY <2>16, ApplyCounts
    <3>2. \A d \in Conns : /\ index[d] \in Nat /\ WordCount(mem, index[d]) \in Nat
                           /\ WordCount(mem', index[d]) \in Nat
      <4>1. mem' \in Document
        BY <2>16, ApplyCounts
      <4> QED BY <4>1, WordCountType DEF ControlTypeOK, DataTypeOK, Index
    <3>3. \A d \in Conns : /\ edit'[d].original_word_count = edit[d].original_word_count
                           /\ edit[d].original_word_count \in Nat
      <4>1. \A d \in Conns : edit[d] \in EditLocals
        OBVIOUS
      <4> QED BY <2>16, <4>1 DEF ApplyEdit, EditLocals
    <3>4. UNCHANGED <<loaded, pc, index>>
      BY <2>16 DEF ApplyEdit
    <3>5. ASSUME NEW d \in Conns, pc[d] \in {"open_backup", "write_backup", "edit", "commit"}
          PROVE  edit'[d].original_word_count <= WordCount(mem', index'[d])
      <4>1. edit[d].original_word_count <= WordCount(mem, index[d])
        BY <3>5
      <4> QED BY <3>1, <3>2, <3>3, <3>4, <4>1
    <3> QED BY <3>4, <3>5
  <2>17. ASSUME NEW c \in Conns, SyncToSwap(c)
        PROVE  Counted'
    BY <2>17 DEF SyncToSwap, Goto, CacheLoaded, get_file_from_cache
  <2>18. ASSUME NEW c \in Conns, Rename(c)
        PROVE  Counted'
    BY <2>18 DEF Rename, Goto
  <2>18a. ASSUME NEW c \in Conns, AnswerWrite(c)
        PROVE  Counted'
    BY <2>18a DEF AnswerWrite, Finish
  <2>18b. ASSUME NEW c \in Conns, OpenSwapFails(c)
        PROVE  Counted'
    BY <2>18b DEF NothingUndone, OpenSwapFails
  <2>18c. ASSUME NEW c \in Conns, RenameFails(c)
        PROVE  Counted'
    BY <2>18c DEF NothingUndone, RenameFails
  <2>18d. ASSUME NEW c \in Conns, UndoOpenFails(c)
        PROVE  Counted'
    BY <2>18d DEF NothingUndone, UndoOpenFails
  <2>19. ASSUME NEW c \in Conns, UndoNoBackup(c)
        PROVE  Counted'
    BY <2>19 DEF UndoNoBackup
  <2>20. ASSUME NEW c \in Conns, UndoOpen(c)
        PROVE  Counted'
    BY <2>20 DEF UndoOpen
  <2>21. ASSUME NEW c \in Conns, UndoCopy(c)
        PROVE  Counted'
    BY <2>21 DEF UndoCopy
  <2>22. ASSUME NEW c \in Conns, UndoReload(c)
        PROVE  Counted'
    BY <2>22 DEF UndoReload
  <2>23. ASSUME NEW c \in Conns, CheckpointCopy(c)
        PROVE  Counted'
    BY <2>23 DEF CheckpointCopy, Finish
  <2>24. ASSUME NEW c \in Conns, RevertCopy(c)
        PROVE  Counted'
    BY <2>24 DEF RevertCopy, Finish
  <2>25. ASSUME Crash
        PROVE  Counted'
    BY <2>25 DEF Crash
  <2>26. ASSUME UNCHANGED vars
        PROVE  Counted'
    BY <2>26 DEF vars
  <2> QED
    BY <2>1, <2>2, <2>3, <2>4, <2>5, <2>6, <2>7, <2>8, <2>9, <2>10, <2>11, <2>12,
       <2>13, <2>14, <2>15, <2>16, <2>17, <2>18, <2>18a, <2>18b, <2>18c, <2>18d,
       <2>19, <2>20, <2>21, <2>22, <2>23,
       <2>24, <2>25, <2>26
       DEF Next, ServerStep, ClientStep, Done
<1> QED
  BY <1>1, <1>2, ControlTypes, DataTypes, PTL DEF Spec, DataInv

\* A session that has left the file and the cache behind; what it queued does not change
\* any more.
Over == {"answer", "done"}

USE DEF Over

LEMMA DoneStays ==
  ASSUME ControlTypeOK, DataTypeOK, [Next]_vars
  PROVE  \A d \in Conns : pc[d] \in Over => pc'[d] \in Over /\ edit'[d] = edit[d]
<1>1. pc \in [Conns -> PCs] /\ edit \in [Conns -> EditLocals]
  BY DEF ControlTypeOK, DataTypeOK
<1> DEFINE Stays == \A d \in Conns : pc[d] \in Over => pc'[d] \in Over /\ edit'[d] = edit[d]
<1>2. Stays
  <2> USE <1>1
  <2>1. ASSUME NEW c \in Conns, NEW i \in Index, ValidateWrite(c, i)
        PROVE  Stays
    BY <2>1 DEF ValidateWrite, Goto, Finish
  <2>2. ASSUME NEW c \in Conns, NEW batch \in Batches[c], NEW base \in 0 .. MaxWordIndex,
             WriteCommand(c, base, batch)
        PROVE  Stays
    BY <2>2 DEF WriteCommand
  <2>3. ASSUME NEW c \in Conns, EndWrite(c)
        PROVE  Stays
    BY <2>3 DEF EndWrite, Goto
  <2>4. ASSUME NEW c \in Conns, Disconnect(c)
        PROVE  Stays
    BY <2>4 DEF Disconnect, Goto
  <2>5. ASSUME NEW c \in Conns, UndoRequest(c)
        PROVE  Stays
    BY <2>5 DEF UndoRequest, Goto
  <2>6. ASSUME NEW c \in Conns, CheckpointOpen(c)
        PROVE  Stays
    BY <2>6 DEF CheckpointOpen, Goto
  <2>7. ASSUME NEW c \in Conns, RevertNoCheckpoint(c)
        PROVE  Stays
    BY <2>7 DEF RevertNoCheckpoint, Finish
  <2>8. ASSUME NEW c \in Conns, RevertOpen(c)
        PROVE  Stays
    BY <2>8 DEF RevertOpen, Goto
  <2>9. ASSUME NEW c \in Conns, LockRefused(c)
        PROVE  Stays
    BY <2>9 DEF LockRefused, Finish
  <2>10. ASSUME NEW c \in Conns, LockNewSentence(c)
        PROVE  Stays
    BY <2>10 DEF LockNewSentence, Goto
  <2>11. ASSUME NEW c \in Conns, LockSentence(c)
        PROVE  Stays
    BY <2>11 DEF LockSentence, Goto
  <2>12. ASSUME NEW c \in Conns, RecordWordCount(c)
        PROVE  Stays
    BY <2>12 DEF RecordWordCount, Goto
  <2>13. ASSUME NEW c \in Conns, OpenBackup(c)
        PROVE  Stays
    BY <2>13 DEF OpenBackup, Goto
  <2>14. ASSUME NEW c \in Conns, WriteBackup(c)
        PROVE  Stays
    BY <2>14 DEF WriteBackup, Goto
  <2>15. ASSUME NEW c \in Conns, BeginCommit(c)
        PROVE  Stays
    BY <2>15 DEF BeginCommit, Goto, Finish
  <2>16. ASSUME NEW c \in Conns, ApplyEdit(c)
        PROVE  Stays
    BY <2>16 DEF ApplyEdit
  <2>17. ASSUME NEW c \in Conns, SyncToSwap(c)
        PROVE  Stays
    BY <2>17 DEF SyncToSwap, Goto
  <2>18. ASSUME NEW c \in Conns, Rename(c)
        PROVE  Stays
    BY <2>18 DEF Rename, Goto
  <2>18a. ASSUME NEW c \in Conns, AnswerWrite(c)
        PROVE  Stays
    BY <2>18a DEF AnswerWrite, Finish
  <2>18b. ASSUME NEW c \in Conns, OpenSwapFails(c)
        PROVE  Stays
    BY <2>18b DEF OpenSwapFails, Goto
  <2>18c. ASSUME NEW c \in Conns, RenameFails(c)
        PROVE  Stays
    BY <2>18c DEF RenameFails, Goto
  <2>18d. ASSUME NEW c \in Conns, UndoOpenFails(c)
        PROVE  Stays
    BY <2>18d DEF UndoOpenFails, ReturnFromUndo, Finish
  <2>19. ASSUME NEW c \in Conns, UndoNoBackup(c)
        PROVE  Stays
    BY <2>19 DEF UndoNoBackup, ReturnFromUndo, Finish
  <2>20. ASSUME NEW c \in Conns, UndoOpen(c)
        PROVE  Stays
    BY <2>20 DEF UndoOpen, Goto
  <2>21. ASSUME NEW c \in Conns, UndoCopy(c)
        PROVE  Stays
    BY <2>21 DEF UndoCopy, Goto
  <2>22. ASSUME NEW c \in Conns, UndoReload(c)
        PROVE  Stays
    BY <2>22 DEF UndoReload, ReturnFromUndo, Finish
  <2>23. ASSUME NEW c \in Conns, CheckpointCopy(c)
        PROVE  Stays
    BY <2>23 DEF CheckpointCopy, Finish
  <2>24. ASSUME NEW c \in Conns, RevertCopy(c)
        PROVE  Stays
    BY <2>24 DEF RevertCopy, Finish
  <2>25. ASSUME Crash
        PROVE  Stays
    BY <2>25 DEF Crash
  <2>26. ASSUME UNCHANGED vars
        PROVE  Stays
    BY <2>26 DEF vars
  <2> QED
    BY <2>1, <2>2, <2>3, <2>4, <2>5, <2>6, <2>7, <2>8, <2>9, <2>10, <2>11, <2>12,
       <2>13, <2>14, <2>15, <2>16, <2>17, <2>18, <2>18a, <2>18b, <2>18c, <2>18d,
       <2>19, <2>20, <2>21, <2>22, <2>23,
       <2>24, <2>25, <2>26
       DEF Next, ServerStep, ClientStep, Done
<1> QED BY <1>2

-----------------------------------------------------------------------------
\* The words a session has queued, as its client built them up; what of them stands in a
\* text; and the sentence as far as the commit has applied them.
QueuedBy(e) == WordsIn(EditedAlone(e.original_word_count, e.ops), Bodies)
Complete(words, e) == words = QueuedBy(e) /\ Len(words) = Len(e.ops)
AloneSoFar(e) == EditedAlone(e.original_word_count, FirstOps(e.ops, e.applied))

\* A commit in progress: the session whose words are S has no words outside its sentence,
\* and inside it those it has applied, at the places it wanted, moved by the words that
\* others put in front.
AppliedTo(S, doc, i, e) ==
  /\ i < Len(doc)
  /\ WordsIn(UndoText(SetWords(doc, i, <<>>)), S) = <<>>
  /\ Aligned(doc[i + 1].words, AloneSoFar(e), e.word_offset, S)
  /\ Len(AloneSoFar(e)) = e.original_word_count + e.applied
  /\ Len(WordsIn(AloneSoFar(e), Bodies)) = e.applied

LEMMA WordlessText == <<>> \in Text /\ \A S : WordsIn(<<>>, S) = <<>>
<1>1. <<>> \in Text
  BY DEF Text
<1>2. ASSUME NEW S PROVE WordsIn(<<>>, S) = <<>>
  BY <1>1, WordsNone
<1> QED BY <1>1, <1>2

\* The words of S around sentence i, from the document without that sentence's words.
LEMMA WordsOutside ==
  ASSUME NEW doc \in Document, NEW i \in Nat, i < Len(doc), NEW S
  PROVE  \E a, b \in Seq(S) :
           /\ TextAround(WordsIn(UndoText(doc), S), WordsIn(doc[i + 1].words, S), a, b)
           /\ TextAround(WordsIn(UndoText(SetWords(doc, i, <<>>)), S), <<>>, a, b)
<1>1. PICK r, t, u, z : /\ r = doc[i + 1].words /\ t = UndoText(doc) /\ z = <<>>
                        /\ u = UndoText(SetWords(doc, i, <<>>))
  OBVIOUS
<1>2. r \in Text /\ z \in Text /\ WordsIn(z, S) = <<>>
  BY <1>1, SentenceWords, WordlessText
<1>3. PICK a, b \in Text : TextAround(t, r, a, b) /\ TextAround(u, z, a, b)
  BY <1>1, <1>2, SetWordsText
<1>4. /\ TextAround(WordsIn(t, S), WordsIn(r, S), WordsIn(a, S), WordsIn(b, S))
      /\ TextAround(WordsIn(u, S), WordsIn(z, S), WordsIn(a, S), WordsIn(b, S))
  BY <1>2, <1>3, WordsAround
<1>5. WordsIn(a, S) \in Seq(S) /\ WordsIn(b, S) \in Seq(S)
  BY <1>3, WordsType
<1> QED BY <1>1, <1>2, <1>4, <1>5

LEMMA AppliedStart ==
  ASSUME NEW S, NEW doc \in Document, NEW i \in Nat, i < Len(doc), NEW e \in EditLocals,
         WordsIn(UndoText(doc), S) = <<>>, e.applied = 0,
         e.original_word_count <= Len(doc[i + 1].words),
         e.word_offset = Len(doc[i + 1].words) - e.original_word_count
  PROVE  AppliedTo(S, doc, i, e)
<1>1. PICK r, n : r = doc[i + 1].words /\ n = e.original_word_count
  OBVIOUS
<1>2. r \in Text /\ n \in Nat /\ e.ops \in Seq(EditOp)
  BY <1>1, SentenceWords DEF EditLocals
<1>3. PICK a, b \in Seq(S) :
         /\ TextAround(WordsIn(UndoText(doc), S), WordsIn(r, S), a, b)
         /\ TextAround(WordsIn(UndoText(SetWords(doc, i, <<>>)), S), <<>>, a, b)
  BY <1>1, WordsOutside
<1>4. PICK w : w = WordsIn(r, S)
  OBVIOUS
<1>5. w \in Seq(S)
  BY <1>2, <1>4, WordsType
<1>6. <<>> = (a \o w) \o b
  BY <1>3, <1>4 DEF TextAround
<1>7. a = <<>> /\ w = <<>> /\ b = <<>>
  BY ONLY <1>3, <1>5, <1>6, ThreeEmpty
<1>8. WordsIn(UndoText(SetWords(doc, i, <<>>)), S) = <<>>
  <2>1. WordsIn(UndoText(SetWords(doc, i, <<>>)), S) = (<<>> \o <<>>) \o <<>>
    BY <1>3, <1>7 DEF TextAround
  <2> QED BY <2>1
<1>9. AloneSoFar(e) = Blanks(n)
  BY <1>1, <1>2, EditedNone DEF AloneSoFar
<1>10. /\ Blanks(n) \in Text /\ Len(Blanks(n)) = n
       /\ \A p \in 1 .. n : Blanks(n)[p].body = NoBody
  BY <1>2, BlanksType
<1>11. WordsIn(Blanks(n), Bodies) = <<>>
  <2>1. \A p \in 1 .. Len(Blanks(n)) : Blanks(n)[p].body \notin Bodies
    BY <1>10, BodiesAssumption
  <2> QED BY <1>10, <2>1, WordsNone
<1>12. Aligned(r, Blanks(n), e.word_offset, S)
  <2>1. n <= Len(r) /\ e.word_offset = Len(r) - n /\ WordsIn(r, S) = <<>>
    BY <1>1, <1>4, <1>7
  <2>2. Aligned(r, Blanks(n), Len(r) - n, S)
    BY <1>2, <2>1, AlignedStart
  <2> QED BY <2>1, <2>2
<1>13. Len(WordsIn(AloneSoFar(e), Bodies)) = e.applied
  BY <1>9, <1>11
<1>14. Len(AloneSoFar(e)) = e.original_word_count + e.applied
  BY <1>1, <1>2, <1>9, <1>10
<1>15. Aligned(doc[i + 1].words, AloneSoFar(e), e.word_offset, S)
  BY <1>1, <1>9, <1>12
<1> QED BY <1>8, <1>13, <1>14, <1>15 DEF AppliedTo

\* Only the last words set for a sentence count.
LEMMA SetWordsTwice ==
  ASSUME NEW doc \in Document, NEW i \in Nat, i < Len(doc), NEW w, NEW x
  PROVE  SetWords(SetWords(doc, i, w), i, x) = SetWords(doc, i, x)
<1>1. i + 1 \in DOMAIN doc
  BY LenProperties DEF Document
<1>2. doc[i + 1] \in Sentence
  BY SentenceWords
<1>3. PICK s : s = doc[i + 1]
  OBVIOUS
<1>4. [[s EXCEPT !.words = w] EXCEPT !.words = x] = [s EXCEPT !.words = x]
  BY <1>2, <1>3 DEF Sentence
<1>5. PICK d : d = SetWords(doc, i, w)
  OBVIOUS
<1>6. d = [doc EXCEPT ![i + 1] = [s EXCEPT !.words = w]] /\ d[i + 1] = [s EXCEPT !.words = w]
  BY <1>1, <1>3, <1>5 DEF SetWords
<1>7. SetWords(d, i, x) = [d EXCEPT ![i + 1] = [s EXCEPT !.words = x]]
  BY <1>4, <1>6 DEF SetWords
<1>8. SetWords(doc, i, x) = [doc EXCEPT ![i + 1] = [s EXCEPT !.words = x]]
  BY <1>3 DEF SetWords
<1> QED BY <1>5, <1>6, <1>7, <1>8

\* A word of S more.
LEMMA OneWordMore ==
  ASSUME NEW S, NEW u, NEW v, NEW b \in S, PutAmong(S, u, b, v)
  PROVE  Len(u) \in Nat /\ Len(v) = Len(u) + 1
<1>1. PICK x, y \in Seq(S) : u = x \o y /\ v = (x \o OneWord(b, S)) \o y
  BY DEF PutAmong
<1>2. PICK o, z : o = OneWord(b, S) /\ z = x \o o
  OBVIOUS
<1>3. o \in Seq(S) /\ Len(o) = 1
  BY <1>2 DEF OneWord
<1>4. z \in Seq(S) /\ Len(z) = Len(x) + 1
  <2>1. x \in Seq(S) /\ o \in Seq(S) /\ z = x \o o
    BY <1>1, <1>2, <1>3
  <2>2. z \in Seq(S) /\ Len(z) = Len(x) + Len(o)
    BY ONLY <2>1, ConcatProperties
  <2> QED BY <1>3, <2>2
<1>5. Len(u) = Len(x) + Len(y) /\ Len(x) \in Nat /\ Len(y) \in Nat
  BY <1>1, ConcatProperties, LenProperties
<1>6. Len(v) = Len(z) + Len(y)
  <2>1. y \in Seq(S) /\ z \in Seq(S) /\ v = z \o y
    BY <1>1, <1>2, <1>4
  <2> QED BY ONLY <2>1, ConcatProperties
<1> QED BY <1>4, <1>5, <1>6

LEMMA AppliedNext ==
  ASSUME NEW S, S \subseteq Bodies, NEW doc \in Document, NEW i \in Nat, NEW e \in EditLocals,
         AppliedTo(S, doc, i, e), OpsFit(e), e.applied < Len(e.ops),
         e.ops[e.applied + 1].word.body \in S,
         NEW f \in EditLocals, f.original_word_count = e.original_word_count, f.ops = e.ops,
         f.word_offset = e.word_offset, f.applied = e.applied + 1
  PROVE  AppliedTo(S, WordInserted(doc, i, e), i, f)
<1>1. PICK k \in Nat, n \in Nat, off \in Int : /\ k = e.applied /\ n = e.original_word_count
                                       /\ off = e.word_offset
  BY DEF EditLocals
<1>2. PICK op : op = e.ops[k + 1]
  OBVIOUS
<1>3. e.ops \in Seq(EditOp) /\ Len(e.ops) \in Nat /\ k + 1 \in 1 .. Len(e.ops)
  <2>1. e.ops \in Seq(EditOp) /\ Len(e.ops) \in Nat
    BY LenProperties DEF EditLocals
  <2> QED BY <1>1, <2>1
<1>4. op \in EditOp /\ op.word \in Token /\ op.word_index \in 0 .. n + k /\ op.word.body \in S
  <2>1. op \in EditOp
    BY <1>2, <1>3, ElementOfSeq
  <2>2. op.word_index \in 0 .. n + (k + 1) - 1
    BY <1>1, <1>2, <1>3 DEF OpsFit
  <2> QED BY <1>1, <1>2, <2>1, <2>2 DEF EditOp
<1>5. PICK r, s, s2, w, j : /\ r = doc[i + 1].words /\ s = AloneSoFar(e) /\ s2 = AloneSoFar(f)
                            /\ w = op.word /\ j = op.word_index
  OBVIOUS
<1>6. r \in Text /\ i < Len(doc)
  BY <1>5, SentenceWords DEF AppliedTo
<1>7. Aligned(r, s, off, S) /\ Len(s) = n + k /\ Len(WordsIn(s, Bodies)) = k
  BY <1>1, <1>5 DEF AppliedTo
<1>8. s \in Text /\ s \in Seq(Token) /\ off \in Nat /\ Len(r) = (n + k) + off /\ j \in 0 .. Len(s)
  BY <1>4, <1>5, <1>7 DEF Aligned, Text
<1>9. PutBehind(Token, s, j, w, s2)
  <2>1. s2 = PutWord(s, op)
    BY <1>1, <1>2, <1>3, <1>5, EditedNext DEF AloneSoFar
  <2>2. s2 = InsertAt(s, j + 1, w)
    BY <1>5, <2>1 DEF PutWord
  <2>3. PutBehind(Token, s, j, w, InsertAt(s, j + 1, w))
    BY <1>4, <1>5, <1>8, InsertAtSplits
  <2> QED BY <2>2, <2>3
<1>10. PICK new : new = WordInserted(doc, i, e)
  OBVIOUS
<1>11. InsertsInto(doc, i, e, new)
  <2>1. e.ops[e.applied + 1] \in EditOp
    BY <1>1, <1>2, <1>4
  <2> QED BY <1>6, <1>10, <2>1, WordInsertedIs
<1>12. PICK m \in 0 .. Len(r), r2 \in Text :
          /\ m = AdjustedIndex(j, off, Len(r)) /\ PutBehind(Token, r, m, w, r2)
          /\ new = SetWords(doc, i, r2)
  BY <1>1, <1>2, <1>5, <1>11 DEF InsertsInto
<1>13. m = j + off
  <2>1. j \in Nat /\ j + off <= (n + k) + off /\ ~(j + off < 0)
    BY <1>4, <1>5, <1>8
  <2> QED BY <1>8, <1>12, <2>1 DEF AdjustedIndex
<1>14. Aligned(r2, s2, off, S)
  <2>1. PutBehind(Token, r, j + off, w, r2) /\ w \in Token /\ w.body \in S
    BY <1>4, <1>5, <1>12, <1>13
  <2> QED BY <1>6, <1>7, <1>8, <1>9, <2>1, AlignedStep
<1>15. Len(s2) = (n + k) + 1
  <2>1. Len(s2) = Len(s) + 1
    BY <1>4, <1>5, <1>8, <1>9, PutBehindProperties
  <2> QED BY <1>7, <2>1
<1>16. Len(WordsIn(s2, Bodies)) = k + 1
  <2>1. WordPut(s, w, s2)
    BY <1>9 DEF PutBehind, WordPut, Text
  <2>2. PutAmong(Bodies, WordsIn(s, Bodies), w.body, WordsIn(s2, Bodies))
    BY <1>4, <1>5, <2>1, WordPutWords
  <2>3. w.body \in Bodies
    BY <1>4, <1>5
  <2> QED BY <1>7, <2>2, <2>3, OneWordMore
<1>17. /\ Len(new) = Len(doc) /\ new[i + 1].words = r2
       /\ SetWords(new, i, <<>>) = SetWords(doc, i, <<>>)
  BY <1>6, <1>12, SetWordsType, SetWordsTwice
<1>18. WordsIn(UndoText(SetWords(new, i, <<>>)), S) = <<>>
  BY <1>17 DEF AppliedTo
<1>19. Len(AloneSoFar(f)) = f.original_word_count + f.applied
  BY <1>1, <1>5, <1>15
<1>20. Len(WordsIn(AloneSoFar(f), Bodies)) = f.applied
  BY <1>1, <1>5, <1>16
<1>21. Aligned(new[i + 1].words, AloneSoFar(f), f.word_offset, S)
  BY <1>1, <1>5, <1>14, <1>17
<1>22. i < Len(new)
  BY <1>6, <1>17
<1> QED BY <1>10, <1>18, <1>19, <1>20, <1>21, <1>22 DEF AppliedTo

LEMMA AppliedEnd ==
  ASSUME NEW S, NEW doc \in Document, NEW i \in Nat, NEW e \in EditLocals,
         AppliedTo(S, doc, i, e), e.applied = Len(e.ops)
  PROVE  Complete(WordsIn(UndoText(doc), S), e)
<1>1. PICK r, s : r = doc[i + 1].words /\ s = AloneSoFar(e)
  OBVIOUS
<1>2. i < Len(doc) /\ r \in Text
  BY <1>1, SentenceWords DEF AppliedTo
<1>3. WordsIn(r, S) = WordsIn(s, Bodies)
  BY <1>1, <1>2, AlignedWords DEF AppliedTo
<1>4. s = EditedAlone(e.original_word_count, e.ops)
  <2>1. e.ops \in Seq(EditOp) /\ e.applied \in Nat
    BY DEF EditLocals
  <2>2. FirstOps(e.ops, e.applied) = e.ops
    BY <2>1, FirstOpsType
  <2> QED BY <1>1, <2>2 DEF AloneSoFar
<1>5. PICK w : w = WordsIn(r, S)
  OBVIOUS
<1>6. w \in Seq(S) /\ w = QueuedBy(e) /\ Len(w) = Len(e.ops)
  BY <1>1, <1>2, <1>3, <1>4, <1>5, WordsType DEF QueuedBy, AppliedTo
<1>7. PICK a, b \in Seq(S) :
         /\ TextAround(WordsIn(UndoText(doc), S), w, a, b)
         /\ TextAround(WordsIn(UndoText(SetWords(doc, i, <<>>)), S), <<>>, a, b)
  BY <1>1, <1>2, <1>5, WordsOutside
<1>8. PICK z : z = <<>>
  OBVIOUS
<1>9. z \in Seq(S) /\ <<>> = (a \o z) \o b
  BY <1>7, <1>8 DEF TextAround, AppliedTo
<1>10. a = <<>> /\ b = <<>>
  BY ONLY <1>7, <1>9, ThreeEmpty
<1>11. (<<>> \o w) \o <<>> = w
  BY <1>6, ConcatEmptySeq
<1>12. WordsIn(UndoText(doc), S) = w
  BY <1>7, <1>10, <1>11 DEF TextAround
<1> QED BY <1>6, <1>12 DEF Complete

\* What a text holds of the session with these words is nothing, or everything, and then
\* the session has ended.
WholeWords(words, done, e) == words = <<>> \/ (done /\ Complete(words, e))

Busy == {"apply", "rename"}

\* Every session is whole in the text; every session that is not committing.
WholeIn(text, at, e) ==
  \A c \in Writers : WholeWords(OwnWords(text, c), at[c] \in Over, e[c])
WholeBut(text, at, e) ==
  \A c \in Writers : at[c] \notin Busy => WholeWords(OwnWords(text, c), at[c] \in Over, e[c])

\* The parts of the invariant: the file, the checkpoint and what a CHECKPOINT may still read;
\* the commit that is inserting its words; the cache and the swap file.
FilesWhole ==
  /\ WholeIn(disk, pc, edit)
  /\ ckpt # NoFile => WholeIn(ckpt, pc, edit)
  /\ \A c \in Conns : WholeIn(displaced[c], pc, edit)

Applying ==
  \A c \in Writers :
    pc[c] = "apply" => edit[c].doc = gen /\ AppliedTo(OwnBodies(c), mem, index[c], edit[c])

CacheWhole ==
  /\ WholeBut(UndoText(mem), pc, edit)
  /\ \A c \in Writers : pc[c] = "rename" =>
       /\ Complete(OwnWords(UndoText(mem), c), edit[c])
       /\ Complete(OwnWords(swap, c), edit[c])
       /\ WholeBut(swap, pc, edit)

WholeInv == FilesWhole /\ Applying /\ CacheWhole

\* The file the server starts with holds no word of a session.
Fresh == \A c \in Writers : OwnWords(InitialText, c) = <<>>

\* What is whole stays whole: sessions that have ended do not change.
LEMMA WholeStays ==
  ASSUME NEW at, NEW e, NEW at2, NEW e2,
         \A d \in Conns : at[d] \in Over => at2[d] \in Over /\ e2[d] = e[d]
  PROVE  /\ \A text : WholeIn(text, at, e) => WholeIn(text, at2, e2)
         /\ (\A d \in Conns : at[d] \in Busy => at2[d] \in Busy)
              => \A text : WholeBut(text, at, e) => WholeBut(text, at2, e2)
<1>1. ASSUME NEW text, WholeIn(text, at, e) PROVE WholeIn(text, at2, e2)
  BY <1>1 DEF WholeIn, WholeWords, Writers
<1>2. ASSUME NEW text, WholeBut(text, at, e), \A d \in Conns : at[d] \in Busy => at2[d] \in Busy
      PROVE  WholeBut(text, at2, e2)
  BY <1>2 DEF WholeBut, WholeWords, Writers
<1> QED BY <1>1, <1>2

LEMMA NothingCached == UndoText(<<>>) = <<>>
<1>1. PICK doc : doc = <<>>
  OBVIOUS
<1>2. doc \in Document /\ Len(doc) = 0
  BY <1>1 DEF Document
<1>3. WordLists(doc) \in Seq(Text) /\ Len(WordLists(doc)) = 0
  BY <1>2, WordListsType
<1>4. WordLists(doc) = <<>>
  BY <1>3, EmptySeq
<1>5. FlattenSeq(<<>>) = <<>>
  <2>1. <<>> \in Seq(Token)
    OBVIOUS
  <2> QED BY <2>1, FlattenSmall
<1> QED BY <1>1, <1>2, <1>4, <1>5, WordListsType

\* A step that leaves commits in progress alone and at most loads the file.
Quiet ==
  /\ mem' = mem \/ mem' = get_file_from_cache
  /\ swap' = swap /\ gen' = gen
  /\ \A c \in Conns : pc[c] \in Busy \/ pc'[c] \in Busy =>
       pc'[c] = pc[c] /\ edit'[c] = edit[c] /\ index'[c] = index[c]

LEMMA QuietStep ==
  ASSUME DataTypeOK, Counted, Traceable, FilesWhole, Applying, CacheWhole, Quiet,
         \A d \in Conns : pc[d] \in Over => pc'[d] \in Over /\ edit'[d] = edit[d]
  PROVE  Applying' /\ CacheWhole'
<1>1. disk \in Text
  BY DEF DataTypeOK
<1>2. CASE mem' = mem
  <2>1. Applying'
    BY <1>2 DEF Applying, Quiet, Busy, Writers
  <2>2. WholeBut(UndoText(mem), pc', edit')
    BY WholeStays DEF CacheWhole, Quiet
  <2>3. ASSUME NEW c \in Writers, pc'[c] = "rename"
        PROVE  /\ Complete(OwnWords(UndoText(mem), c), edit'[c])
               /\ Complete(OwnWords(swap, c), edit'[c])
               /\ WholeBut(swap, pc', edit')
    <3>1. pc[c] = "rename" /\ edit'[c] = edit[c]
      BY <2>3 DEF Quiet, Busy, Writers
    <3>2. WholeBut(swap, pc, edit)
      BY <3>1 DEF CacheWhole
    <3>3. WholeBut(swap, pc', edit')
      BY <3>2, WholeStays DEF Quiet
    <3> QED BY <3>1, <3>3 DEF CacheWhole
  <2>4. swap' = swap
    BY DEF Quiet
  <2>5. CacheWhole'
    BY <1>2, <2>2, <2>3, <2>4 DEF CacheWhole
  <2> QED BY <2>1, <2>5
<1>3. CASE mem' # mem
  <2>1. ~loaded /\ mem' = parse_file_to_linked_list(disk)
    BY <1>3 DEF Quiet, get_file_from_cache
  <2>2. \A c \in Conns : pc'[c] \notin Busy
    BY <2>1 DEF Counted, Quiet, Busy
  <2>3. ASSUME NEW c \in Writers PROVE OwnWords(UndoText(mem'), c) = OwnWords(disk, c)
    <3>1. NoBody \notin OwnBodies(c)
      BY BodiesAssumption DEF Traceable
    <3> QED BY <1>1, <2>1, <3>1, ParseKeepsWords DEF OwnWords
  <2>4. WholeIn(disk, pc', edit')
    BY WholeStays DEF FilesWhole
  <2>5. WholeBut(UndoText(mem'), pc', edit')
    BY <2>3, <2>4 DEF WholeIn, WholeBut
  <2> QED BY <2>2, <2>5 DEF Applying, CacheWhole, Busy, Writers
<1> QED BY <1>2, <1>3

LEMMA SessionsWhole == NothingUndone /\ Traceable /\ Fresh /\ Spec => []WholeInv
<1> SUFFICES ASSUME NothingUndone, Traceable, Fresh PROVE Spec => []WholeInv
  OBVIOUS
<1>1. Init => WholeInv
  <2> SUFFICES ASSUME Init PROVE WholeInv
    OBVIOUS
  <2>1. disk = InitialText /\ ckpt = NoFile /\ mem = <<>>
    BY DEF Init
  <2>2. (\A c \in Conns : displaced[c] = <<>>) /\ (\A c \in Writers : pc[c] = "start")
    BY DEF Init, Writers
  <2>3. \A c \in Writers : OwnWords(<<>>, c) = <<>>
    BY WordlessText DEF OwnWords
  <2>4. FilesWhole
    BY <2>1, <2>2, <2>3 DEF FilesWhole, WholeIn, WholeWords, Fresh
  <2>5. Applying
    BY <2>2 DEF Applying
  <2>6. CacheWhole
    BY <2>1, <2>2, <2>3, NothingCached DEF CacheWhole, WholeBut, WholeWords
  <2> QED BY <2>4, <2>5, <2>6 DEF WholeInv
<1>2. ControlTypeOK /\ MutexesMatch /\ DataInv /\ SessionInv /\ Counted /\ WholeInv
        /\ [Next]_vars => WholeInv'
  <2> SUFFICES ASSUME ControlTypeOK, MutexesMatch, DataTypeOK, SourcesExist, SessionInv, Counted,
                      FilesWhole, Applying, CacheWhole, [Next]_vars
               PROVE  FilesWhole' /\ Applying' /\ CacheWhole'
    BY DEF DataInv, WholeInv
  <2>0. pc \in [Conns -> PCs] /\ edit \in [Conns -> EditLocals]
    BY DEF ControlTypeOK, DataTypeOK
  <2>29. \A d \in Conns : pc[d] \in Over => pc'[d] \in Over /\ edit'[d] = edit[d]
    BY DoneStays
  <2>30. \A text : WholeIn(text, pc, edit) => WholeIn(text, pc', edit')
    BY <2>29, WholeStays
  <2>31. WholeIn(<<>>, pc', edit')
    BY WordlessText DEF WholeIn, WholeWords, OwnWords
  <2>32. (\A d \in Conns : pc[d] \in Busy => pc'[d] \in Busy)
           => \A text : WholeBut(text, pc, edit) => WholeBut(text, pc', edit')
    BY <2>29, WholeStays
  <2> USE <2>29
  <2>1. ASSUME NEW c \in Conns, NEW i \in Index, ValidateWrite(c, i)
        PROVE  FilesWhole' /\ Applying' /\ CacheWhole'
    <3>1. Quiet
      BY <2>1, <2>0 DEF Quiet, Busy, ValidateWrite, Goto, Finish
    <3>2. UNCHANGED <<disk, ckpt, displaced>>
      BY <2>1 DEF ValidateWrite, files, opened
    <3> QED BY <3>1, <3>2, <2>30, QuietStep DEF FilesWhole
  <2>2. ASSUME NEW c \in Conns, NEW batch \in Batches[c], NEW base \in 0 .. MaxWordIndex,
             WriteCommand(c, base, batch)
        PROVE  FilesWhole' /\ Applying' /\ CacheWhole'
    <3>1. Quiet
      BY <2>2, <2>0 DEF Quiet, Busy, WriteCommand
    <3>2. UNCHANGED <<disk, ckpt, displaced>>
      BY <2>2 DEF WriteCommand, files, opened
    <3> QED BY <3>1, <3>2, <2>30, QuietStep DEF FilesWhole
  <2>3. ASSUME NEW c \in Conns, EndWrite(c)
        PROVE  FilesWhole' /\ Applying' /\ CacheWhole'
    <3>1. Quiet
      BY <2>3, <2>0 DEF Quiet, Busy, EndWrite, Goto, unlock_sentence_ll, CacheLoaded
    <3>2. UNCHANGED <<disk, ckpt, displaced>>
      BY <2>3 DEF EndWrite, files, opened
    <3> QED BY <3>1, <3>2, <2>30, QuietStep DEF FilesWhole
  <2>4. ASSUME NEW c \in Conns, Disconnect(c)
        PROVE  FilesWhole' /\ Applying' /\ CacheWhole'
    BY <2>4 DEF NothingUndone, Disconnect
  <2>5. ASSUME NEW c \in Conns, UndoRequest(c)
        PROVE  FilesWhole' /\ Applying' /\ CacheWhole'
    BY <2>5 DEF NothingUndone, UndoRequest
  <2>6. ASSUME NEW c \in Conns, CheckpointOpen(c)
        PROVE  FilesWhole' /\ Applying' /\ CacheWhole'
    <3>1. Quiet
      BY <2>6, <2>0 DEF Quiet, Busy, CheckpointOpen, Goto
    <3>2. FilesWhole'
      BY <2>6, <2>30, <2>31 DEF FilesWhole, CheckpointOpen
    <3> QED BY <3>1, <3>2, QuietStep
  <2>7. ASSUME NEW c \in Conns, RevertNoCheckpoint(c)
        PROVE  FilesWhole' /\ Applying' /\ CacheWhole'
    <3>1. Quiet
      BY <2>7, <2>0 DEF Quiet, Busy, RevertNoCheckpoint, Finish
    <3>2. UNCHANGED <<disk, ckpt, displaced>>
      BY <2>7 DEF RevertNoCheckpoint, files, opened
    <3> QED BY <3>1, <3>2, <2>30, QuietStep DEF FilesWhole
  <2>8. ASSUME NEW c \in Conns, RevertOpen(c)
        PROVE  FilesWhole' /\ Applying' /\ CacheWhole'
    <3>1. Quiet
      BY <2>8, <2>0 DEF Quiet, Busy, RevertOpen, Goto
    <3>2. FilesWhole'
      BY <2>8, <2>30, <2>31 DEF FilesWhole, RevertOpen
    <3> QED BY <3>1, <3>2, QuietStep
  <2>9. ASSUME NEW c \in Conns, LockRefused(c)
        PROVE  FilesWhole' /\ Applying' /\ CacheWhole'
    <3>1. Quiet
      BY <2>9, <2>0 DEF Quiet, Busy, LockRefused, Finish, CacheLoaded
    <3>2. UNCHANGED <<disk, ckpt, displaced>>
      BY <2>9 DEF LockRefused, files, opened
    <3> QED BY <3>1, <3>2, <2>30, QuietStep DEF FilesWhole
  <2>10. ASSUME NEW c \in Conns, LockNewSentence(c)
        PROVE  FilesWhole' /\ Applying' /\ CacheWhole'
    <3>1. Quiet
      BY <2>10, <2>0 DEF Quiet, Busy, LockNewSentence, Goto, CacheLoaded
    <3>2. UNCHANGED <<disk, ckpt, displaced>>
      BY <2>10 DEF LockNewSentence, files, opened
    <3> QED BY <3>1, <3>2, <2>30, QuietStep DEF FilesWhole
  <2>11. ASSUME NEW c \in Conns, LockSentence(c)
        PROVE  FilesWhole' /\ Applying' /\ CacheWhole'
    <3>1. Quiet
      BY <2>11, <2>0 DEF Quiet, Busy, LockSentence, Goto, CacheLoaded
    <3>2. UNCHANGED <<disk, ckpt, displaced>>
      BY <2>11 DEF LockSentence, files, opened
    <3> QED BY <3>1, <3>2, <2>30, QuietStep DEF FilesWhole
  <2>12. ASSUME NEW c \in Conns, RecordWordCount(c)
        PROVE  FilesWhole' /\ Applying' /\ CacheWhole'
    <3>1. Quiet
      BY <2>12, <2>0 DEF Quiet, Busy, RecordWordCount, Goto, CacheLoaded
    <3>2. UNCHANGED <<disk, ckpt, displaced>>
      BY <2>12 DEF RecordWordCount, files, opened
    <3> QED BY <3>1, <3>2, <2>30, QuietStep DEF FilesWhole
  <2>13. ASSUME NEW c \in Conns, OpenBackup(c)
        PROVE  FilesWhole' /\ Applying' /\ CacheWhole'
    <3>1. Quiet
      BY <2>13, <2>0 DEF Quiet, Busy, OpenBackup, Goto, CacheLoaded
    <3>2. UNCHANGED <<disk, ckpt, displaced>>
      BY <2>13 DEF OpenBackup, files, opened
    <3> QED BY <3>1, <3>2, <2>30, QuietStep DEF FilesWhole
  <2>14. ASSUME NEW c \in Conns, WriteBackup(c)
        PROVE  FilesWhole' /\ Applying' /\ CacheWhole'
    <3>1. Quiet
      BY <2>14, <2>0 DEF Quiet, Busy, WriteBackup, Goto, CacheLoaded
    <3>2. UNCHANGED <<disk, ckpt, displaced>>
      BY <2>14 DEF WriteBackup, files, opened
    <3> QED BY <3>1, <3>2, <2>30, QuietStep DEF FilesWhole
  <2>15. ASSUME NEW c \in Conns, BeginCommit(c)
        PROVE  FilesWhole' /\ Applying' /\ CacheWhole'
    <3>1. \A d \in Conns : pc[d] \notin Busy
      BY <2>15 DEF BeginCommit, CommitFree, MutexesMatch, InCommit, Busy
    <3>2. UNCHANGED <<disk, ckpt, displaced, gen, index>>
      BY <2>15 DEF BeginCommit, files, opened
    <3>3. FilesWhole'
      BY <3>2, <2>30 DEF FilesWhole
    <3>4. PICK i : i = index[c]
      OBVIOUS
    <3>5. loaded /\ mem \in Document /\ i \in Nat
      BY <2>15, <3>4 DEF BeginCommit, Counted, ControlTypeOK, DataTypeOK, Index
    <3>6. mem' = WithTarget(mem, i)
      BY <2>15, <3>4, <3>5 DEF BeginCommit, get_file_from_cache
    <3>7. /\ UndoText(mem') = UndoText(mem) /\ mem' \in Document
          /\ WordCount(mem', i) = WordCount(mem, i)
      BY <3>5, <3>6, TargetType
    <3>8. \A d \in Conns : d # c => pc'[d] = pc[d]
      BY <2>15, <2>0 DEF BeginCommit, Goto, Finish
    <3>9. pc'[c] \in {"apply", "done"}
      BY <2>15, <2>0 DEF BeginCommit, Goto, Finish
    <3>10. CacheWhole'
      <4>1. \A d \in Conns : pc'[d] # "rename"
        BY <3>1, <3>8, <3>9 DEF Busy
      <4>2. WholeBut(UndoText(mem), pc', edit')
        BY <3>1, <2>32 DEF CacheWhole
      <4> QED BY <3>7, <4>1, <4>2 DEF CacheWhole, Writers
    <3>11. ASSUME NEW d \in Writers, pc'[d] = "apply"
           PROVE  edit'[d].doc = gen' /\ AppliedTo(OwnBodies(d), mem', index'[d], edit'[d])
      <4>1. d = c
        BY <3>1, <3>8, <3>11 DEF Busy, Writers
      <4>2. PICK e, f, off : /\ e = edit[c] /\ f = edit'[c]
                             /\ off = WordCount(mem', i) - e.original_word_count
        OBVIOUS
      <4>3. e \in EditLocals /\ gen \in Nat
        BY <4>2, <2>0 DEF ControlTypeOK
      <4>4. WordCount(mem', i) \in Nat /\ e.original_word_count \in Nat
        BY <3>5, <3>7, <4>3, WordCountType DEF EditLocals
      <4>5. off \in Int /\ e.original_word_count <= WordCount(mem', i)
        <5>1. e.original_word_count <= WordCount(mem, index[c])
          BY <2>15, <4>2 DEF Counted, BeginCommit
        <5> QED BY <3>4, <3>7, <4>2, <4>4, <5>1
      <4>6. i < Len(mem') /\ edit' = [edit EXCEPT ![c] = [e EXCEPT !.doc = gen, !.word_offset = off]]
        <5>1. get_file_from_cache = mem
          BY <3>5 DEF get_file_from_cache
        <5>2. pc'[c] = "apply" /\ pc'[c] \notin Over
          BY <3>11, <4>1
        <5> QED BY <2>15, <2>0, <3>4, <3>6, <4>2, <5>1, <5>2 DEF BeginCommit, Goto, Finish
      <4>7. f = [e EXCEPT !.doc = gen, !.word_offset = off]
        BY <2>0, <4>2, <4>6
      <4>8. /\ f \in EditLocals /\ f.doc = gen /\ f.word_offset = off /\ f.applied = e.applied
            /\ f.original_word_count = e.original_word_count
        BY <4>3, <4>5, <4>7 DEF EditLocals
      <4>9. f.applied = 0
        BY <2>15, <4>2, <4>8 DEF SessionInv, BeginCommit
      <4>10. WordsIn(UndoText(mem'), OwnBodies(c)) = <<>>
        <5>1. pc[c] \notin Over /\ pc[c] \notin Busy
          BY <2>15 DEF BeginCommit, Busy
        <5>2. WholeWords(OwnWords(UndoText(mem), c), pc[c] \in Over, edit[c])
          BY <3>11, <4>1, <5>1 DEF CacheWhole, WholeBut
        <5> QED BY <3>7, <5>1, <5>2 DEF WholeWords, OwnWords
      <4>11. WordCount(mem', i) = Len(mem'[i + 1].words)
        BY <4>6 DEF WordCount
      <4>12. AppliedTo(OwnBodies(c), mem', i, f)
        BY <3>5, <3>7, <4>2, <4>5, <4>6, <4>8, <4>9, <4>10, <4>11, AppliedStart
      <4> QED BY <3>2, <3>4, <4>1, <4>2, <4>8, <4>12
    <3>12. Applying'
      BY <3>11 DEF Applying
    <3> QED BY <3>3, <3>10, <3>12
  <2>16. ASSUME NEW c \in Conns, ApplyEdit(c)
        PROVE  FilesWhole' /\ Applying' /\ CacheWhole'
    <3>1. \A d \in Conns : pc[d] \in Busy => d = c
      BY <2>16 DEF ApplyEdit, MutexesMatch, InCommit, Busy
    <3>2. UNCHANGED <<disk, ckpt, displaced, gen, index, pc>>
      BY <2>16 DEF ApplyEdit, files, opened
    <3>3. FilesWhole'
      BY <3>2, <2>30 DEF FilesWhole
    <3>4. PICK e, f, i, S : e = edit[c] /\ f = edit'[c] /\ i = index[c] /\ S = OwnBodies(c)
      OBVIOUS
    <3>5. e \in EditLocals /\ i \in Nat /\ mem \in Document /\ c \in Writers
      BY <2>16, <2>0, <3>4 DEF ControlTypeOK, DataTypeOK, Index, SessionInv, ApplyEdit, Writers
    <3>6. e.doc = gen /\ AppliedTo(S, mem, i, e)
      BY <2>16, <3>4, <3>5 DEF Applying, ApplyEdit
    <3>7. mem' = WordInserted(mem, i, e)
      BY <2>16, <3>4, <3>6 DEF ApplyEdit
    <3>8. edit' = [edit EXCEPT ![c] = [e EXCEPT !.applied = e.applied + 1]]
      BY <2>16, <3>4 DEF ApplyEdit
    <3>9. f = [e EXCEPT !.applied = e.applied + 1]
      BY <2>0, <3>4, <3>8
    <3>10. /\ f \in EditLocals /\ f.doc = gen /\ f.word_offset = e.word_offset /\ f.ops = e.ops
           /\ f.original_word_count = e.original_word_count /\ f.applied = e.applied + 1
      BY <3>5, <3>6, <3>9 DEF EditLocals
    <3>11. e.applied \in Nat /\ e.applied < Len(e.ops) /\ e.ops \in Seq(EditOp) /\ Len(e.ops) \in Nat
      BY <2>16, <3>4, <3>5, LenProperties DEF ApplyEdit, EditLocals
    <3>12. PICK n : n = e.applied + 1
      OBVIOUS
    <3>13. n \in 1 .. Len(e.ops)
      BY ONLY <3>11, <3>12
    <3>14. e.ops[n] \in EditOp /\ e.ops[n].word \in Token /\ e.ops[n].word.body \in S
      <4>1. e.ops[n] \in EditOp
        BY <3>11, <3>13, ElementOfSeq
      <4>2. e.ops[n].word.body \in OwnBodies(c)
        BY <3>4, <3>13 DEF SessionInv, OpsOwn
      <4> QED BY <3>4, <4>1, <4>2 DEF EditOp
    <3>15. S \subseteq Bodies /\ OpsFit(e)
      BY <3>4, <3>5 DEF Traceable, SessionInv
    <3>16. AppliedTo(S, mem', i, f)
      BY <3>5, <3>6, <3>7, <3>10, <3>11, <3>12, <3>14, <3>15, AppliedNext
    <3>17. Applying'
      <4>1. \A d \in Writers : pc'[d] = "apply" => d = c
        BY <3>1, <3>2 DEF Busy, Writers
      <4> QED BY <3>2, <3>4, <3>10, <3>16, <4>1 DEF Applying
    <3>19. \A d \in Writers : d # c => OwnWords(UndoText(mem'), d) = OwnWords(UndoText(mem), d)
      BY <2>16, OthersKept
    <3>20. WholeBut(UndoText(mem'), pc', edit')
      <4>1. WholeBut(UndoText(mem), pc', edit')
        BY <3>2, <2>32 DEF CacheWhole
      <4>2. pc'[c] \in Busy
        BY <2>16, <3>2 DEF ApplyEdit, Busy
      <4> QED BY <3>19, <4>1, <4>2 DEF WholeBut
    <3>21. \A d \in Writers : pc'[d] # "rename"
      BY <2>16, <3>1, <3>2 DEF ApplyEdit, Busy, Writers
    <3> QED BY <3>3, <3>17, <3>20, <3>21 DEF CacheWhole
  <2>17. ASSUME NEW c \in Conns, SyncToSwap(c)
        PROVE  FilesWhole' /\ Applying' /\ CacheWhole'
    <3>1. \A d \in Conns : pc[d] \in Busy => d = c
      BY <2>17 DEF SyncToSwap, MutexesMatch, InCommit, Busy
    <3>2. UNCHANGED <<disk, ckpt, displaced, gen, index, edit>>
      BY <2>17 DEF SyncToSwap, opened
    <3>3. FilesWhole'
      BY <3>2, <2>30 DEF FilesWhole
    <3>4. mem \in Document /\ c \in Writers /\ edit[c] \in EditLocals /\ index[c] \in Nat
      BY <2>17, <2>0 DEF ControlTypeOK, DataTypeOK, Index, SessionInv, SyncToSwap, Writers
    <3>5. mem' = mem /\ swap' = write_linked_list_to_file(mem)
      BY <2>17 DEF SyncToSwap, CacheLoaded, get_file_from_cache, Counted
    <3>6. \A d \in Conns : pc'[d] = IF d = c THEN "rename" ELSE pc[d]
      BY <2>17, <2>0 DEF SyncToSwap, Goto
    <3>7. ASSUME NEW d \in Writers PROVE OwnWords(swap', d) = OwnWords(UndoText(mem), d)
      <4>1. NoBody \notin OwnBodies(d)
        BY BodiesAssumption DEF Traceable
      <4> QED BY <3>4, <3>5, <4>1, WrittenIs DEF OwnWords
    <3>8. Complete(OwnWords(UndoText(mem), c), edit[c])
      <4>1. AppliedTo(OwnBodies(c), mem, index[c], edit[c])
        BY <2>17, <3>4 DEF Applying, SyncToSwap
      <4>2. edit[c].applied = Len(edit[c].ops)
        BY <2>17 DEF SyncToSwap
      <4> QED BY <3>4, <4>1, <4>2, AppliedEnd DEF OwnWords
    <3>9. pc[c] \in Busy /\ pc'[c] \in Busy
      BY <2>17, <3>6 DEF SyncToSwap, Busy
    <3>10. WholeBut(UndoText(mem), pc', edit')
      BY <3>9, <3>6, <2>32 DEF CacheWhole
    <3>11. WholeBut(swap', pc', edit')
      BY <3>7, <3>10 DEF WholeBut
    <3>12. \A d \in Writers : pc'[d] # "apply" /\ (pc'[d] = "rename" => d = c)
      BY <3>1, <3>6 DEF Busy, Writers
    <3>13. Complete(OwnWords(swap', c), edit[c])
      BY <3>4, <3>7, <3>8
    <3>14. Applying'
      BY <3>12 DEF Applying
    <3>15. CacheWhole'
      BY <3>2, <3>5, <3>8, <3>10, <3>11, <3>12, <3>13 DEF CacheWhole
    <3> QED BY <3>3, <3>14, <3>15
  <2>18. ASSUME NEW c \in Conns, Rename(c)
        PROVE  FilesWhole' /\ Applying' /\ CacheWhole'
    <3>1. \A d \in Conns : pc[d] \in Busy => d = c
      BY <2>18 DEF Rename, MutexesMatch, InCommit, Busy
    <3>2. UNCHANGED <<mem, gen, index, edit, ckpt>> /\ disk' = swap /\ displaced' = Replaced(ino, disk)
      BY <2>18 DEF Rename, cache
    <3>3. \A d \in Conns : pc'[d] = IF d = c THEN "answer" ELSE pc[d]
      BY <2>18, <2>0 DEF Rename, Goto
    <3>4. \A d \in Conns : pc'[d] \notin Busy
      BY <3>1, <3>3 DEF Busy
    <3>5. c \in Writers /\ pc[c] = "rename"
      BY <2>18 DEF SessionInv, Rename, Writers
    <3>6. /\ Complete(OwnWords(UndoText(mem), c), edit[c]) /\ Complete(OwnWords(swap, c), edit[c])
          /\ WholeBut(UndoText(mem), pc, edit) /\ WholeBut(swap, pc, edit)
      BY <3>5 DEF CacheWhole
    <3>7. ASSUME NEW text, Complete(OwnWords(text, c), edit[c]), WholeBut(text, pc, edit)
          PROVE  WholeIn(text, pc', edit')
      <4>1. ASSUME NEW d \in Writers PROVE WholeWords(OwnWords(text, d), pc'[d] \in Over, edit'[d])
        <5>1. CASE d = c
          BY <3>2, <3>3, <3>7, <5>1 DEF WholeWords, Writers
        <5>2. CASE d # c
          BY <3>1, <3>2, <3>3, <3>7, <5>2 DEF WholeBut, Writers
        <5> QED BY <5>1, <5>2
      <4> QED BY <4>1 DEF WholeIn
    <3>8. WholeIn(disk', pc', edit') /\ WholeIn(UndoText(mem), pc', edit')
      BY <3>2, <3>6, <3>7
    <3>9. FilesWhole'
      <4>1. \A d \in Conns : displaced'[d] \in {displaced[d], disk}
        BY <3>2 DEF Replaced
      <4>2. WholeIn(disk, pc', edit') /\ (ckpt # NoFile => WholeIn(ckpt, pc', edit'))
        BY <2>30 DEF FilesWhole
      <4>3. ASSUME NEW d \in Conns PROVE WholeIn(displaced'[d], pc', edit')
        <5>1. WholeIn(displaced[d], pc', edit')
          BY <2>30 DEF FilesWhole
        <5> QED BY <4>1, <4>2, <5>1
      <4> QED BY <3>2, <3>8, <4>2, <4>3 DEF FilesWhole
    <3>10. Applying'
      BY <3>4 DEF Applying, Busy, Writers
    <3>11. CacheWhole'
      <4>1. WholeBut(UndoText(mem'), pc', edit')
        BY <3>2, <3>8 DEF WholeBut, WholeIn
      <4> QED BY <3>4, <4>1 DEF CacheWhole, Busy, Writers
    <3> QED BY <3>9, <3>10, <3>11
  <2>18a. ASSUME NEW c \in Conns, AnswerWrite(c)
        PROVE  FilesWhole' /\ Applying' /\ CacheWhole'
    <3>1. Quiet
      BY <2>18a, <2>0 DEF Quiet, Busy, AnswerWrite, Finish
    <3>2. UNCHANGED <<disk, ckpt, displaced>>
      BY <2>18a DEF AnswerWrite, files, opened
    <3> QED BY <3>1, <3>2, <2>30, QuietStep DEF FilesWhole
  <2>18b. ASSUME NEW c \in Conns, OpenSwapFails(c)
        PROVE  FilesWhole' /\ Applying' /\ CacheWhole'
    BY <2>18b DEF NothingUndone, OpenSwapFails
  <2>18c. ASSUME NEW c \in Conns, RenameFails(c)
        PROVE  FilesWhole' /\ Applying' /\ CacheWhole'
    BY <2>18c DEF NothingUndone, RenameFails
  <2>18d. ASSUME NEW c \in Conns, UndoOpenFails(c)
        PROVE  FilesWhole' /\ Applying' /\ CacheWhole'
    BY <2>18d DEF NothingUndone, UndoOpenFails
  <2>19. ASSUME NEW c \in Conns, UndoNoBackup(c)
        PROVE  FilesWhole' /\ Applying' /\ CacheWhole'
    BY <2>19 DEF Counted, UndoNoBackup
  <2>20. ASSUME NEW c \in Conns, UndoOpen(c)
        PROVE  FilesWhole' /\ Applying' /\ CacheWhole'
    BY <2>20 DEF Counted, UndoOpen
  <2>21. ASSUME NEW c \in Conns, UndoCopy(c)
        PROVE  FilesWhole' /\ Applying' /\ CacheWhole'
    BY <2>21 DEF Counted, UndoCopy
  <2>22. ASSUME NEW c \in Conns, UndoReload(c)
        PROVE  FilesWhole' /\ Applying' /\ CacheWhole'
    BY <2>22 DEF Counted, UndoReload
  <2>23. ASSUME NEW c \in Conns, CheckpointCopy(c)
        PROVE  FilesWhole' /\ Applying' /\ CacheWhole'
    <3>1. Quiet
      BY <2>23, <2>0 DEF Quiet, Busy, CheckpointCopy, Finish
    <3>2. FilesWhole'
      BY <2>23, <2>30 DEF FilesWhole, CheckpointCopy, opened
    <3> QED BY <3>1, <3>2, QuietStep
  <2>24. ASSUME NEW c \in Conns, RevertCopy(c)
        PROVE  FilesWhole' /\ Applying' /\ CacheWhole'
    <3>1. Quiet
      BY <2>24, <2>0 DEF Quiet, Busy, RevertCopy, Finish
    <3>2. FilesWhole'
      <4>1. ckpt # NoFile /\ ckpt' = ckpt
        BY <2>24 DEF RevertCopy, SourcesExist
      <4>2. disk' \in {disk, ckpt} /\ \A d \in Conns : displaced'[d] \in {displaced[d], ckpt}
        BY <2>24 DEF RevertCopy, Overwrite, Replaced
      <4>3. WholeIn(disk, pc', edit') /\ WholeIn(ckpt, pc', edit')
        BY <4>1, <2>30 DEF FilesWhole
      <4>4. ASSUME NEW d \in Conns PROVE WholeIn(displaced'[d], pc', edit')
        <5>1. WholeIn(displaced[d], pc', edit')
          BY <2>30 DEF FilesWhole
        <5> QED BY <4>2, <4>3, <5>1
      <4> QED BY <4>1, <4>2, <4>3, <4>4 DEF FilesWhole
    <3> QED BY <3>1, <3>2, QuietStep
  <2>25. ASSUME Crash
        PROVE  FilesWhole' /\ Applying' /\ CacheWhole'
    <3>1. UNCHANGED <<disk, ckpt, displaced>> /\ mem' = <<>>
      BY <2>25 DEF Crash, files, opened
    <3>2. FilesWhole'
      BY <3>1, <2>30 DEF FilesWhole
    <3>3. \A d \in Conns : pc'[d] \notin Busy
      BY <2>25 DEF Crash, Busy
    <3>4. WholeBut(UndoText(mem'), pc', edit')
      BY <3>1, <2>31, NothingCached DEF WholeBut, WholeIn
    <3> QED BY <3>2, <3>3, <3>4 DEF CacheWhole, Applying, Busy, Writers
  <2>26. ASSUME UNCHANGED vars
        PROVE  FilesWhole' /\ Applying' /\ CacheWhole'
    <3>1. Quiet
      BY <2>26, <2>0 DEF Quiet, Busy, vars
    <3>2. UNCHANGED <<disk, ckpt, displaced>>
      BY <2>26 DEF vars, files, opened
    <3> QED BY <3>1, <3>2, <2>30, QuietStep DEF FilesWhole
  <2> QED
    BY <2>1, <2>2, <2>3, <2>4, <2>5, <2>6, <2>7, <2>8, <2>9, <2>10, <2>11, <2>12,
       <2>13, <2>14, <2>15, <2>16, <2>17, <2>18, <2>18a, <2>18b, <2>18c, <2>18d,
       <2>19, <2>20, <2>21, <2>22, <2>23,
       <2>24, <2>25, <2>26
       DEF Next, ServerStep, ClientStep, Done
<1> QED
  BY <1>1, <1>2, ControlTypes, MutexDiscipline, DataTypes, SessionsFit, SentencesGrow, PTL
     DEF Spec

\* What the file, or a checkpoint, holds of a session is nothing or all of its words, when
\* nobody undoes: whatever the interleaving of sessions, checkpoints, reverts and crashes is,
\* and although a CHECKPOINT reads without a lock and REVERT writes without one.
THEOREM SessionsAllOrNothing == NothingUndone /\ Traceable /\ Fresh /\ Spec => []AllOrNothing
<1>1. ASSUME NEW text, WholeIn(text, pc, edit) PROVE HoldsWholeSessions(text)
  BY <1>1 DEF WholeIn, WholeWords, Complete, HoldsWholeSessions
<1>2. DataInv => disk # NoFile
  BY TextAssumption DEF DataInv, DataTypeOK
<1>3. DataInv /\ WholeInv => AllOrNothing
  BY <1>1, <1>2 DEF WholeInv, FilesWhole, AllOrNothing
<1> QED BY <1>3, DataTypes, SessionsWhole, PTL

-----------------------------------------------------------------------------
(***************************************************************************)
(* A write that was answered stays in the file.                            *)
(***************************************************************************)

\* The copies of CHECKPOINT and REVERT belong to these requests.
CopiesFit ==
  \A c \in Conns : /\ pc[c] = "ckpt_copy" => Request[c] = "CHECKPOINT"
                   /\ pc[c] = "revert_copy" => Request[c] = "REVERT"

LEMMA CopiesBelong == Spec => []CopiesFit
<1>1. Init => CopiesFit
  BY DEF Init, CopiesFit
<1>2. ControlTypeOK /\ CopiesFit /\ [Next]_vars => CopiesFit'
  <2> SUFFICES ASSUME ControlTypeOK, CopiesFit, [Next]_vars PROVE CopiesFit'
    OBVIOUS
  <2>0. pc \in [Conns -> PCs]
    BY DEF ControlTypeOK
  <2> USE <2>0 DEF CopiesFit
  <2>1. ASSUME NEW c \in Conns, NEW i \in Index, ValidateWrite(c, i)
        PROVE  CopiesFit'
    BY <2>1 DEF ValidateWrite, Goto, Finish
  <2>2. ASSUME NEW c \in Conns, NEW batch \in Batches[c], NEW base \in 0 .. MaxWordIndex,
             WriteCommand(c, base, batch)
        PROVE  CopiesFit'
    BY <2>2 DEF WriteCommand
  <2>3. ASSUME NEW c \in Conns, EndWrite(c)
        PROVE  CopiesFit'
    BY <2>3 DEF EndWrite, Goto
  <2>4. ASSUME NEW c \in Conns, Disconnect(c)
        PROVE  CopiesFit'
    BY <2>4 DEF Disconnect, Goto
  <2>5. ASSUME NEW c \in Conns, UndoRequest(c)
        PROVE  CopiesFit'
    BY <2>5 DEF UndoRequest, Goto
  <2>6. ASSUME NEW c \in Conns, CheckpointOpen(c)
        PROVE  CopiesFit'
    BY <2>6 DEF CheckpointOpen, Goto
  <2>7. ASSUME NEW c \in Conns, RevertNoCheckpoint(c)
        PROVE  CopiesFit'
    BY <2>7 DEF RevertNoCheckpoint, Finish
  <2>8. ASSUME NEW c \in Conns, RevertOpen(c)
        PROVE  CopiesFit'
    BY <2>8 DEF RevertOpen, Goto
  <2>9. ASSUME NEW c \in Conns, LockRefused(c)
        PROVE  CopiesFit'
    BY <2>9 DEF LockRefused, Finish
  <2>10. ASSUME NEW c \in Conns, LockNewSentence(c)
        PROVE  CopiesFit'
    BY <2>10 DEF LockNewSentence, Goto
  <2>11. ASSUME NEW c \in Conns, LockSentence(c)
        PROVE  CopiesFit'
    BY <2>11 DEF LockSentence, Goto
  <2>12. ASSUME NEW c \in Conns, RecordWordCount(c)
        PROVE  CopiesFit'
    BY <2>12 DEF RecordWordCount, Goto
  <2>13. ASSUME NEW c \in Conns, OpenBackup(c)
        PROVE  CopiesFit'
    BY <2>13 DEF OpenBackup, Goto
  <2>14. ASSUME NEW c \in Conns, WriteBackup(c)
        PROVE  CopiesFit'
    BY <2>14 DEF WriteBackup, Goto
  <2>15. ASSUME NEW c \in Conns, BeginCommit(c)
        PROVE  CopiesFit'
    BY <2>15 DEF BeginCommit, Goto, Finish
  <2>16. ASSUME NEW c \in Conns, ApplyEdit(c)
        PROVE  CopiesFit'
    BY <2>16 DEF ApplyEdit
  <2>17. ASSUME NEW c \in Conns, SyncToSwap(c)
        PROVE  CopiesFit'
    BY <2>17 DEF SyncToSwap, Goto
  <2>18. ASSUME NEW c \in Conns, Rename(c)
        PROVE  CopiesFit'
    BY <2>18 DEF Rename, Goto
  <2>18a. ASSUME NEW c \in Conns, AnswerWrite(c)
        PROVE  CopiesFit'
    BY <2>18a DEF AnswerWrite, Finish
  <2>18b. ASSUME NEW c \in Conns, OpenSwapFails(c)
        PROVE  CopiesFit'
    BY <2>18b DEF OpenSwapFails, Goto
  <2>18c. ASSUME NEW c \in Conns, RenameFails(c)
        PROVE  CopiesFit'
    BY <2>18c DEF RenameFails, Goto
  <2>18d. ASSUME NEW c \in Conns, UndoOpenFails(c)
        PROVE  CopiesFit'
    BY <2>18d DEF UndoOpenFails, ReturnFromUndo, Finish
  <2>19. ASSUME NEW c \in Conns, UndoNoBackup(c)
        PROVE  CopiesFit'
    BY <2>19 DEF UndoNoBackup, ReturnFromUndo, Finish
  <2>20. ASSUME NEW c \in Conns, UndoOpen(c)
        PROVE  CopiesFit'
    BY <2>20 DEF UndoOpen, Goto
  <2>21. ASSUME NEW c \in Conns, UndoCopy(c)
        PROVE  CopiesFit'
    BY <2>21 DEF UndoCopy, Goto
  <2>22. ASSUME NEW c \in Conns, UndoReload(c)
        PROVE  CopiesFit'
    BY <2>22 DEF UndoReload, ReturnFromUndo, Finish
  <2>23. ASSUME NEW c \in Conns, CheckpointCopy(c)
        PROVE  CopiesFit'
    BY <2>23 DEF CheckpointCopy, Finish
  <2>24. ASSUME NEW c \in Conns, RevertCopy(c)
        PROVE  CopiesFit'
    BY <2>24 DEF RevertCopy, Finish
  <2>25. ASSUME Crash
        PROVE  CopiesFit'
    BY <2>25 DEF Crash
  <2>26. ASSUME UNCHANGED vars
        PROVE  CopiesFit'
    BY <2>26 DEF vars
  <2> QED
    BY <2>1, <2>2, <2>3, <2>4, <2>5, <2>6, <2>7, <2>8, <2>9, <2>10, <2>11, <2>12,
       <2>13, <2>14, <2>15, <2>16, <2>17, <2>18, <2>18a, <2>18b, <2>18c, <2>18d,
       <2>19, <2>20, <2>21, <2>22, <2>23,
       <2>24, <2>25, <2>26
       DEF Next, ServerStep, ClientStep, Done
<1> QED
  BY <1>1, <1>2, ControlTypes, PTL DEF Spec

\* Nobody reverts the file to a checkpoint either.
NothingTakenBack == NothingUndone /\ \A c \in Conns : Request[c] # "REVERT"

\* The words of a session whose commit is over are in the file, in the cached sentences the
\* next commit starts from, and in the swap file that is to replace the file.
Kept ==
  \A c \in Writers : Committed(c) =>
    /\ OwnWords(disk, c) = QueuedBy(edit[c])
    /\ loaded => OwnWords(UndoText(mem), c) = QueuedBy(edit[c])
    /\ \A d \in Conns : pc[d] = "rename" => OwnWords(swap, c) = QueuedBy(edit[c])

\* A step that ends no commit and leaves the file alone.
Steady ==
  /\ UNCHANGED <<loaded, mem>> \/ mem' = get_file_from_cache
  /\ disk' = disk /\ swap' = swap
  /\ \A c \in Conns : pc'[c] = "rename" => pc[c] = "rename"
  /\ \A c \in Writers : Committed(c)' => Committed(c)

LEMMA SteadyStep ==
  ASSUME DataTypeOK, Traceable, Kept, Steady,
         \A d \in Conns : pc[d] \in Over => pc'[d] \in Over /\ edit'[d] = edit[d]
  PROVE  Kept'
<1> SUFFICES ASSUME NEW c \in Writers, Committed(c)'
             PROVE  /\ OwnWords(disk, c) = QueuedBy(edit'[c])
                    /\ loaded' => OwnWords(UndoText(mem'), c) = QueuedBy(edit'[c])
                    /\ \A d \in Conns : pc'[d] = "rename" => OwnWords(swap, c) = QueuedBy(edit'[c])
  BY DEF Kept, Steady
<1>1. Committed(c) /\ c \in Conns
  BY DEF Steady, Writers
<1>2. edit'[c] = edit[c]
  BY <1>1 DEF Committed
<1>3. OwnWords(disk, c) = QueuedBy(edit[c])
  BY <1>1 DEF Kept
<1>4. \A d \in Conns : pc'[d] = "rename" => OwnWords(swap, c) = QueuedBy(edit[c])
  BY <1>1 DEF Kept, Steady
<1>5. loaded' => OwnWords(UndoText(mem'), c) = QueuedBy(edit[c])
  <2>1. CASE UNCHANGED <<loaded, mem>> \/ (loaded /\ mem' = mem)
    BY <1>1, <2>1 DEF Kept
  <2>2. CASE ~loaded /\ mem' = parse_file_to_linked_list(disk)
    <3>1. NoBody \notin OwnBodies(c) /\ disk \in Text
      BY BodiesAssumption DEF Traceable, DataTypeOK
    <3> QED BY <1>3, <2>2, <3>1, ParseKeepsWords DEF OwnWords
  <2> QED BY <2>1, <2>2 DEF Steady, get_file_from_cache
<1> QED BY <1>2, <1>3, <1>4, <1>5

LEMMA AnsweredKept == NothingTakenBack /\ Traceable /\ Fresh /\ Spec => []Kept
<1> SUFFICES ASSUME NothingTakenBack, NothingUndone, Traceable, Fresh PROVE Spec => []Kept
  BY DEF NothingTakenBack
<1>1. Init => Kept
  BY DEF Init, Kept, Committed, Writers
<1>2. ControlTypeOK /\ MutexesMatch /\ DataTypeOK /\ SessionInv /\ Counted /\ CopiesFit
        /\ WholeInv /\ Kept /\ [Next]_vars => Kept'
  <2> SUFFICES ASSUME ControlTypeOK, MutexesMatch, DataTypeOK, SessionInv, Counted, CopiesFit,
                      WholeInv, Kept, [Next]_vars
               PROVE  Kept'
    OBVIOUS
  <2>0. pc \in [Conns -> PCs] /\ edit \in [Conns -> EditLocals] /\ reply \in [Conns -> Replies]
    BY DEF ControlTypeOK, DataTypeOK
  <2>29. \A d \in Conns : pc[d] \in Over => pc'[d] \in Over /\ edit'[d] = edit[d]
    BY DoneStays
  <2>1. ASSUME NEW c \in Conns, NEW i \in Index, ValidateWrite(c, i)
        PROVE  Kept'
    <3>1. ~Committed(c)'
      BY <2>1, <2>0 DEF ValidateWrite, WriteRefusal, Goto, Finish, Committed
    <3>2. \A d \in Conns : d # c => reply'[d] = reply[d] /\ pc'[d] = pc[d]
      BY <2>1, <2>0 DEF ValidateWrite, Goto, Finish
    <3>3. pc'[c] # "rename" /\ UNCHANGED <<loaded, mem, disk, swap>>
      BY <2>1, <2>0 DEF ValidateWrite, Goto, Finish, files, cache
    <3>4. Steady
      BY <3>1, <3>2, <3>3 DEF Steady, Committed, Writers
    <3> QED BY <3>4, <2>29, SteadyStep
  <2>2. ASSUME NEW c \in Conns, NEW batch \in Batches[c], NEW base \in 0 .. MaxWordIndex,
             WriteCommand(c, base, batch)
        PROVE  Kept'
    <3>1. Steady
      BY <2>2, <2>0 DEF Steady, Committed, WriteCommand, files, cache
    <3> QED BY <3>1, <2>29, SteadyStep
  <2>3. ASSUME NEW c \in Conns, EndWrite(c)
        PROVE  Kept'
    <3>1. Steady
      BY <2>3, <2>0 DEF Steady, Committed, EndWrite, Goto, unlock_sentence_ll, CacheLoaded, files, cache
    <3> QED BY <3>1, <2>29, SteadyStep
  <2>4. ASSUME NEW c \in Conns, Disconnect(c)
        PROVE  Kept'
    BY <2>4 DEF NothingUndone, Disconnect
  <2>5. ASSUME NEW c \in Conns, UndoRequest(c)
        PROVE  Kept'
    BY <2>5 DEF NothingUndone, UndoRequest
  <2>6. ASSUME NEW c \in Conns, CheckpointOpen(c)
        PROVE  Kept'
    <3>1. Steady
      BY <2>6, <2>0 DEF Steady, Committed, CheckpointOpen, Goto, cache
    <3> QED BY <3>1, <2>29, SteadyStep
  <2>7. ASSUME NEW c \in Conns, RevertNoCheckpoint(c)
        PROVE  Kept'
    BY <2>7 DEF NothingTakenBack, RevertNoCheckpoint
  <2>8. ASSUME NEW c \in Conns, RevertOpen(c)
        PROVE  Kept'
    BY <2>8 DEF NothingTakenBack, RevertOpen
  <2>9. ASSUME NEW c \in Conns, LockRefused(c)
        PROVE  Kept'
    <3>1. reply'[c] \in {"SENTENCE_OUT_OF_RANGE", "SENTENCE_LOCKED"} /\ pc'[c] = "done"
      BY <2>9, <2>0 DEF LockRefused, Finish
    <3>2. \A d \in Conns : d # c => reply'[d] = reply[d] /\ pc'[d] = pc[d]
      BY <2>9, <2>0 DEF LockRefused, Finish
    <3>3. mem' = get_file_from_cache /\ UNCHANGED <<disk, swap>>
      BY <2>9 DEF LockRefused, CacheLoaded, files
    <3>4. Steady
      BY <3>1, <3>2, <3>3 DEF Steady, Committed, Writers
    <3> QED BY <3>4, <2>29, SteadyStep
  <2>10. ASSUME NEW c \in Conns, LockNewSentence(c)
        PROVE  Kept'
    <3>1. Steady
      BY <2>10, <2>0 DEF Steady, Committed, LockNewSentence, Goto, CacheLoaded, files, cache
    <3> QED BY <3>1, <2>29, SteadyStep
  <2>11. ASSUME NEW c \in Conns, LockSentence(c)
        PROVE  Kept'
    <3>1. Steady
      BY <2>11, <2>0 DEF Steady, Committed, LockSentence, Goto, CacheLoaded, files, cache
    <3> QED BY <3>1, <2>29, SteadyStep
  <2>12. ASSUME NEW c \in Conns, RecordWordCount(c)
        PROVE  Kept'
    <3>1. Steady
      BY <2>12, <2>0 DEF Steady, Committed, RecordWordCount, Goto, CacheLoaded, files, cache
    <3> QED BY <3>1, <2>29, SteadyStep
  <2>13. ASSUME NEW c \in Conns, OpenBackup(c)
        PROVE  Kept'
    <3>1. Steady
      BY <2>13, <2>0 DEF Steady, Committed, OpenBackup, Goto, CacheLoaded, files, cache
    <3> QED BY <3>1, <2>29, SteadyStep
  <2>14. ASSUME NEW c \in Conns, WriteBackup(c)
        PROVE  Kept'
    <3>1. Steady
      BY <2>14, <2>0 DEF Steady, Committed, WriteBackup, Goto, CacheLoaded, files, cache
    <3> QED BY <3>1, <2>29, SteadyStep
  <2>15. ASSUME NEW c \in Conns, BeginCommit(c)
        PROVE  Kept'
    <3>1. loaded /\ mem \in Document /\ index[c] \in Nat
      BY <2>15 DEF BeginCommit, Counted, ControlTypeOK, DataTypeOK, Index
    <3>2. mem' = WithTarget(mem, index[c])
      BY <2>15, <3>1 DEF BeginCommit, get_file_from_cache
    <3>3. UndoText(mem') = UndoText(mem)
      BY <3>1, <3>2, TargetType
    <3>4. /\ disk' = disk /\ swap' = swap /\ \A d \in Conns : pc'[d] = "rename" => pc[d] = "rename"
          /\ \A d \in Conns : Committed(d)' => Committed(d)
      BY <2>15, <2>0 DEF BeginCommit, Goto, Finish, Committed, files
    <3>5. \A d \in Conns : Committed(d) => edit'[d] = edit[d]
      BY <2>29 DEF Committed
    <3> QED BY <3>1, <3>3, <3>4, <3>5 DEF Kept, Writers
  <2>16. ASSUME NEW c \in Conns, ApplyEdit(c)
        PROVE  Kept'
    <3>1. UNCHANGED <<disk, swap, loaded, pc, reply>>
      BY <2>16 DEF ApplyEdit, files
    <3>2. ASSUME NEW d \in Writers, Committed(d)
          PROVE  OwnWords(UndoText(mem'), d) = OwnWords(UndoText(mem), d)
      <4>1. d # c
        BY <2>16, <3>2 DEF ApplyEdit, Committed
      <4> QED BY <2>16, <4>1, OthersKept
    <3>3. ASSUME NEW d \in Writers, Committed(d)'
          PROVE  Committed(d) /\ edit'[d] = edit[d]
      BY <3>1, <3>3, <2>29 DEF Committed, Writers
    <3> QED BY <3>1, <3>2, <3>3 DEF Kept
  <2>17. ASSUME NEW c \in Conns, SyncToSwap(c)
        PROVE  Kept'
    <3>1. loaded /\ mem \in Document
      BY <2>17 DEF SyncToSwap, Counted, DataTypeOK
    <3>2. mem' = mem /\ swap' = write_linked_list_to_file(mem) /\ UNCHANGED <<disk, reply>>
      BY <2>17, <3>1 DEF SyncToSwap, Goto, CacheLoaded, get_file_from_cache
    <3>3. ASSUME NEW d \in Writers PROVE OwnWords(swap', d) = OwnWords(UndoText(mem), d)
      <4>1. NoBody \notin OwnBodies(d)
        BY BodiesAssumption DEF Traceable
      <4> QED BY <3>1, <3>2, <4>1, WrittenIs DEF OwnWords
    <3>4. ASSUME NEW d \in Writers, Committed(d)'
          PROVE  /\ edit'[d] = edit[d]
                 /\ OwnWords(disk, d) = QueuedBy(edit[d])
                 /\ OwnWords(UndoText(mem), d) = QueuedBy(edit[d])
      <4>1. Committed(d)
        BY <2>17, <2>0, <3>4 DEF SyncToSwap, Goto, Committed, Writers
      <4>2. edit'[d] = edit[d]
        BY <4>1, <2>29 DEF Committed, Writers
      <4> QED BY <3>1, <4>1, <4>2 DEF Kept
    <3> QED BY <3>2, <3>3, <3>4 DEF Kept
  <2>18. ASSUME NEW c \in Conns, Rename(c)
        PROVE  Kept'
    <3>1. \A d \in Conns : pc[d] \in Busy => d = c
      BY <2>18 DEF Rename, MutexesMatch, InCommit, Busy
    <3>2. UNCHANGED <<loaded, mem, edit>> /\ disk' = swap
      BY <2>18 DEF Rename, cache
    <3>3. /\ \A d \in Conns : pc'[d] = IF d = c THEN "answer" ELSE pc[d]
          /\ reply' = reply
      BY <2>18, <2>0 DEF Rename, Goto
    <3>4. c \in Writers /\ pc[c] = "rename"
      BY <2>18 DEF SessionInv, Rename, Writers
    <3>5. /\ OwnWords(UndoText(mem), c) = QueuedBy(edit[c])
          /\ OwnWords(swap, c) = QueuedBy(edit[c])
      BY <3>4 DEF WholeInv, CacheWhole, Complete
    <3>6. \A d \in Conns : pc'[d] # "rename"
      BY <3>1, <3>3 DEF Busy
    <3>7. ASSUME NEW d \in Writers, Committed(d)'
          PROVE  /\ OwnWords(swap, d) = QueuedBy(edit[d])
                 /\ loaded => OwnWords(UndoText(mem), d) = QueuedBy(edit[d])
      <4>1. CASE d = c
        BY <3>3, <3>5, <4>1 DEF Writers
      <4>2. CASE d # c
        BY <3>3, <3>4, <3>7, <4>2 DEF Kept, Committed, Writers
      <4> QED BY <4>1, <4>2
    <3> QED BY <3>2, <3>6, <3>7 DEF Kept
  <2>18a. ASSUME NEW c \in Conns, AnswerWrite(c)
        PROVE  Kept'
    <3>1. Steady
      BY <2>18a, <2>0 DEF Steady, Committed, AnswerWrite, Finish, files, cache
    <3> QED BY <3>1, <2>29, SteadyStep
  <2>18b. ASSUME NEW c \in Conns, OpenSwapFails(c)
        PROVE  Kept'
    BY <2>18b DEF NothingUndone, OpenSwapFails
  <2>18c. ASSUME NEW c \in Conns, RenameFails(c)
        PROVE  Kept'
    BY <2>18c DEF NothingUndone, RenameFails
  <2>18d. ASSUME NEW c \in Conns, UndoOpenFails(c)
        PROVE  Kept'
    BY <2>18d DEF NothingUndone, UndoOpenFails
  <2>19. ASSUME NEW c \in Conns, UndoNoBackup(c)
        PROVE  Kept'
    BY <2>19 DEF Counted, UndoNoBackup
  <2>20. ASSUME NEW c \in Conns, UndoOpen(c)
        PROVE  Kept'
    BY <2>20 DEF Counted, UndoOpen
  <2>21. ASSUME NEW c \in Conns, UndoCopy(c)
        PROVE  Kept'
    BY <2>21 DEF Counted, UndoCopy
  <2>22. ASSUME NEW c \in Conns, UndoReload(c)
        PROVE  Kept'
    BY <2>22 DEF Counted, UndoReload
  <2>23. ASSUME NEW c \in Conns, CheckpointCopy(c)
        PROVE  Kept'
    <3>1. c \notin Writers
      BY <2>23 DEF CheckpointCopy, CopiesFit, Writers
    <3>2. Steady
      BY <2>23, <3>1, <2>0 DEF Steady, Committed, CheckpointCopy, Finish, cache
    <3> QED BY <3>2, <2>29, SteadyStep
  <2>24. ASSUME NEW c \in Conns, RevertCopy(c)
        PROVE  Kept'
    BY <2>24 DEF NothingTakenBack, RevertCopy, CopiesFit
  <2>25. ASSUME Crash
        PROVE  Kept'
    <3>1. /\ disk' = disk /\ edit' = edit /\ loaded' = FALSE
          /\ \A d \in Conns : pc'[d] # "rename"
          /\ \A d \in Conns : Committed(d)' => Committed(d)
      BY <2>25 DEF Crash, Committed, files
    <3> QED BY <3>1 DEF Kept, Writers
  <2>26. ASSUME UNCHANGED vars
        PROVE  Kept'
    <3>1. Steady
      BY <2>26, <2>0 DEF Steady, Committed, vars, files, cache
    <3> QED BY <3>1, <2>29, SteadyStep
  <2> QED
    BY <2>1, <2>2, <2>3, <2>4, <2>5, <2>6, <2>7, <2>8, <2>9, <2>10, <2>11, <2>12,
       <2>13, <2>14, <2>15, <2>16, <2>17, <2>18, <2>18a, <2>18b, <2>18c, <2>18d,
       <2>19, <2>20, <2>21, <2>22, <2>23,
       <2>24, <2>25, <2>26
       DEF Next, ServerStep, ClientStep, Done
<1> QED
  BY <1>1, <1>2, ControlTypes, MutexDiscipline, DataTypes, SessionsFit, SentencesGrow,
     CopiesBelong, SessionsWhole, PTL DEF Spec, DataInv, NothingTakenBack

\* Every word of a WRITE whose commit is over, answered or not, is in the file, once, and in the
\* order its client built them up in, as long as nobody takes changes back: no later commit,
\* checkpoint or crash loses, doubles or reorders it, wherever the sessions work.
THEOREM CommitsLast == NothingTakenBack /\ Traceable /\ Fresh /\ Spec => []CommittedAsQueued
<1>1. Kept => CommittedAsQueued
  BY DEF Kept, CommittedAsQueued, QueuedWords, QueuedBy
<1> QED BY <1>1, AnsweredKept, PTL

-----------------------------------------------------------------------------
(***************************************************************************)
(* The refinement of AtomicDocument.                                       *)
(***************************************************************************)

\* Every word that is sent has a body.
BodiesSent == \A c \in Writers : OwnBodies(c) \subseteq Bodies

\* The words of a list of operations.
OpBodies(ops) == [k \in DOMAIN ops |-> ops[k].word.body]

LEMMA OpBodiesNone == OpBodies(<<>>) = <<>>
<1>1. PICK o : o = OpBodies(<<>>)
  OBVIOUS
<1>2. DOMAIN o = {} /\ o = [k \in {} |-> o[k]]
  BY <1>1 DEF OpBodies
<1>3. o \in [1 .. 0 -> {}]
  BY <1>2
<1>4. o \in Seq({}) /\ Len(o) = 0
  BY <1>3
<1> QED BY <1>1, <1>4, EmptySeq

LEMMA OpBodiesType ==
  ASSUME NEW ops \in Seq(EditOp), \A k \in 1 .. Len(ops) : ops[k].word.body \in Bodies
  PROVE  /\ OpBodies(ops) \in Seq(Bodies) /\ Len(OpBodies(ops)) = Len(ops)
         /\ DOMAIN OpBodies(ops) = 1 .. Len(ops)
         /\ \A k \in 1 .. Len(ops) : OpBodies(ops)[k] = ops[k].word.body
<1>1. PICK n \in Nat : n = Len(ops) /\ DOMAIN ops = 1 .. n
  BY LenProperties
<1>2. PICK o : o = OpBodies(ops)
  OBVIOUS
<1>3. o = [k \in 1 .. n |-> ops[k].word.body]
  BY <1>1, <1>2 DEF OpBodies
<1>4. o \in [1 .. n -> Bodies] /\ \A k \in 1 .. n : o[k] = ops[k].word.body
  BY <1>1, <1>3
<1>5. o \in Seq(Bodies) /\ Len(o) = n /\ DOMAIN o = 1 .. n
  BY <1>4
<1> QED BY <1>1, <1>2, <1>4, <1>5

\* The words of one operation more.
LEMMA OpBodiesNext ==
  ASSUME NEW ops \in Seq(EditOp), \A k \in 1 .. Len(ops) : ops[k].word.body \in Bodies,
         NEW k \in Nat, k < Len(ops)
  PROVE  IsLonger(Bodies, OpBodies(FirstOps(ops, k)), ops[k + 1].word.body,
                  OpBodies(FirstOps(ops, k + 1)))
<1>1. PICK n \in Nat : n = Len(ops)
  BY LenProperties
<1>2. PICK m \in Nat : m = k + 1
  OBVIOUS
<1>3. PICK p, q, b : p = FirstOps(ops, k) /\ q = FirstOps(ops, m) /\ b = ops[m].word.body
  OBVIOUS
<1>4. k <= Len(ops) /\ m <= Len(ops) /\ m \in 1 .. n
  BY <1>1, <1>2
<1>5. p \in Seq(EditOp) /\ Len(p) = k /\ \A i \in 1 .. k : p[i] = ops[i]
  BY <1>3, <1>4, FirstOpsType
<1>6. q \in Seq(EditOp) /\ Len(q) = m /\ \A i \in 1 .. m : q[i] = ops[i]
  BY <1>3, <1>4, FirstOpsType
<1>7. (\A i \in 1 .. k : p[i].word.body \in Bodies) /\ (\A i \in 1 .. m : q[i].word.body \in Bodies)
  <2>1. \A i \in 1 .. m : i \in 1 .. Len(ops)
    BY <1>1, <1>2, <1>4
  <2>2. \A i \in 1 .. k : i \in 1 .. m
    BY <1>2
  <2> QED BY <1>5, <1>6, <2>1, <2>2
<1>8. PICK x, y : x = OpBodies(p) /\ y = OpBodies(q)
  OBVIOUS
<1>9. x \in Seq(Bodies) /\ Len(x) = k /\ \A i \in 1 .. k : x[i] = ops[i].word.body
  BY <1>5, <1>7, <1>8, OpBodiesType
<1>10. y \in Seq(Bodies) /\ Len(y) = m /\ \A i \in 1 .. m : y[i] = ops[i].word.body
  BY <1>6, <1>7, <1>8, OpBodiesType
<1>11. b \in Bodies
  BY <1>1, <1>3, <1>4
<1>12. PICK z : z = Append(x, b)
  OBVIOUS
<1>13. z \in Seq(Bodies) /\ Len(z) = m /\ \A i \in 1 .. m : z[i] = IF i <= k THEN x[i] ELSE b
  BY <1>2, <1>9, <1>11, <1>12, AppendProperties
<1>14. ASSUME NEW i \in 1 .. m PROVE z[i] = y[i]
  <2>1. y[i] = ops[i].word.body /\ z[i] = IF i <= k THEN x[i] ELSE b
    BY <1>10, <1>13
  <2>2. CASE i <= k
    <3>1. i \in 1 .. k
      BY <2>2
    <3> QED BY <1>9, <2>1, <2>2, <3>1
  <2>3. CASE ~(i <= k)
    <3>1. i = m
      BY <1>2, <2>3
    <3> QED BY <1>3, <2>1, <2>3, <3>1
  <2> QED BY <2>2, <2>3
<1>15. y = z
  BY <1>10, <1>13, <1>14, SeqEqual
<1>16. IsLonger(Bodies, x, b, z)
  BY <1>9, <1>11, <1>12, AppendIsLonger
<1> QED BY <1>2, <1>3, <1>8, <1>15, <1>16

\* new holds the words of old, in their order, and those of the operations.
Landed(old, ops, new) == Grown(Bodies, old, OpBodies(ops), new)

LEMMA LandedNext ==
  ASSUME NEW old \in Seq(Bodies), NEW ops \in Seq(EditOp), NEW k \in Nat, k < Len(ops),
         \A i \in 1 .. Len(ops) : ops[i].word.body \in Bodies,
         NEW text, NEW text2, Landed(old, FirstOps(ops, k), Words(text)),
         ops[k + 1].word \in Token, WordPut(text, ops[k + 1].word, text2)
  PROVE  Landed(old, FirstOps(ops, k + 1), Words(text2))
<1>1. PICK u, v, w : u = Words(text) /\ v = Words(text2) /\ w = ops[k + 1].word
  OBVIOUS
<1>2. w.body \in Bodies
  <2>1. k + 1 \in 1 .. Len(ops)
    BY LenProperties
  <2> QED BY <1>1, <2>1
<1>3. PutAmong(Bodies, u, w.body, v)
  BY <1>1, WordPutWords DEF Words
<1>4. PICK x, y \in Seq(Bodies) : u = x \o y /\ v = (x \o OneWord(w.body, Bodies)) \o y
  BY <1>3 DEF PutAmong
<1>5. PICK o : o = <<w.body>>
  OBVIOUS
<1>6. o \in Seq(Bodies) /\ Len(o) = 1 /\ o[1] = w.body /\ OneWord(w.body, Bodies) = o
  BY <1>2, <1>5 DEF OneWord
<1>7. PutBehind(Bodies, u, Len(x), w.body, v)
  BY <1>4, <1>5, <1>6 DEF PutBehind
<1>8. Len(u) = Len(x) + Len(y) /\ Len(x) \in Nat /\ Len(y) \in Nat
  BY <1>4, ConcatProperties, LenProperties
<1>9. Len(x) \in 0 .. Len(u)
  BY ONLY <1>8
<1>10. PICK p, q : p = OpBodies(FirstOps(ops, k)) /\ q = OpBodies(FirstOps(ops, k + 1))
  OBVIOUS
<1>11. IsLonger(Bodies, p, w.body, q)
  BY <1>1, <1>10, OpBodiesNext
<1>12. Grown(Bodies, old, p, u)
  BY <1>1, <1>10 DEF Landed
<1>13. Grown(Bodies, old, q, v)
  BY <1>2, <1>7, <1>9, <1>11, <1>12, GrownNext
<1> QED BY <1>1, <1>10, <1>13 DEF Landed

LEMMA LandedNone ==
  ASSUME NEW old \in Seq(Bodies), NEW ops \in Seq(EditOp)
  PROVE  Landed(old, FirstOps(ops, 0), old)
<1>1. FirstOps(ops, 0) \in Seq(EditOp) /\ Len(FirstOps(ops, 0)) = 0
  BY FirstOpsType, LenProperties
<1>2. FirstOps(ops, 0) = <<>>
  BY <1>1, EmptySeq
<1> QED BY <1>2, OpBodiesNone, GrownStart DEF Landed

\* What the abstract document calls inserted.
LEMMA GrownInserted ==
  ASSUME NEW old \in Seq(Bodies), NEW added, NEW new, Grown(Bodies, old, added, new)
  PROVE  Atomic!Inserted(old, added, new)
<1>1. added \in Seq(Bodies) /\ new \in Seq(Bodies)
  BY DEF Grown
<1>2. \A z : Count(new, z) = Count(old, z) + Count(added, z)
  BY DEF Grown
<1>3. ASSUME NEW s \in Seq(Bodies)
      PROVE  /\ DOMAIN Atomic!ToBag(s) = {z \in Bodies : Count(s, z) # 0}
             /\ \A z \in Bodies : Count(s, z) # 0 => Atomic!ToBag(s)[z] = Count(s, z)
  <2>1. Atomic!ToBag(s) = [z \in Atomic!Range(s) |-> Atomic!Cardinality({i \in DOMAIN s : s[i] = z})]
    BY DEF Atomic!ToBag
  <2>2. \A z : Atomic!Cardinality({i \in DOMAIN s : s[i] = z}) = Count(s, z)
    BY DEF Atomic!Cardinality, Cardinality, Count, Occurrences
  <2>3. \A i \in DOMAIN s : s[i] \in Bodies
    BY ElementOfSeq, LenProperties
  <2>4. Atomic!Range(s) = {z \in Bodies : Count(s, z) # 0}
    BY <2>3, CountType DEF Atomic!Range
  <2> QED BY <2>1, <2>2, <2>4
<1>4. Atomic!ToBag(new) = Atomic!(+)(Atomic!ToBag(old), Atomic!ToBag(added))
  <2>1. PICK a, b, c : /\ a = Atomic!ToBag(old) /\ b = Atomic!ToBag(added)
                       /\ c = Atomic!ToBag(new)
    OBVIOUS
  <2>2. \A z : Count(old, z) \in Nat /\ Count(added, z) \in Nat /\ Count(new, z) \in Nat
    BY <1>1, CountType
  <2>3. DOMAIN a = {z \in Bodies : Count(old, z) # 0}
    BY <1>3, <2>1
  <2>4. DOMAIN b = {z \in Bodies : Count(added, z) # 0}
    BY <1>1, <1>3, <2>1
  <2>5. DOMAIN c = {z \in Bodies : Count(new, z) # 0}
    BY <1>1, <1>3, <2>1
  <2>6. DOMAIN c = DOMAIN a \cup DOMAIN b
    BY <1>2, <2>2, <2>3, <2>4, <2>5
  <2>7. ASSUME NEW z \in DOMAIN c
        PROVE  c[z] = (IF z \in DOMAIN a THEN a[z] ELSE 0) + (IF z \in DOMAIN b THEN b[z] ELSE 0)
    <3>1. z \in Bodies /\ c[z] = Count(new, z)
      BY <1>1, <1>3, <2>1, <2>5
    <3>2. (IF z \in DOMAIN a THEN a[z] ELSE 0) = Count(old, z)
      BY <1>3, <2>1, <2>3, <3>1
    <3>3. (IF z \in DOMAIN b THEN b[z] ELSE 0) = Count(added, z)
      BY <1>1, <1>3, <2>1, <2>4, <3>1
    <3> QED BY <1>2, <3>1, <3>2, <3>3
  <2>8. c = [z \in DOMAIN c |-> c[z]]
    BY <2>1 DEF Atomic!ToBag
  <2>9. c = Atomic!(+)(a, b)
    BY <2>6, <2>7, <2>8 DEF Atomic!(+)
  <2> QED BY <2>1, <2>9
<1>5. \E place \in [DOMAIN old -> DOMAIN new] :
        /\ \A i, j \in DOMAIN old : i < j => place[i] < place[j]
        /\ \A i \in DOMAIN old : new[place[i]] = old[i]
  BY DEF Grown, Embeds
<1> QED BY <1>4, <1>5 DEF Atomic!Inserted

\* While a session commits, the cached document is the file with the words it has applied
\* put in, and then the swap file is the file with all of its words put in.
CommitInv ==
  \A c \in Conns :
    /\ pc[c] = "apply" =>
         /\ edit[c].doc = gen /\ index[c] < Len(mem)
         /\ Landed(Words(disk), FirstOps(edit[c].ops, edit[c].applied), Words(UndoText(mem)))
    /\ pc[c] = "rename" => Landed(Words(disk), edit[c].ops, Words(swap))

LEMMA QuietCommits ==
  ASSUME Counted, CommitInv, Quiet, disk' = disk
  PROVE  CommitInv'
<1> SUFFICES ASSUME NEW c \in Conns, pc'[c] \in Busy
             PROVE  /\ pc'[c] = "apply" =>
                         /\ edit'[c].doc = gen' /\ index'[c] < Len(mem')
                         /\ Landed(Words(disk'), FirstOps(edit'[c].ops, edit'[c].applied),
                                   Words(UndoText(mem')))
                    /\ pc'[c] = "rename" => Landed(Words(disk'), edit'[c].ops, Words(swap'))
  BY DEF CommitInv, Busy
<1>1. /\ pc'[c] = pc[c] /\ edit'[c] = edit[c] /\ index'[c] = index[c]
      /\ swap' = swap /\ gen' = gen
  BY DEF Quiet
<1>2. loaded
  BY <1>1 DEF Counted, Busy
<1>3. mem' = mem
  BY <1>2 DEF Quiet, get_file_from_cache
<1> QED BY <1>1, <1>3 DEF CommitInv

LEMMA CommitsGrow == NothingTakenBack /\ BodiesSent /\ Spec => []CommitInv
<1> SUFFICES ASSUME NothingTakenBack, NothingUndone, OnlyUndone, BodiesSent
             PROVE  Spec => []CommitInv
  BY DEF NothingTakenBack, NothingUndone, OnlyUndone
<1>1. Init => CommitInv
  BY DEF Init, CommitInv
<1>2. ControlTypeOK /\ MutexesMatch /\ DataTypeOK /\ SessionInv /\ AgreeInv /\ Counted
        /\ CopiesFit /\ CommitInv /\ [Next]_vars => CommitInv'
  <2> SUFFICES ASSUME ControlTypeOK, MutexesMatch, DataTypeOK, SessionInv, AgreeInv, Counted,
                      CopiesFit, CommitInv, [Next]_vars
               PROVE  CommitInv'
    OBVIOUS
  <2>0. pc \in [Conns -> PCs] /\ edit \in [Conns -> EditLocals]
    BY DEF ControlTypeOK, DataTypeOK
  <2>1. ASSUME NEW c \in Conns, NEW i \in Index, ValidateWrite(c, i)
        PROVE  CommitInv'
    <3>1. Quiet /\ disk' = disk
      BY <2>1, <2>0 DEF Quiet, Busy, ValidateWrite, Goto, Finish
    <3> QED BY <3>1, QuietCommits
  <2>2. ASSUME NEW c \in Conns, NEW batch \in Batches[c], NEW base \in 0 .. MaxWordIndex,
             WriteCommand(c, base, batch)
        PROVE  CommitInv'
    <3>1. Quiet /\ disk' = disk
      BY <2>2, <2>0 DEF Quiet, Busy, WriteCommand
    <3> QED BY <3>1, QuietCommits
  <2>3. ASSUME NEW c \in Conns, EndWrite(c)
        PROVE  CommitInv'
    <3>1. Quiet /\ disk' = disk
      BY <2>3, <2>0 DEF Quiet, Busy, EndWrite, Goto, unlock_sentence_ll, CacheLoaded
    <3> QED BY <3>1, QuietCommits
  <2>4. ASSUME NEW c \in Conns, Disconnect(c)
        PROVE  CommitInv'
    BY <2>4 DEF NothingUndone, Disconnect
  <2>5. ASSUME NEW c \in Conns, UndoRequest(c)
        PROVE  CommitInv'
    BY <2>5 DEF NothingUndone, UndoRequest
  <2>6. ASSUME NEW c \in Conns, CheckpointOpen(c)
        PROVE  CommitInv'
    <3>1. Quiet /\ disk' = disk
      BY <2>6, <2>0 DEF Quiet, Busy, CheckpointOpen, Goto
    <3> QED BY <3>1, QuietCommits
  <2>7. ASSUME NEW c \in Conns, RevertNoCheckpoint(c)
        PROVE  CommitInv'
    BY <2>7 DEF NothingTakenBack, RevertNoCheckpoint
  <2>8. ASSUME NEW c \in Conns, RevertOpen(c)
        PROVE  CommitInv'
    BY <2>8 DEF NothingTakenBack, RevertOpen
  <2>9. ASSUME NEW c \in Conns, LockRefused(c)
        PROVE  CommitInv'
    <3>1. Quiet /\ disk' = disk
      BY <2>9, <2>0 DEF Quiet, Busy, LockRefused, Finish, CacheLoaded
    <3> QED BY <3>1, QuietCommits
  <2>10. ASSUME NEW c \in Conns, LockNewSentence(c)
        PROVE  CommitInv'
    <3>1. Quiet /\ disk' = disk
      BY <2>10, <2>0 DEF Quiet, Busy, LockNewSentence, Goto, CacheLoaded
    <3> QED BY <3>1, QuietCommits
  <2>11. ASSUME NEW c \in Conns, LockSentence(c)
        PROVE  CommitInv'
    <3>1. Quiet /\ disk' = disk
      BY <2>11, <2>0 DEF Quiet, Busy, LockSentence, Goto, CacheLoaded
    <3> QED BY <3>1, QuietCommits
  <2>12. ASSUME NEW c \in Conns, RecordWordCount(c)
        PROVE  CommitInv'
    <3>1. Quiet /\ disk' = disk
      BY <2>12, <2>0 DEF Quiet, Busy, RecordWordCount, Goto, CacheLoaded
    <3> QED BY <3>1, QuietCommits
  <2>13. ASSUME NEW c \in Conns, OpenBackup(c)
        PROVE  CommitInv'
    <3>1. Quiet /\ disk' = disk
      BY <2>13, <2>0 DEF Quiet, Busy, OpenBackup, Goto, CacheLoaded
    <3> QED BY <3>1, QuietCommits
  <2>14. ASSUME NEW c \in Conns, WriteBackup(c)
        PROVE  CommitInv'
    <3>1. Quiet /\ disk' = disk
      BY <2>14, <2>0 DEF Quiet, Busy, WriteBackup, Goto, CacheLoaded
    <3> QED BY <3>1, QuietCommits
  <2>15. ASSUME NEW c \in Conns, BeginCommit(c)
        PROVE  CommitInv'
    <3>1. \A d \in Conns : pc[d] \notin {"apply", "rename", "undo_copy", "undo_reload", "revert_copy"}
      BY <2>15 DEF BeginCommit, CommitFree, MutexesMatch, InCommit, AgreeInv
    <3>2. loaded /\ mem \in Document /\ index[c] \in Nat
      BY <2>15 DEF BeginCommit, Counted, ControlTypeOK, DataTypeOK, Index
    <3>3. Words(UndoText(mem)) = Words(disk)
      <4>1. Agreed
        BY <3>1, <3>2 DEF AgreeInv, Quiescent
      <4>2. mem = parse_file_to_linked_list(disk) \/ disk = write_linked_list_to_file(mem)
        BY <4>1 DEF Agreed
      <4>3. disk \in Text /\ NoBody \notin Bodies
        BY BodiesAssumption DEF DataTypeOK
      <4> QED BY <3>2, <4>2, <4>3, ParseKeepsWords, WrittenIs DEF Words
    <3>4. mem' = WithTarget(mem, index[c])
      BY <2>15, <3>2 DEF BeginCommit, get_file_from_cache
    <3>5. UndoText(mem') = UndoText(mem)
      BY <3>2, <3>4, TargetType
    <3>6. disk' = disk /\ gen' = gen /\ index' = index
      BY <2>15 DEF BeginCommit, files
    <3>7. \A d \in Conns : d # c => pc'[d] = pc[d]
      BY <2>15, <2>0 DEF BeginCommit, Goto, Finish
    <3>8. pc'[c] \in {"apply", "done"}
      BY <2>15, <2>0 DEF BeginCommit, Goto, Finish
    <3>9. ASSUME pc'[c] = "apply"
          PROVE  /\ edit'[c].doc = gen' /\ index'[c] < Len(mem')
                 /\ Landed(Words(disk'), FirstOps(edit'[c].ops, edit'[c].applied), Words(UndoText(mem')))
      <4>1. PICK e, f, off : /\ e = edit[c] /\ f = edit'[c]
                             /\ off = WordCount(mem', index[c]) - e.original_word_count
        OBVIOUS
      <4>2. e \in EditLocals
        BY <4>1, <2>0
      <4>3. /\ index[c] < Len(mem')
            /\ edit' = [edit EXCEPT ![c] = [e EXCEPT !.doc = gen, !.word_offset = off]]
        <5>1. get_file_from_cache = mem
          BY <3>2 DEF get_file_from_cache
        <5>2. pc'[c] = "apply" /\ pc'[c] # "done"
          BY <3>9
        <5> QED BY <2>15, <2>0, <3>4, <4>1, <5>1, <5>2 DEF BeginCommit, Goto, Finish
      <4>4. f = [e EXCEPT !.doc = gen, !.word_offset = off]
        BY <2>0, <4>1, <4>3
      <4>5. f.doc = gen /\ f.applied = e.applied /\ f.ops = e.ops
        BY <4>2, <4>4 DEF EditLocals
      <4>6. f.applied = 0 /\ f.ops \in Seq(EditOp)
        BY <2>15, <4>1, <4>2, <4>5 DEF SessionInv, BeginCommit, EditLocals
      <4>7. Words(disk) \in Seq(Bodies)
        BY WordsType DEF Words, DataTypeOK
      <4>8. Landed(Words(disk), FirstOps(f.ops, 0), Words(disk))
        BY <4>6, <4>7, LandedNone
      <4> QED BY <3>3, <3>5, <3>6, <4>1, <4>3, <4>5, <4>6, <4>8
    <3> QED BY <3>1, <3>7, <3>8, <3>9 DEF CommitInv
  <2>16. ASSUME NEW c \in Conns, ApplyEdit(c)
        PROVE  CommitInv'
    <3>1. \A d \in Conns : pc[d] \in Busy => d = c
      BY <2>16 DEF ApplyEdit, MutexesMatch, InCommit, Busy
    <3>2. UNCHANGED <<disk, gen, index, pc>>
      BY <2>16 DEF ApplyEdit, files
    <3>3. PICK e, f, i : e = edit[c] /\ f = edit'[c] /\ i = index[c]
      OBVIOUS
    <3>4. e \in EditLocals /\ i \in Nat /\ mem \in Document /\ c \in Writers
      BY <2>16, <2>0, <3>3 DEF ControlTypeOK, DataTypeOK, Index, SessionInv, ApplyEdit, Writers
    <3>5. /\ e.doc = gen /\ i < Len(mem)
          /\ Landed(Words(disk), FirstOps(e.ops, e.applied), Words(UndoText(mem)))
      BY <2>16, <3>3 DEF CommitInv, ApplyEdit
    <3>6. mem' = WordInserted(mem, i, e)
      BY <2>16, <3>3, <3>5 DEF ApplyEdit
    <3>7. edit' = [edit EXCEPT ![c] = [e EXCEPT !.applied = e.applied + 1]]
      BY <2>16, <3>3 DEF ApplyEdit
    <3>8. f = [e EXCEPT !.applied = e.applied + 1]
      BY <2>0, <3>3, <3>7
    <3>9. f.doc = gen /\ f.ops = e.ops /\ f.applied = e.applied + 1
      BY <3>4, <3>5, <3>8 DEF EditLocals
    <3>10. e.applied \in Nat /\ e.applied < Len(e.ops) /\ e.ops \in Seq(EditOp) /\ Len(e.ops) \in Nat
      BY <2>16, <3>3, <3>4, LenProperties DEF ApplyEdit, EditLocals
    <3>11. PICK n : n = e.applied + 1
      OBVIOUS
    <3>12. n \in 1 .. Len(e.ops)
      BY ONLY <3>10, <3>11
    <3>13. e.ops[n] \in EditOp /\ e.ops[n].word \in Token
      <4>1. e.ops[n] \in EditOp
        BY <3>10, <3>12, ElementOfSeq
      <4> QED BY <4>1 DEF EditOp
    <3>14. \A k \in 1 .. Len(e.ops) : e.ops[k].word.body \in Bodies
      BY <3>3, <3>4 DEF SessionInv, OpsOwn, BodiesSent
    <3>15. Len(mem') = Len(mem) /\ WordPut(UndoText(mem), e.ops[n].word, UndoText(mem'))
      BY <3>4, <3>5, <3>6, <3>11, <3>13, WordInsertedIs, InsertsIntoType
    <3>16. Words(disk) \in Seq(Bodies)
      BY WordsType DEF Words, DataTypeOK
    <3>17. Landed(Words(disk), FirstOps(e.ops, e.applied + 1), Words(UndoText(mem')))
      BY <3>5, <3>10, <3>11, <3>13, <3>14, <3>15, <3>16, LandedNext
    <3>18. ASSUME NEW d \in Conns, pc'[d] = "apply"
           PROVE  /\ edit'[d].doc = gen' /\ index'[d] < Len(mem')
                  /\ Landed(Words(disk'), FirstOps(edit'[d].ops, edit'[d].applied),
                            Words(UndoText(mem')))
      <4>1. d = c
        BY <3>1, <3>2, <3>18 DEF Busy
      <4> QED BY <3>2, <3>3, <3>5, <3>9, <3>15, <3>17, <4>1
    <3>19. \A d \in Conns : pc'[d] # "rename"
      BY <2>16, <3>1, <3>2 DEF ApplyEdit, Busy
    <3> QED BY <3>18, <3>19 DEF CommitInv
  <2>17. ASSUME NEW c \in Conns, SyncToSwap(c)
        PROVE  CommitInv'
    <3>1. \A d \in Conns : pc[d] \in Busy => d = c
      BY <2>17 DEF SyncToSwap, MutexesMatch, InCommit, Busy
    <3>2. UNCHANGED <<disk, edit>>
      BY <2>17 DEF SyncToSwap
    <3>3. mem \in Document /\ edit[c] \in EditLocals
      BY <2>0 DEF DataTypeOK
    <3>4. swap' = write_linked_list_to_file(mem)
      BY <2>17 DEF SyncToSwap, get_file_from_cache, Counted
    <3>5. \A d \in Conns : pc'[d] = IF d = c THEN "rename" ELSE pc[d]
      BY <2>17, <2>0 DEF SyncToSwap, Goto
    <3>6. Words(swap') = Words(UndoText(mem))
      BY <3>3, <3>4, BodiesAssumption, WrittenIs DEF Words
    <3>7. FirstOps(edit[c].ops, edit[c].applied) = edit[c].ops
      <4>1. edit[c].ops \in Seq(EditOp) /\ edit[c].applied \in Nat /\ edit[c].applied = Len(edit[c].ops)
        BY <2>17, <3>3 DEF SyncToSwap, EditLocals
      <4> QED BY <4>1, FirstOpsType
    <3>8. Landed(Words(disk), edit[c].ops, Words(UndoText(mem)))
      BY <2>17, <3>7 DEF CommitInv, SyncToSwap
    <3>9. \A d \in Conns : pc'[d] # "apply" /\ (pc'[d] = "rename" => d = c)
      BY <3>1, <3>5 DEF Busy
    <3> QED BY <3>2, <3>6, <3>8, <3>9 DEF CommitInv
  <2>18. ASSUME NEW c \in Conns, Rename(c)
        PROVE  CommitInv'
    <3>1. \A d \in Conns : pc'[d] \notin {"apply", "rename"}
      BY <2>18, <2>0 DEF Rename, Goto, MutexesMatch, InCommit
    <3> QED BY <3>1 DEF CommitInv
  <2>18a. ASSUME NEW c \in Conns, AnswerWrite(c)
        PROVE  CommitInv'
    <3>1. Quiet /\ disk' = disk
      BY <2>18a, <2>0 DEF Quiet, Busy, AnswerWrite, Finish
    <3> QED BY <3>1, QuietCommits
  <2>18b. ASSUME NEW c \in Conns, OpenSwapFails(c)
        PROVE  CommitInv'
    BY <2>18b DEF NothingUndone, OpenSwapFails
  <2>18c. ASSUME NEW c \in Conns, RenameFails(c)
        PROVE  CommitInv'
    BY <2>18c DEF NothingUndone, RenameFails
  <2>18d. ASSUME NEW c \in Conns, UndoOpenFails(c)
        PROVE  CommitInv'
    BY <2>18d DEF NothingUndone, UndoOpenFails
  <2>19. ASSUME NEW c \in Conns, UndoNoBackup(c)
        PROVE  CommitInv'
    BY <2>19 DEF Counted, UndoNoBackup
  <2>20. ASSUME NEW c \in Conns, UndoOpen(c)
        PROVE  CommitInv'
    BY <2>20 DEF Counted, UndoOpen
  <2>21. ASSUME NEW c \in Conns, UndoCopy(c)
        PROVE  CommitInv'
    BY <2>21 DEF Counted, UndoCopy
  <2>22. ASSUME NEW c \in Conns, UndoReload(c)
        PROVE  CommitInv'
    BY <2>22 DEF Counted, UndoReload
  <2>23. ASSUME NEW c \in Conns, CheckpointCopy(c)
        PROVE  CommitInv'
    <3>1. Quiet /\ disk' = disk
      BY <2>23, <2>0 DEF Quiet, Busy, CheckpointCopy, Finish
    <3> QED BY <3>1, QuietCommits
  <2>24. ASSUME NEW c \in Conns, RevertCopy(c)
        PROVE  CommitInv'
    BY <2>24 DEF NothingTakenBack, CopiesFit, RevertCopy
  <2>25. ASSUME Crash
        PROVE  CommitInv'
    <3>1. \A d \in Conns : pc'[d] \notin {"apply", "rename"}
      BY <2>25 DEF Crash
    <3> QED BY <3>1 DEF CommitInv
  <2>26. ASSUME UNCHANGED vars
        PROVE  CommitInv'
    <3>1. Quiet /\ disk' = disk
      BY <2>26, <2>0 DEF Quiet, Busy, vars
    <3> QED BY <3>1, QuietCommits
  <2> QED
    BY <2>1, <2>2, <2>3, <2>4, <2>5, <2>6, <2>7, <2>8, <2>9, <2>10, <2>11, <2>12,
       <2>13, <2>14, <2>15, <2>16, <2>17, <2>18, <2>18a, <2>18b, <2>18c, <2>18d,
       <2>19, <2>20, <2>21, <2>22, <2>23,
       <2>24, <2>25, <2>26
       DEF Next, ServerStep, ClientStep, Done
<1> QED
  BY <1>1, <1>2, ControlTypes, MutexDiscipline, DataTypes, SessionsFit, CacheAgrees,
     SentencesGrow, CopiesBelong, PTL DEF Spec, DataInv

\* s is the beginning of t, as the module that defines prefixes says it.
Prefixed(s, t) == Atomic!IsPrefix(s, t)

LEMMA OpBodiesConcat ==
  ASSUME NEW a \in Seq(EditOp), NEW b \in Seq(EditOp)
  PROVE  Prefixed(OpBodies(a), OpBodies(a \o b))
<1>1. PICK m, n \in Nat : m = Len(a) /\ n = Len(b)
  BY LenProperties
<1>2. PICK c : c = a \o b
  OBVIOUS
<1>3. /\ DOMAIN a = 1 .. m /\ DOMAIN c = 1 .. m + n /\ \A i \in 1 .. m : c[i] = a[i]
  <2>1. /\ c \in Seq(EditOp) /\ Len(c) = Len(a) + Len(b)
        /\ \A i \in 1 .. Len(a) + Len(b) : c[i] = IF i <= Len(a) THEN a[i] ELSE b[i - Len(a)]
    BY <1>2, ConcatProperties
  <2>2. DOMAIN c = 1 .. Len(c) /\ DOMAIN a = 1 .. Len(a)
    BY <2>1, LenProperties
  <2> QED BY <1>1, <2>1, <2>2
<1>4. PICK s, t : s = OpBodies(a) /\ t = OpBodies(c)
  OBVIOUS
<1>5. PICK T : T = {a[i].word.body : i \in 1 .. m} \cup {c[i].word.body : i \in 1 .. m + n}
  OBVIOUS
<1>6. s = [k \in 1 .. m |-> a[k].word.body] /\ t = [k \in 1 .. m + n |-> c[k].word.body]
  BY <1>3, <1>4 DEF OpBodies
<1>7. s \in [1 .. m -> T] /\ t \in [1 .. m + n -> T]
  BY <1>5, <1>6
<1>8. s \in Seq(T) /\ Len(s) = m /\ t \in Seq(T) /\ Len(t) = m + n
  <2>1. PICK l \in Nat : l = m + n
    BY <1>1
  <2>2. s \in [1 .. m -> T] /\ t \in [1 .. l -> T] /\ m \in Nat
    BY <1>1, <1>7, <2>1
  <2>3. s \in Seq(T) /\ Len(s) = m
    BY ONLY <2>2
  <2>4. t \in Seq(T) /\ Len(t) = l
    BY ONLY <2>2, l \in Nat
  <2> QED BY <2>1, <2>3, <2>4
<1>9. \A i \in 1 .. m : t[i] = s[i] /\ t[i] \in T
  <2>1. \A i \in 1 .. m : i \in 1 .. m + n
    BY <1>1
  <2>2. \A i \in 1 .. m : s[i] = a[i].word.body /\ t[i] = c[i].word.body /\ c[i] = a[i]
    BY ONLY <1>3, <1>6, <2>1
  <2>3. \A i \in 1 .. m : t[i] \in T
    BY ONLY <1>7, <2>1
  <2> QED BY ONLY <2>2, <2>3
<1>10. PICK u : u = SubSeq(t, 1, Len(s))
  OBVIOUS
<1>11. u \in Seq(T) /\ Len(u) = m /\ \A i \in 1 .. m : u[i] = t[i]
  BY <1>1, <1>8, <1>9, <1>10, SubSeqProperties
<1>12. s = u
  BY <1>8, <1>9, <1>11, SeqEqual
<1>13. Len(s) <= Len(t)
  BY <1>1, <1>8
<1>14. Prefixed(s, t)
  BY <1>10, <1>12, <1>13 DEF Prefixed, Atomic!IsPrefix
<1> QED BY <1>2, <1>4, <1>14

\* What Status says, in terms of where a thread is and what it answered.
Stands(at, answer) == at = "answer" \/ (at = "done" /\ answer \in {"SUCCESS", "lost"})

LEMMA StatusIs ==
  ASSUME NEW c
  PROVE  /\ pc[c] \notin Over => Status(c) = "open"
         /\ Stands(pc[c], reply[c]) => Status(c) = "committed"
         /\ pc[c] = "done" /\ ~Stands(pc[c], reply[c]) => Status(c) = "aborted"
         /\ pc'[c] \notin Over => Status(c)' = "open"
         /\ Stands(pc'[c], reply'[c]) => Status(c)' = "committed"
         /\ pc'[c] = "done" /\ ~Stands(pc'[c], reply'[c]) => Status(c)' = "aborted"
BY DEF Status, Committed, Stands

\* A session that goes on, or ends without success, or had ended or committed.
Ends(at, answer, at2, answer2) ==
  \/ at = "done" /\ at2 = "done" /\ answer2 = answer
  \/ at = "answer" /\ Stands(at2, answer2)
  \/ at \notin Over /\ ~Stands(at2, answer2)

\* The three kinds of step.  Sessions may be given up, ...
LEMMA GivenUp ==
  ASSUME disk' = disk, \A c \in Writers : edit'[c].ops = edit[c].ops,
         \A c \in Writers : Ends(pc[c], reply[c], pc'[c], reply'[c])
  PROVE  Atomic!Next
<1>1. PICK lost \in SUBSET Writers :
        lost = {c \in Writers : Status(c) = "open" /\ Status(c)' = "aborted"}
  OBVIOUS
<1>2. ASSUME NEW c \in Writers PROVE Status(c)' = IF c \in lost THEN "aborted" ELSE Status(c)
  <2>1. CASE pc[c] \in Over
    BY <1>1, <2>1, StatusIs DEF Ends, Stands
  <2>2. CASE pc[c] \notin Over
    BY <1>1, <2>2, StatusIs DEF Ends, Stands
  <2> QED BY <2>1, <2>2
<1>3. [c \in Writers |-> Status(c)]'
        = [c \in Writers |-> IF c \in lost THEN "aborted" ELSE [d \in Writers |-> Status(d)][c]]
  BY <1>2
<1>4. [c \in Writers |-> [k \in DOMAIN edit[c].ops |-> edit[c].ops[k].word.body]]'
        = [c \in Writers |-> [k \in DOMAIN edit[c].ops |-> edit[c].ops[k].word.body]]
  OBVIOUS
<1>5. Words(disk)' = Words(disk)
  BY DEF Words
<1>6. \A c \in lost : [d \in Writers |-> Status(d)][c] = "open"
  BY <1>1
<1>7. Atomic!Abort(lost)
  BY <1>3, <1>4, <1>5, <1>6 DEF Atomic!Abort
<1> QED BY <1>7 DEF Atomic!Next

\* ... one may collect words, ...
LEMMA Gathered ==
  ASSUME NEW c \in Writers, disk' = disk, pc' = pc, reply' = reply, pc[c] \notin Over,
         \A d \in Conns : d # c => edit'[d] = edit[d],
         Prefixed(OpBodies(edit[c].ops), OpBodies(edit'[c].ops))
  PROVE  Atomic!Next
<1>1. Status(c) = "open" /\ [d \in Writers |-> Status(d)]' = [d \in Writers |-> Status(d)]
  <2>1. Status(c) = "open"
    BY StatusIs
  <2>2. \A d : Status(d)' = Status(d)
    BY DEF Status, Committed
  <2> QED BY <2>1, <2>2
<1>2. Words(disk)' = Words(disk)
  BY DEF Words
<1>3. PICK p, q : /\ p = [d \in Writers |-> [k \in DOMAIN edit[d].ops |-> edit[d].ops[k].word.body]]
                  /\ q = [d \in Writers |-> [k \in DOMAIN edit[d].ops |-> edit[d].ops[k].word.body]]'
  OBVIOUS
<1>4. p[c] = OpBodies(edit[c].ops) /\ q[c] = OpBodies(edit'[c].ops)
  BY <1>3 DEF OpBodies
<1>5. \A d \in Writers : d # c => q[d] = p[d]
  BY <1>3 DEF Writers
<1>6. q = [p EXCEPT ![c] = q[c]]
  BY <1>3, <1>5
<1>7. Atomic!IsPrefix(p[c], q[c])
  BY <1>4 DEF Prefixed
<1>8. Atomic!Collect(c)
  BY <1>1, <1>2, <1>3, <1>6, <1>7 DEF Atomic!Collect
<1> QED BY <1>8 DEF Atomic!Next

\* ... and one may commit.
LEMMA SessionCommits ==
  ASSUME NEW c \in Writers, pc[c] \notin Over, pc'[c] = "answer",
         edit' = edit, \A d \in Conns : d # c => pc'[d] = pc[d] /\ reply'[d] = reply[d],
         Atomic!Inserted(Words(disk), OpBodies(edit[c].ops), Words(disk'))
  PROVE  Atomic!Next
<1>1. Status(c) = "open" /\ Status(c)' = "committed"
  BY StatusIs DEF Stands
<1>2. \A d \in Writers : d # c => Status(d)' = Status(d)
  BY DEF Status, Committed, Writers
<1>3. PICK s, t : s = [d \in Writers |-> Status(d)] /\ t = [d \in Writers |-> Status(d)]'
  OBVIOUS
<1>4. t = [s EXCEPT ![c] = "committed"] /\ s[c] = "open"
  BY <1>1, <1>2, <1>3
<1>5. PICK p : p = [d \in Writers |-> [k \in DOMAIN edit[d].ops |-> edit[d].ops[k].word.body]]
  OBVIOUS
<1>6. /\ p = [d \in Writers |-> [k \in DOMAIN edit[d].ops |-> edit[d].ops[k].word.body]]'
      /\ p[c] = OpBodies(edit[c].ops)
  BY <1>5 DEF OpBodies
<1>7. Words(disk)' = Words(disk')
  BY DEF Words
<1>8. Atomic!Inserted(Words(disk), p[c], Words(disk)')
  BY <1>6, <1>7
<1>9. Atomic!Commit(c)
  BY <1>3, <1>4, <1>5, <1>6, <1>8 DEF Atomic!Commit
<1> QED BY <1>9 DEF Atomic!Next

\* When nobody undoes or reverts, write sessions implement the atomic document: whatever the
\* interleaving of their threads is and wherever the server dies, each takes effect as a
\* whole at its rename, or not at all, and never disturbs a word that is in the file.
THEOREM SessionsAreAtomic == NothingTakenBack /\ BodiesSent /\ Spec => AtomicDocumentSpec
<1> SUFFICES ASSUME NothingTakenBack, NothingUndone, BodiesSent PROVE Spec => AtomicDocumentSpec
  BY DEF NothingTakenBack
<1>1. Init => Atomic!Init
  <2> SUFFICES ASSUME Init PROVE Atomic!Init
    OBVIOUS
  <2>1. \A c \in Writers : pc[c] = "start" /\ edit[c].ops = <<>>
    BY DEF Init, NoEdits, Writers
  <2>2. \A c \in Writers : Status(c) = "open"
    BY <2>1, StatusIs
  <2>3. \A c \in Writers : [k \in DOMAIN edit[c].ops |-> edit[c].ops[k].word.body] = <<>>
    BY <2>1, OpBodiesNone DEF OpBodies
  <2>4. disk = InitialText
    BY DEF Init
  <2> QED BY <2>2, <2>3, <2>4 DEF Atomic!Init
<1>2. ControlTypeOK /\ DataTypeOK /\ SessionInv /\ Counted /\ CopiesFit /\ CommitInv
        /\ [Next]_vars => [Atomic!Next]_(Atomic!vars)
  <2> SUFFICES ASSUME ControlTypeOK, DataTypeOK, SessionInv, Counted, CopiesFit, CommitInv,
                      [Next]_vars
               PROVE  Atomic!Next
    OBVIOUS
  <2>0. pc \in [Conns -> PCs] /\ edit \in [Conns -> EditLocals] /\ reply \in [Conns -> Replies]
    BY DEF ControlTypeOK, DataTypeOK
  <2>1. ASSUME NEW c \in Conns, NEW i \in Index, ValidateWrite(c, i)
        PROVE  Atomic!Next
    <3>1. disk' = disk /\ edit' = edit
      BY <2>1 DEF ValidateWrite, files
    <3>2. \A d \in Conns : d # c => pc'[d] = pc[d] /\ reply'[d] = reply[d]
      BY <2>1, <2>0 DEF ValidateWrite, Goto, Finish
    <3>3. pc[c] \notin Over /\ ~Stands(pc'[c], reply'[c])
      BY <2>1, <2>0 DEF ValidateWrite, Goto, Finish, WriteRefusal, Stands
    <3>4. \A d \in Writers : Ends(pc[d], reply[d], pc'[d], reply'[d])
      BY <3>2, <3>3 DEF Ends, Stands, Writers
    <3> QED BY <3>1, <3>4, GivenUp
  <2>2. ASSUME NEW c \in Conns, NEW batch \in Batches[c], NEW base \in 0 .. MaxWordIndex,
             WriteCommand(c, base, batch)
        PROVE  Atomic!Next
    <3>1. PICK e, f, more : /\ e = edit[c] /\ f = Queued(e, base, batch)
                            /\ more = QueuedOps(base, batch)
      OBVIOUS
    <3>2. e \in EditLocals /\ batch \in Seq(Token) /\ base \in Nat /\ c \in Writers
      BY <2>2, <2>0, <3>1, TextAssumption DEF WriteCommand, SessionInv, Writers
    <3>3. edit' = [edit EXCEPT ![c] = f]
      BY <2>2, <3>1 DEF WriteCommand
    <3>4. edit'[c] = f /\ \A d \in Conns : d # c => edit'[d] = edit[d]
      BY <2>0, <3>3
    <3>5. disk' = disk /\ pc' = pc /\ reply' = reply /\ pc[c] = "edit"
      BY <2>2 DEF WriteCommand, files
    <3>6. more \in Seq(EditOp) /\ f.ops = e.ops \o more
      <4>1. f.ops = e.ops \o more
        BY <3>1, <3>2 DEF Queued, QueuedOps, EditLocals
      <4> QED BY <3>1, <3>2, <4>1, QueuedOpsType
    <3>7. e.ops \in Seq(EditOp)
      BY <3>2 DEF EditLocals
    <3>8. Prefixed(OpBodies(e.ops), OpBodies(f.ops))
      BY <3>6, <3>7, OpBodiesConcat
    <3> QED BY <3>1, <3>2, <3>4, <3>5, <3>8, Gathered
  <2>3. ASSUME NEW c \in Conns, EndWrite(c)
        PROVE  Atomic!Next
    <3>1. disk' = disk
      BY <2>3 DEF EndWrite, files
    <3>2. edit' = edit
      BY <2>3 DEF EndWrite
    <3>3. \A d \in Writers : Ends(pc[d], reply[d], pc'[d], reply'[d])
      BY <2>3, <2>0 DEF Ends, Stands, EndWrite, Goto, Writers
    <3> QED BY <3>1, <3>2, <3>3, GivenUp DEF Writers
  <2>4. ASSUME NEW c \in Conns, Disconnect(c)
        PROVE  Atomic!Next
    BY <2>4 DEF NothingUndone, Disconnect
  <2>5. ASSUME NEW c \in Conns, UndoRequest(c)
        PROVE  Atomic!Next
    BY <2>5 DEF NothingUndone, UndoRequest
  <2>6. ASSUME NEW c \in Conns, CheckpointOpen(c)
        PROVE  Atomic!Next
    <3>1. disk' = disk
      BY <2>6 DEF CheckpointOpen, files
    <3>2. edit' = edit
      BY <2>6 DEF CheckpointOpen
    <3>3. \A d \in Writers : Ends(pc[d], reply[d], pc'[d], reply'[d])
      BY <2>6, <2>0 DEF Ends, Stands, CheckpointOpen, Goto, Writers
    <3> QED BY <3>1, <3>2, <3>3, GivenUp DEF Writers
  <2>7. ASSUME NEW c \in Conns, RevertNoCheckpoint(c)
        PROVE  Atomic!Next
    BY <2>7 DEF NothingTakenBack, RevertNoCheckpoint
  <2>8. ASSUME NEW c \in Conns, RevertOpen(c)
        PROVE  Atomic!Next
    BY <2>8 DEF NothingTakenBack, RevertOpen
  <2>9. ASSUME NEW c \in Conns, LockRefused(c)
        PROVE  Atomic!Next
    <3>1. disk' = disk /\ edit' = edit
      BY <2>9 DEF LockRefused, files
    <3>2. \A d \in Conns : d # c => pc'[d] = pc[d] /\ reply'[d] = reply[d]
      BY <2>9, <2>0 DEF LockRefused, Finish
    <3>3. pc[c] \notin Over /\ ~Stands(pc'[c], reply'[c])
      BY <2>9, <2>0 DEF LockRefused, Finish, Stands
    <3>4. \A d \in Writers : Ends(pc[d], reply[d], pc'[d], reply'[d])
      BY <3>2, <3>3 DEF Ends, Stands, Writers
    <3> QED BY <3>1, <3>4, GivenUp
  <2>10. ASSUME NEW c \in Conns, LockNewSentence(c)
        PROVE  Atomic!Next
    <3>1. disk' = disk
      BY <2>10 DEF LockNewSentence, files
    <3>2. edit' = edit
      BY <2>10 DEF LockNewSentence
    <3>3. \A d \in Writers : Ends(pc[d], reply[d], pc'[d], reply'[d])
      BY <2>10, <2>0 DEF Ends, Stands, LockNewSentence, Goto, Writers
    <3> QED BY <3>1, <3>2, <3>3, GivenUp DEF Writers
  <2>11. ASSUME NEW c \in Conns, LockSentence(c)
        PROVE  Atomic!Next
    <3>1. disk' = disk
      BY <2>11 DEF LockSentence, files
    <3>2. edit' = edit
      BY <2>11 DEF LockSentence
    <3>3. \A d \in Writers : Ends(pc[d], reply[d], pc'[d], reply'[d])
      BY <2>11, <2>0 DEF Ends, Stands, LockSentence, Goto, Writers
    <3> QED BY <3>1, <3>2, <3>3, GivenUp DEF Writers
  <2>12. ASSUME NEW c \in Conns, RecordWordCount(c)
        PROVE  Atomic!Next
    <3>1. disk' = disk
      BY <2>12 DEF RecordWordCount, files
    <3>2. \A d \in Conns : edit'[d].ops = edit[d].ops
      <4>1. \A d \in Conns : d # c => edit'[d] = edit[d]
        BY <2>12, <2>0 DEF RecordWordCount
      <4>2. edit'[c].ops = edit[c].ops
        BY <2>12, <2>0 DEF RecordWordCount, EditLocals
      <4> QED BY <4>1, <4>2
    <3>3. \A d \in Writers : Ends(pc[d], reply[d], pc'[d], reply'[d])
      BY <2>12, <2>0 DEF Ends, Stands, RecordWordCount, Goto, Writers
    <3> QED BY <3>1, <3>2, <3>3, GivenUp DEF Writers
  <2>13. ASSUME NEW c \in Conns, OpenBackup(c)
        PROVE  Atomic!Next
    <3>1. disk' = disk
      BY <2>13 DEF OpenBackup, files
    <3>2. edit' = edit
      BY <2>13 DEF OpenBackup
    <3>3. \A d \in Writers : Ends(pc[d], reply[d], pc'[d], reply'[d])
      BY <2>13, <2>0 DEF Ends, Stands, OpenBackup, Goto, Writers
    <3> QED BY <3>1, <3>2, <3>3, GivenUp DEF Writers
  <2>14. ASSUME NEW c \in Conns, WriteBackup(c)
        PROVE  Atomic!Next
    <3>1. disk' = disk
      BY <2>14 DEF WriteBackup, files
    <3>2. edit' = edit
      BY <2>14 DEF WriteBackup
    <3>3. \A d \in Writers : Ends(pc[d], reply[d], pc'[d], reply'[d])
      BY <2>14, <2>0 DEF Ends, Stands, WriteBackup, Goto, Writers
    <3> QED BY <3>1, <3>2, <3>3, GivenUp DEF Writers
  <2>15. ASSUME NEW c \in Conns, BeginCommit(c)
        PROVE  Atomic!Next
    <3>1. disk' = disk
      BY <2>15 DEF BeginCommit, files
    <3>2. \A d \in Conns : d # c => pc'[d] = pc[d] /\ reply'[d] = reply[d] /\ edit'[d] = edit[d]
      BY <2>15, <2>0 DEF BeginCommit, Goto, Finish
    <3>3. pc[c] \notin Over /\ ~Stands(pc'[c], reply'[c])
      BY <2>15, <2>0 DEF BeginCommit, Goto, Finish, Stands
    <3>4. edit'[c].ops = edit[c].ops
      BY <2>15, <2>0 DEF BeginCommit, EditLocals
    <3>5. \A d \in Writers : Ends(pc[d], reply[d], pc'[d], reply'[d])
      BY <3>2, <3>3 DEF Ends, Stands, Writers
    <3> QED BY <3>1, <3>2, <3>4, <3>5, GivenUp DEF Writers
  <2>16. ASSUME NEW c \in Conns, ApplyEdit(c)
        PROVE  Atomic!Next
    <3>1. disk' = disk
      BY <2>16 DEF ApplyEdit, files
    <3>2. \A d \in Conns : edit'[d].ops = edit[d].ops
      <4>1. \A d \in Conns : d # c => edit'[d] = edit[d]
        BY <2>16, <2>0 DEF ApplyEdit
      <4>2. edit'[c].ops = edit[c].ops
        BY <2>16, <2>0 DEF ApplyEdit, EditLocals
      <4> QED BY <4>1, <4>2
    <3>3. \A d \in Writers : Ends(pc[d], reply[d], pc'[d], reply'[d])
      BY <2>16, <2>0 DEF Ends, Stands, ApplyEdit, Writers
    <3> QED BY <3>1, <3>2, <3>3, GivenUp DEF Writers
  <2>17. ASSUME NEW c \in Conns, SyncToSwap(c)
        PROVE  Atomic!Next
    <3>1. disk' = disk
      BY <2>17 DEF SyncToSwap, files
    <3>2. edit' = edit
      BY <2>17 DEF SyncToSwap
    <3>3. \A d \in Writers : Ends(pc[d], reply[d], pc'[d], reply'[d])
      BY <2>17, <2>0 DEF Ends, Stands, SyncToSwap, Goto, Writers
    <3> QED BY <3>1, <3>2, <3>3, GivenUp DEF Writers
  <2>18. ASSUME NEW c \in Conns, Rename(c)
        PROVE  Atomic!Next
    <3>1. c \in Writers /\ pc[c] = "rename"
      BY <2>18 DEF SessionInv, Rename, Writers
    <3>2. Landed(Words(disk), edit[c].ops, Words(swap)) /\ disk' = swap /\ edit' = edit
      BY <2>18, <3>1 DEF CommitInv, Rename, Writers
    <3>3. Words(disk) \in Seq(Bodies)
      BY WordsType DEF Words, DataTypeOK
    <3>4. Atomic!Inserted(Words(disk), OpBodies(edit[c].ops), Words(disk'))
      BY <3>2, <3>3, GrownInserted DEF Landed
    <3>5. pc'[c] = "answer"
      BY <2>18, <2>0 DEF Rename, Goto
    <3>6. \A d \in Conns : d # c => pc'[d] = pc[d] /\ reply'[d] = reply[d]
      BY <2>18, <2>0 DEF Rename, Goto
    <3> QED BY <3>1, <3>2, <3>4, <3>5, <3>6, SessionCommits
  <2>18a. ASSUME NEW c \in Conns, AnswerWrite(c)
        PROVE  Atomic!Next
    <3>1. disk' = disk /\ edit' = edit
      BY <2>18a DEF AnswerWrite, files
    <3>2. \A d \in Writers : Ends(pc[d], reply[d], pc'[d], reply'[d])
      BY <2>18a, <2>0 DEF Ends, Stands, AnswerWrite, Finish, Writers
    <3> QED BY <3>1, <3>2, GivenUp
  <2>18b. ASSUME NEW c \in Conns, OpenSwapFails(c)
        PROVE  Atomic!Next
    BY <2>18b DEF NothingUndone, OpenSwapFails
  <2>18c. ASSUME NEW c \in Conns, RenameFails(c)
        PROVE  Atomic!Next
    BY <2>18c DEF NothingUndone, RenameFails
  <2>18d. ASSUME NEW c \in Conns, UndoOpenFails(c)
        PROVE  Atomic!Next
    BY <2>18d DEF NothingUndone, UndoOpenFails
  <2>19. ASSUME NEW c \in Conns, UndoNoBackup(c)
        PROVE  Atomic!Next
    BY <2>19 DEF Counted, UndoNoBackup
  <2>20. ASSUME NEW c \in Conns, UndoOpen(c)
        PROVE  Atomic!Next
    BY <2>20 DEF Counted, UndoOpen
  <2>21. ASSUME NEW c \in Conns, UndoCopy(c)
        PROVE  Atomic!Next
    BY <2>21 DEF Counted, UndoCopy
  <2>22. ASSUME NEW c \in Conns, UndoReload(c)
        PROVE  Atomic!Next
    BY <2>22 DEF Counted, UndoReload
  <2>23. ASSUME NEW c \in Conns, CheckpointCopy(c)
        PROVE  Atomic!Next
    <3>1. c \notin Writers
      BY <2>23 DEF CheckpointCopy, CopiesFit, Writers
    <3>2. disk' = disk /\ edit' = edit
      BY <2>23 DEF CheckpointCopy
    <3>3. \A d \in Writers : Ends(pc[d], reply[d], pc'[d], reply'[d])
      BY <2>23, <2>0, <3>1 DEF Ends, Stands, CheckpointCopy, Finish, Writers
    <3> QED BY <3>2, <3>3, GivenUp
  <2>24. ASSUME NEW c \in Conns, RevertCopy(c)
        PROVE  Atomic!Next
    BY <2>24 DEF NothingTakenBack, CopiesFit, RevertCopy
  <2>25. ASSUME Crash
        PROVE  Atomic!Next
    <3>1. disk' = disk /\ edit' = edit
      BY <2>25 DEF Crash, files
    <3>2. \A d \in Writers : Ends(pc[d], reply[d], pc'[d], reply'[d])
      BY <2>25 DEF Ends, Stands, Crash, Writers
    <3> QED BY <3>1, <3>2, GivenUp
  <2>26. ASSUME UNCHANGED vars
        PROVE  Atomic!Next
    <3>1. UNCHANGED <<disk, edit, pc, reply>>
      BY <2>26 DEF vars
    <3>2. \A d \in Writers : Ends(pc[d], reply[d], pc'[d], reply'[d])
      BY <3>1, <2>0 DEF Ends, Stands
    <3> QED BY <3>1, <3>2, GivenUp
  <2> QED
    BY <2>1, <2>2, <2>3, <2>4, <2>5, <2>6, <2>7, <2>8, <2>9, <2>10, <2>11, <2>12,
       <2>13, <2>14, <2>15, <2>16, <2>17, <2>18, <2>18a, <2>18b, <2>18c, <2>18d,
       <2>19, <2>20, <2>21, <2>22, <2>23,
       <2>24, <2>25, <2>26
       DEF Next, ServerStep, ClientStep, Done
<1> QED
  BY <1>1, <1>2, ControlTypes, DataTypes, SessionsFit, SentencesGrow, CopiesBelong,
     CommitsGrow, PTL DEF Spec, DataInv, AtomicDocumentSpec, Atomic!Spec
=============================================================================
