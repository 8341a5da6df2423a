------------------------ MODULE AccountStoreProofs ------------------------
(***************************************************************************)
(* Theorems about AccountStore for any number of commands, crashes and     *)
(* failed writes: no acknowledged edit is lost, a recovery is complete, an *)
(* import excludes everybody else.  They follow from the invariant of      *)
(* AccountStoreInvariant; below, one lemma per conjunct says that every    *)
(* step preserves it, with one step of the proof per action.               *)
(***************************************************************************)
EXTENDS AccountStoreInvariant, TLAPS

USE DEF At, Goto, disk, control, data, ghosts

-----------------------------------------------------------------------------
(* Commands exclude each other *)

\* No two commands are at steps that need the same lock.
LEMMA Alone ==
  ASSUME IInv, NEW p \in Proc, NEW q \in Proc, p # q
  PROVE  /\ ~(HoldsAccounts(p) /\ HoldsAccounts(q))
         /\ ~(HoldsSettings(p) /\ HoldsSettings(q))
  BY DEF IInv, Locks

\* A command is of exactly one kind.
LEMMA Exclusive ==
  ASSUME NEW p \in Proc
  PROVE  /\ p \in Importers => p \notin Editors /\ p \notin SettingsWriters
         /\ p \in SettingsWriters => p \notin Editors
         /\ p \in Editors \/ p \in SettingsWriters \/ p \in Importers
  BY Commands DEF Proc

\* Changing the document of a record in memory keeps its type.
LEMMA DocumentUpdate ==
  ASSUME NEW S, NEW T, NEW U, NEW r \in [document: S, revision: T, hash: U], NEW x \in S
  PROVE  [r EXCEPT !.document = x] \in [document: S, revision: T, hash: U]
  OBVIOUS

-----------------------------------------------------------------------------
LEMMA TypeOKChangeAccounts ==
  ASSUME IInv, NEW p \in Proc, ChangeAccounts(p)
  PROVE  TypeOK'
<1>1. PICK why \in {"sync", "command"} :
        /\ purpose' = [purpose EXCEPT ![p] = why]
        /\ memory' = [memory EXCEPT ![p].document = @ \cup {<<p, why>>}]
  BY DEF ChangeAccounts
<1>2. memory[p].document \cup {<<p, why>>} \in SUBSET Edit
  BY <1>1 DEF IInv, TypeOK, Edit
<1>3. memory' \in [Proc -> [document: SUBSET Edit, revision: 0..MaxClock, hash: Document]]
  <2> DEFINE new == memory[p].document \cup {<<p, why>>}
             changed == [memory[p] EXCEPT !.document = new]
  <2>1. changed \in [document: SUBSET Edit, revision: 0..MaxClock, hash: Document]
    <3>1. new \in SUBSET Edit
      BY <1>2
    <3>2. memory[p] \in [document: SUBSET Edit, revision: 0..MaxClock, hash: Document]
      BY DEF IInv, TypeOK
    <3> HIDE DEF new
    <3> QED BY <3>1, <3>2, DocumentUpdate
  <2>2. memory' = [memory EXCEPT ![p] = changed]
    BY <1>1
  <2> HIDE DEF changed
  <2> QED BY <2>1, <2>2 DEF IInv, TypeOK
<1>4. pc' \in [Proc -> Labels] /\ after' \in [Proc -> Continuations]
  BY DEF ChangeAccounts, RecoverThen, IInv, TypeOK, Labels, Continuations
<1>5. purpose' \in [Proc -> {"sync", "command"}]
  BY <1>1 DEF IInv, TypeOK
<1> QED
  BY <1>3, <1>4, <1>5 DEF ChangeAccounts, IInv, TypeOK

LEMMA TypeOKImportCommit ==
  ASSUME IInv, NEW p \in Proc, ImportCommit(p)
  PROVE  TypeOK'
<1>1. p \in Importers
  BY Exclusive DEF IInv, ImportCommit, Roles, Final, RecoveryLabels
<1>2. journal' \in Journal
  BY <1>1 DEF ImportCommit, IInv, TypeOK, Journal, Importing, Open
<1>3. Command(p) \in Edit
  BY DEF Command, Edit
<1>4. acked' \in [{"accounts", "settings"} -> SUBSET Edit]
  <2>1. \A f \in {"accounts", "settings"} : Change(p, acked[f]) \in SUBSET Edit
    BY <1>3 DEF Change, Reflected, IInv, TypeOK
  <2>2. acked["accounts"] \in SUBSET Edit /\ acked["settings"] \in SUBSET Edit
    BY DEF IInv, TypeOK
  <2>3. PICK a \in SUBSET Edit, s \in SUBSET Edit :
          acked' = [accounts |-> a, settings |-> s]
    BY <2>1, <2>2 DEF ImportCommit
  <2> QED BY <2>3
<1>5. committed' \in SUBSET Importers
  BY <1>1 DEF ImportCommit, IInv, TypeOK
<1>6. pc' \in [Proc -> Labels]
  BY DEF ImportCommit, Labels, IInv, TypeOK
<1> QED
  BY <1>2, <1>4, <1>5, <1>6 DEF ImportCommit, IInv, TypeOK

\* Every step keeps the types.
LEMMA TypeOKStep ==
  ASSUME IInv, NEW p \in Proc, Step(p) \/ Crash(p)
  PROVE  TypeOK'
<1>11. CASE ChangeAccounts(p)
  BY <1>11, TypeOKChangeAccounts
<1>26. CASE ImportCommit(p)
  BY <1>26, TypeOKImportCommit
<1> USE Commands, AbsentIsNoContent, Bounds DEF IInv, TypeOK
<1>1. CASE StatJournal(p)
  BY <1>1 DEF StatJournal, Labels, Final, Roles, Proc, RecoveryLabels, Continuations
<1>2. CASE LockAccounts(p)
  BY <1>2 DEF LockAccounts, Acquire, Labels, Final
<1>3. CASE LockSettings(p)
  BY <1>3 DEF LockSettings, Acquire, Labels, Final
<1>4. CASE NothingToRecover(p)
  BY <1>4 DEF NothingToRecover, FinishRecovery, WithoutLocksOf, Labels, Final,
     Continuations, Roles, Proc
<1>5. CASE ReadJournal(p)
  BY <1>5 DEF ReadJournal, Labels, Final
<1>6. CASE RestoreFile(p)
  BY <1>6 DEF RestoreFile, Write, Tick, Labels, Final, Restoring, Journal, Open
<1>7. CASE RestoreFails(p)
  BY <1>7 DEF RestoreFails, Mishap, Labels, Final
<1>8. CASE FinishRestore(p)
  BY <1>8 DEF FinishRestore, WithoutLocksOf, Labels, Final
<1>9. CASE RemoveJournal(p)
  BY <1>9 DEF RemoveJournal, FinishRecovery, WithoutLocksOf, Labels, Final,
     Continuations, Roles, Proc, Journal
<1>10. CASE Load(p)
  BY <1>10 DEF Load, ReadAccounts, Revision, Labels, Final, Document, Reflected, Files
<1>12. CASE Save(p)
  BY <1>12 DEF Save, Acquire, Current, FirstWrite, Revision, Labels, Final
<1>13. CASE SaveConflict(p)
  BY <1>13 DEF SaveConflict, Labels, Final, Continuations
<1>14. CASE WriteBackup(p)
  BY <1>14 DEF WriteBackup, Write, Labels, Final, Files
<1>15. CASE WriteAccounts(p)
  BY <1>15 DEF WriteAccounts, Write, Tick, Labels, Final, Files, Document, Edit, Roles
<1>16. CASE FinishSave(p)
  BY <1>16 DEF FinishSave, ReadAccounts, WithoutLocksOf, Revision, Labels, Final, Edit,
     Files
<1>17. CASE LoadSettings(p)
  BY <1>17 DEF LoadSettings, Change, RecoverThen, Labels, Final, Edit, Files, Document,
     Reflected, Command, Continuations
<1>18. CASE SaveSettings(p)
  BY <1>18 DEF SaveSettings, Acquire, SettingsCurrent, Labels, Final
<1>19. CASE SettingsConflict(p)
  BY <1>19 DEF SettingsConflict, Labels, Final
<1>20. CASE WriteSettings(p)
  BY <1>20 DEF WriteSettings, Write, Labels, Final, Files, Document, Edit, Command
<1>21. CASE FinishSettings(p)
  BY <1>21 DEF FinishSettings, WithoutLocksOf, Labels, Final, Edit, Command
<1>22. CASE ImportRead(p)
  BY <1>22 DEF ImportRead, ReadAccounts, Change, Revision, Labels, Final, Journal,
     Document, Edit, Command, Reflected, Files
<1>23. CASE ImportStage(p)
  BY <1>23 DEF ImportStage, Labels, Final
<1>24. CASE ImportSave(p)
  BY <1>24 DEF ImportSave, FirstWrite, Labels, Final
<1>25. CASE ImportSettings(p)
  BY <1>25 DEF ImportSettings, Write, Change, Labels, Final, Document, Edit, Command,
     Reflected, Files
<1>27. CASE ImportCleanup(p)
  BY <1>27 DEF ImportCleanup, WithoutLocksOf, Labels, Final
<1>28. CASE InterruptImport(p)
  BY <1>28 DEF InterruptImport, RollBack, Labels, Final, Continuations
<1>29. CASE FailImport(p)
  BY <1>29 DEF FailImport, RollBack, Mishap, Labels, Final, Continuations
<1>30. CASE FailWrite(p)
  BY <1>30 DEF FailWrite, WithoutLocksOf, Mishap, Labels, Final
<1>31. CASE Crash(p)
  BY <1>31 DEF Crash, WithoutLocksOf, Mishap, Labels, Final
<1> QED
  BY <1>1, <1>2, <1>3, <1>4, <1>5, <1>6, <1>7, <1>8, <1>9, <1>10, <1>11, <1>12, <1>13,
     <1>14, <1>15, <1>16, <1>17, <1>18, <1>19, <1>20, <1>21, <1>22, <1>23, <1>24, <1>25,
     <1>26, <1>27, <1>28, <1>29, <1>30, <1>31 DEF Step

-----------------------------------------------------------------------------
\* Every step keeps a command to the steps of its kind.
LEMMA RolesStep ==
  ASSUME IInv, NEW p \in Proc, Step(p) \/ Crash(p)
  PROVE  Roles'
<1> USE Commands, AbsentIsNoContent, Bounds DEF IInv, TypeOK, Roles, Proc, Final,
   RecoveryLabels
<1>1. CASE StatJournal(p)
  BY <1>1 DEF StatJournal
<1>2. CASE LockAccounts(p)
  BY <1>2 DEF LockAccounts, Acquire
<1>3. CASE LockSettings(p)
  BY <1>3 DEF LockSettings, Acquire
<1>4. CASE NothingToRecover(p)
  BY <1>4 DEF NothingToRecover, FinishRecovery, WithoutLocksOf
<1>5. CASE ReadJournal(p)
  BY <1>5 DEF ReadJournal
<1>6. CASE RestoreFile(p)
  BY <1>6 DEF RestoreFile, Write, Tick
<1>7. CASE RestoreFails(p)
  BY <1>7 DEF RestoreFails, Mishap
<1>8. CASE FinishRestore(p)
  BY <1>8 DEF FinishRestore, WithoutLocksOf
<1>9. CASE RemoveJournal(p)
  BY <1>9 DEF RemoveJournal, FinishRecovery, WithoutLocksOf
<1>10. CASE Load(p)
  BY <1>10 DEF Load, ReadAccounts, Revision
<1>11. CASE ChangeAccounts(p)
  BY <1>11 DEF ChangeAccounts, RecoverThen
<1>12. CASE Save(p)
  BY <1>12 DEF Save, Acquire, Current, FirstWrite, Revision
<1>13. CASE SaveConflict(p)
  BY <1>13 DEF SaveConflict
<1>14. CASE WriteBackup(p)
  BY <1>14 DEF WriteBackup, Write
<1>15. CASE WriteAccounts(p)
  BY <1>15 DEF WriteAccounts, Write, Tick
<1>16. CASE FinishSave(p)
  BY <1>16 DEF FinishSave, ReadAccounts, WithoutLocksOf, Revision
<1>17. CASE LoadSettings(p)
  BY <1>17 DEF LoadSettings, Change, RecoverThen
<1>18. CASE SaveSettings(p)
  BY <1>18 DEF SaveSettings, Acquire, SettingsCurrent
<1>19. CASE SettingsConflict(p)
  BY <1>19 DEF SettingsConflict
<1>20. CASE WriteSettings(p)
  BY <1>20 DEF WriteSettings, Write
<1>21. CASE FinishSettings(p)
  BY <1>21 DEF FinishSettings, WithoutLocksOf
<1>22. CASE ImportRead(p)
  BY <1>22 DEF ImportRead, ReadAccounts, Change, Revision
<1>23. CASE ImportStage(p)
  BY <1>23 DEF ImportStage
<1>24. CASE ImportSave(p)
  BY <1>24 DEF ImportSave, FirstWrite
<1>25. CASE ImportSettings(p)
  BY <1>25 DEF ImportSettings, Write, Change
<1>26. CASE ImportCommit(p)
  BY <1>26 DEF ImportCommit, Change
<1>27. CASE ImportCleanup(p)
  BY <1>27 DEF ImportCleanup, WithoutLocksOf
<1>28. CASE InterruptImport(p)
  BY <1>28 DEF InterruptImport, RollBack
<1>29. CASE FailImport(p)
  BY <1>29 DEF FailImport, RollBack, Mishap
<1>30. CASE FailWrite(p)
  BY <1>30 DEF FailWrite, WithoutLocksOf, Mishap
<1>31. CASE Crash(p)
  BY <1>31 DEF Crash, WithoutLocksOf, Mishap
<1> QED
  BY <1>1, <1>2, <1>3, <1>4, <1>5, <1>6, <1>7, <1>8, <1>9, <1>10, <1>11, <1>12, <1>13,
     <1>14, <1>15, <1>16, <1>17, <1>18, <1>19, <1>20, <1>21, <1>22, <1>23, <1>24, <1>25,
     <1>26, <1>27, <1>28, <1>29, <1>30, <1>31 DEF Step

-----------------------------------------------------------------------------
\* Every step keeps the two locks exclusive: a lock is only taken when it is
\* free, and a command that works on a file keeps its lock.
LEMMA LocksStep ==
  ASSUME IInv, NEW p \in Proc, Step(p) \/ Crash(p)
  PROVE  Locks'
<1> USE Commands, AbsentIsNoContent, Bounds DEF IInv, TypeOK, Roles, Locks, Proc, Final,
   RecoveryLabels, HoldsAccounts, HoldsSettings, ImportLabels
<1>1. CASE StatJournal(p)
  BY <1>1 DEF StatJournal
<1>2. CASE LockAccounts(p)
  BY <1>2 DEF LockAccounts, Acquire
<1>3. CASE LockSettings(p)
  BY <1>3 DEF LockSettings, Acquire
<1>4. CASE NothingToRecover(p)
  BY <1>4 DEF NothingToRecover, FinishRecovery, WithoutLocksOf
<1>5. CASE ReadJournal(p)
  BY <1>5 DEF ReadJournal
<1>6. CASE RestoreFile(p)
  BY <1>6 DEF RestoreFile, Write, Tick
<1>7. CASE RestoreFails(p)
  BY <1>7 DEF RestoreFails, Mishap
<1>8. CASE FinishRestore(p)
  BY <1>8 DEF FinishRestore, WithoutLocksOf
<1>9. CASE RemoveJournal(p)
  BY <1>9 DEF RemoveJournal, FinishRecovery, WithoutLocksOf
<1>10. CASE Load(p)
  BY <1>10 DEF Load, ReadAccounts, Revision
<1>11. CASE ChangeAccounts(p)
  BY <1>11 DEF ChangeAccounts, RecoverThen
<1>12. CASE Save(p)
  BY <1>12 DEF Save, Acquire, Current, FirstWrite, Revision
<1>13. CASE SaveConflict(p)
  BY <1>13 DEF SaveConflict
<1>14. CASE WriteBackup(p)
  BY <1>14 DEF WriteBackup, Write
<1>15. CASE WriteAccounts(p)
  BY <1>15 DEF WriteAccounts, Write, Tick
<1>16. CASE FinishSave(p)
  BY <1>16 DEF FinishSave, ReadAccounts, WithoutLocksOf, Revision
<1>17. CASE LoadSettings(p)
  BY <1>17 DEF LoadSettings, Change, RecoverThen
<1>18. CASE SaveSettings(p)
  BY <1>18 DEF SaveSettings, Acquire, SettingsCurrent
<1>19. CASE SettingsConflict(p)
  BY <1>19 DEF SettingsConflict
<1>20. CASE WriteSettings(p)
  BY <1>20 DEF WriteSettings, Write
<1>21. CASE FinishSettings(p)
  BY <1>21 DEF FinishSettings, WithoutLocksOf
<1>22. CASE ImportRead(p)
  BY <1>22 DEF ImportRead, ReadAccounts, Change, Revision
<1>23. CASE ImportStage(p)
  BY <1>23 DEF ImportStage
<1>24. CASE ImportSave(p)
  BY <1>24 DEF ImportSave, FirstWrite
<1>25. CASE ImportSettings(p)
  BY <1>25 DEF ImportSettings, Write, Change
<1>26. CASE ImportCommit(p)
  BY <1>26 DEF ImportCommit, Change
<1>27. CASE ImportCleanup(p)
  BY <1>27 DEF ImportCleanup, WithoutLocksOf
<1>28. CASE InterruptImport(p)
  BY <1>28 DEF InterruptImport, RollBack
<1>29. CASE FailImport(p)
  BY <1>29 DEF FailImport, RollBack, Mishap
<1>30. CASE FailWrite(p)
  BY <1>30 DEF FailWrite, WithoutLocksOf, Mishap
<1>31. CASE Crash(p)
  BY <1>31 DEF Crash, WithoutLocksOf, Mishap
<1> QED
  BY <1>1, <1>2, <1>3, <1>4, <1>5, <1>6, <1>7, <1>8, <1>9, <1>10, <1>11, <1>12, <1>13,
     <1>14, <1>15, <1>16, <1>17, <1>18, <1>19, <1>20, <1>21, <1>22, <1>23, <1>24, <1>25,
     <1>26, <1>27, <1>28, <1>29, <1>30, <1>31 DEF Step

-----------------------------------------------------------------------------
\* A restored file stays restored until the journal is gone.
LEMMA RestoringStep ==
  ASSUME IInv, NEW p \in Proc, Step(p) \/ Crash(p)
  PROVE  Restoring'
<1> USE Commands, AbsentIsNoContent, Bounds DEF IInv, TypeOK, Roles, Locks, Restoring,
   Importing, Proc, Files, Journal, Final, RecoveryLabels, HoldsAccounts, HoldsSettings,
   ImportLabels, Open
<1>1. CASE StatJournal(p)
  BY <1>1 DEF StatJournal
<1>2. CASE LockAccounts(p)
  BY <1>2 DEF LockAccounts, Acquire
<1>3. CASE LockSettings(p)
  BY <1>3 DEF LockSettings, Acquire
<1>4. CASE NothingToRecover(p)
  BY <1>4 DEF NothingToRecover, FinishRecovery, WithoutLocksOf
<1>5. CASE ReadJournal(p)
  BY <1>5 DEF ReadJournal
<1>6. CASE RestoreFile(p)
  BY <1>6 DEF RestoreFile, Write, Tick
<1>7. CASE RestoreFails(p)
  BY <1>7 DEF RestoreFails, Mishap
<1>8. CASE FinishRestore(p)
  BY <1>8, SMTT(30) DEF FinishRestore, WithoutLocksOf
<1>9. CASE RemoveJournal(p)
  BY <1>9 DEF RemoveJournal, FinishRecovery, WithoutLocksOf
<1>10. CASE Load(p)
  BY <1>10 DEF Load, ReadAccounts, Revision
<1>11. CASE ChangeAccounts(p)
  BY <1>11 DEF ChangeAccounts, RecoverThen
<1>12. CASE Save(p)
  BY <1>12 DEF Save, Acquire, Current, FirstWrite, Revision
<1>13. CASE SaveConflict(p)
  BY <1>13 DEF SaveConflict
<1>14. CASE WriteBackup(p)
  BY <1>14 DEF WriteBackup, Write
<1>15. CASE WriteAccounts(p)
  BY <1>15 DEF WriteAccounts, Write, Tick
<1>16. CASE FinishSave(p)
  BY <1>16 DEF FinishSave, ReadAccounts, WithoutLocksOf, Revision
<1>17. CASE LoadSettings(p)
  BY <1>17 DEF LoadSettings, Change, RecoverThen
<1>18. CASE SaveSettings(p)
  BY <1>18 DEF SaveSettings, Acquire, SettingsCurrent
<1>19. CASE SettingsConflict(p)
  BY <1>19 DEF SettingsConflict
<1>20. CASE WriteSettings(p)
  BY <1>20 DEF WriteSettings, Write
<1>21. CASE FinishSettings(p)
  BY <1>21 DEF FinishSettings, WithoutLocksOf
<1>22. CASE ImportRead(p)
  BY <1>22 DEF ImportRead, ReadAccounts, Change, Revision
<1>23. CASE ImportStage(p)
  BY <1>23 DEF ImportStage
<1>24. CASE ImportSave(p)
  BY <1>24 DEF ImportSave, FirstWrite
<1>25. CASE ImportSettings(p)
  BY <1>25 DEF ImportSettings, Write, Change
<1>26. CASE ImportCommit(p)
  BY <1>26 DEF ImportCommit, Change
<1>27. CASE ImportCleanup(p)
  BY <1>27 DEF ImportCleanup, WithoutLocksOf
<1>28. CASE InterruptImport(p)
  BY <1>28 DEF InterruptImport, RollBack
<1>29. CASE FailImport(p)
  BY <1>29 DEF FailImport, RollBack, Mishap
<1>30. CASE FailWrite(p)
  BY <1>30 DEF FailWrite, WithoutLocksOf, Mishap
<1>31. CASE Crash(p)
  BY <1>31 DEF Crash, WithoutLocksOf, Mishap
<1> QED
  BY <1>1, <1>2, <1>3, <1>4, <1>5, <1>6, <1>7, <1>8, <1>9, <1>10, <1>11, <1>12, <1>13,
     <1>14, <1>15, <1>16, <1>17, <1>18, <1>19, <1>20, <1>21, <1>22, <1>23, <1>24, <1>25,
     <1>26, <1>27, <1>28, <1>29, <1>30, <1>31 DEF Step

-----------------------------------------------------------------------------
LEMMA LoadedFinishSave ==
  ASSUME IInv, NEW p \in Proc, FinishSave(p)
  PROVE  Loaded'
<1>1. p \in Editors
  BY Exclusive DEF IInv, FinishSave, Roles, Final, RecoveryLabels
<1>2. \A q \in Editors : q # p =>
        pc'[q] = pc[q] /\ after'[q] = after[q] /\ memory'[q] = memory[q] /\ purpose'[q] = purpose[q]
  BY DEF FinishSave, ReadAccounts, IInv, TypeOK, Proc
<1>3. pc'[p] \in {"loaded", "done"}
  BY DEF FinishSave, IInv, TypeOK
<1>4. /\ memory'[p].revision = Revision
      /\ memory'[p].hash = file["accounts"]
      /\ memory'[p].document = memory[p].document
  BY DEF FinishSave, ReadAccounts, IInv, TypeOK
<1>5. Revision = 0 <=> file["accounts"] = Absent
  BY Bounds DEF Revision, IInv, TypeOK
<1>6. Reflected(file["accounts"]) \subseteq memory[p].document
  BY <1>1, AbsentIsNoContent DEF IInv, Saving, FinishSave, Reflected, TypeOK
<1> QED
  BY <1>1, <1>2, <1>3, <1>4, <1>5, <1>6 DEF IInv, Loaded, AboutTo, RecoveryLabels

\* What an editor has in memory extends the file it was read from.
LEMMA LoadedStep ==
  ASSUME IInv, NEW p \in Proc, Step(p) \/ Crash(p)
  PROVE  Loaded'
<1>16. CASE FinishSave(p)
  BY <1>16, LoadedFinishSave
<1> USE Commands, AbsentIsNoContent, Bounds DEF IInv, TypeOK, Roles, Loaded, Saving,
   Proc, Edit, Document, Files, Final, RecoveryLabels, AboutTo, Reflected
<1>1. CASE StatJournal(p)
  BY <1>1 DEF StatJournal
<1>2. CASE LockAccounts(p)
  BY <1>2 DEF LockAccounts, Acquire
<1>3. CASE LockSettings(p)
  BY <1>3 DEF LockSettings, Acquire
<1>4. CASE NothingToRecover(p)
  BY <1>4 DEF NothingToRecover, FinishRecovery, WithoutLocksOf
<1>5. CASE ReadJournal(p)
  BY <1>5 DEF ReadJournal
<1>6. CASE RestoreFile(p)
  BY <1>6 DEF RestoreFile, Write, Tick
<1>7. CASE RestoreFails(p)
  BY <1>7 DEF RestoreFails, Mishap
<1>8. CASE FinishRestore(p)
  BY <1>8 DEF FinishRestore, WithoutLocksOf
<1>9. CASE RemoveJournal(p)
  BY <1>9 DEF RemoveJournal, FinishRecovery, WithoutLocksOf
<1>10. CASE Load(p)
  BY <1>10 DEF Load, ReadAccounts, Revision
<1>11. CASE ChangeAccounts(p)
  BY <1>11 DEF ChangeAccounts, RecoverThen
<1>12. CASE Save(p)
  BY <1>12 DEF Save, Acquire, Current, FirstWrite, Revision
<1>13. CASE SaveConflict(p)
  BY <1>13 DEF SaveConflict
<1>14. CASE WriteBackup(p)
  BY <1>14 DEF WriteBackup, Write
<1>15. CASE WriteAccounts(p)
  BY <1>15 DEF WriteAccounts, Write, Tick
<1>17. CASE LoadSettings(p)
  BY <1>17 DEF LoadSettings, Change, RecoverThen
<1>18. CASE SaveSettings(p)
  BY <1>18 DEF SaveSettings, Acquire, SettingsCurrent
<1>19. CASE SettingsConflict(p)
  BY <1>19 DEF SettingsConflict
<1>20. CASE WriteSettings(p)
  BY <1>20 DEF WriteSettings, Write
<1>21. CASE FinishSettings(p)
  BY <1>21 DEF FinishSettings, WithoutLocksOf
<1>22. CASE ImportRead(p)
  BY <1>22 DEF ImportRead, ReadAccounts, Change, Revision
<1>23. CASE ImportStage(p)
  BY <1>23 DEF ImportStage
<1>24. CASE ImportSave(p)
  BY <1>24 DEF ImportSave, FirstWrite
<1>25. CASE ImportSettings(p)
  BY <1>25 DEF ImportSettings, Write, Change
<1>26. CASE ImportCommit(p)
  BY <1>26 DEF ImportCommit, Change
<1>27. CASE ImportCleanup(p)
  BY <1>27 DEF ImportCleanup, WithoutLocksOf
<1>28. CASE InterruptImport(p)
  BY <1>28 DEF InterruptImport, RollBack
<1>29. CASE FailImport(p)
  BY <1>29 DEF FailImport, RollBack, Mishap
<1>30. CASE FailWrite(p)
  BY <1>30 DEF FailWrite, WithoutLocksOf, Mishap
<1>31. CASE Crash(p)
  BY <1>31 DEF Crash, WithoutLocksOf, Mishap
<1> QED
  BY <1>1, <1>2, <1>3, <1>4, <1>5, <1>6, <1>7, <1>8, <1>9, <1>10, <1>11, <1>12, <1>13,
     <1>14, <1>15, <1>16, <1>17, <1>18, <1>19, <1>20, <1>21, <1>22, <1>23, <1>24, <1>25,
     <1>26, <1>27, <1>28, <1>29, <1>30, <1>31 DEF Step

-----------------------------------------------------------------------------
\* An editor past the check of saveUnlocked extends the accounts it replaces.
LEMMA SavingStep ==
  ASSUME IInv, NEW p \in Proc, Step(p) \/ Crash(p)
  PROVE  Saving'
<1> USE Commands, AbsentIsNoContent, Bounds DEF IInv, TypeOK, Roles, Locks, Loaded,
   Saving, Proc, Edit, Document, Files, Final, RecoveryLabels, HoldsAccounts,
   HoldsSettings, ImportLabels, AboutTo, Reflected, Open, Journal
<1>1. CASE StatJournal(p)
  BY <1>1 DEF StatJournal
<1>2. CASE LockAccounts(p)
  BY <1>2 DEF LockAccounts, Acquire
<1>3. CASE LockSettings(p)
  BY <1>3 DEF LockSettings, Acquire
<1>4. CASE NothingToRecover(p)
  BY <1>4 DEF NothingToRecover, FinishRecovery, WithoutLocksOf
<1>5. CASE ReadJournal(p)
  BY <1>5 DEF ReadJournal
<1>6. CASE RestoreFile(p)
  BY <1>6 DEF RestoreFile, Write, Tick
<1>7. CASE RestoreFails(p)
  BY <1>7 DEF RestoreFails, Mishap
<1>8. CASE FinishRestore(p)
  BY <1>8 DEF FinishRestore, WithoutLocksOf
<1>9. CASE RemoveJournal(p)
  BY <1>9 DEF RemoveJournal, FinishRecovery, WithoutLocksOf
<1>10. CASE Load(p)
  BY <1>10 DEF Load, ReadAccounts, Revision
<1>11. CASE ChangeAccounts(p)
  BY <1>11 DEF ChangeAccounts, RecoverThen
<1>12. CASE Save(p)
  BY <1>12 DEF Save, Acquire, Current, FirstWrite, Revision
<1>13. CASE SaveConflict(p)
  BY <1>13 DEF SaveConflict
<1>14. CASE WriteBackup(p)
  BY <1>14 DEF WriteBackup, Write
<1>15. CASE WriteAccounts(p)
  BY <1>15 DEF WriteAccounts, Write, Tick
<1>16. CASE FinishSave(p)
  BY <1>16 DEF FinishSave, ReadAccounts, WithoutLocksOf, Revision
<1>17. CASE LoadSettings(p)
  BY <1>17 DEF LoadSettings, Change, RecoverThen
<1>18. CASE SaveSettings(p)
  BY <1>18 DEF SaveSettings, Acquire, SettingsCurrent
<1>19. CASE SettingsConflict(p)
  BY <1>19 DEF SettingsConflict
<1>20. CASE WriteSettings(p)
  BY <1>20 DEF WriteSettings, Write
<1>21. CASE FinishSettings(p)
  BY <1>21 DEF FinishSettings, WithoutLocksOf
<1>22. CASE ImportRead(p)
  BY <1>22 DEF ImportRead, ReadAccounts, Change, Revision
<1>23. CASE ImportStage(p)
  BY <1>23 DEF ImportStage
<1>24. CASE ImportSave(p)
  BY <1>24 DEF ImportSave, FirstWrite
<1>25. CASE ImportSettings(p)
  BY <1>25 DEF ImportSettings, Write, Change
<1>26. CASE ImportCommit(p)
  BY <1>26 DEF ImportCommit, Change
<1>27. CASE ImportCleanup(p)
  BY <1>27 DEF ImportCleanup, WithoutLocksOf
<1>28. CASE InterruptImport(p)
  BY <1>28 DEF InterruptImport, RollBack
<1>29. CASE FailImport(p)
  BY <1>29 DEF FailImport, RollBack, Mishap
<1>30. CASE FailWrite(p)
  BY <1>30 DEF FailWrite, WithoutLocksOf, Mishap
<1>31. CASE Crash(p)
  BY <1>31 DEF Crash, WithoutLocksOf, Mishap
<1> QED
  BY <1>1, <1>2, <1>3, <1>4, <1>5, <1>6, <1>7, <1>8, <1>9, <1>10, <1>11, <1>12, <1>13,
     <1>14, <1>15, <1>16, <1>17, <1>18, <1>19, <1>20, <1>21, <1>22, <1>23, <1>24, <1>25,
     <1>26, <1>27, <1>28, <1>29, <1>30, <1>31 DEF Step

-----------------------------------------------------------------------------
LEMMA SavingSettingsWriteSettings ==
  ASSUME IInv, NEW p \in Proc, WriteSettings(p)
  PROVE  SavingSettings'
<1>1. p \in SettingsWriters
  BY Exclusive DEF IInv, WriteSettings, Roles, Final, RecoveryLabels
<1>2. \A q \in SettingsWriters : q # p =>
        /\ pc'[q] = pc[q] /\ after'[q] = after[q] /\ memory'[q] = memory[q]
        /\ pc[q] \notin {"writeSettings", "settingsSaved"}
  BY Alone DEF WriteSettings, HoldsSettings, IInv, TypeOK, Proc
<1>3. pc'[p] = "settingsSaved" /\ file'["settings"] = memory[p].document
  BY DEF WriteSettings, Write, Files, IInv, TypeOK
<1>4. Command(p) \in memory[p].document /\ memory[p].document # Absent
  BY <1>1, AbsentIsNoContent DEF WriteSettings, IInv, SavingSettings, TypeOK, AboutTo
<1>5. Open(journal') => Command(p) \in overJournal'
  BY DEF WriteSettings
<1> QED
  BY <1>1, <1>2, <1>3, <1>4, <1>5 DEF IInv, SavingSettings, AboutTo, RecoveryLabels,
     WriteSettings

LEMMA SavingSettingsImportRead ==
  ASSUME IInv, NEW p \in Proc, ImportRead(p)
  PROVE  SavingSettings'
<1>1. p \in Importers
  BY Exclusive DEF IInv, ImportRead, Roles, Final, RecoveryLabels
<1>2. \A q \in SettingsWriters :
        /\ q # p
        /\ pc'[q] = pc[q] /\ after'[q] = after[q] /\ memory'[q] = memory[q]
        /\ pc[q] \notin {"writeSettings", "settingsSaved"}
  BY <1>1, Alone, Exclusive DEF ImportRead, ReadAccounts, HoldsSettings, ImportLabels, IInv,
     TypeOK, Proc
<1> QED
  BY <1>2 DEF IInv, SavingSettings, AboutTo, RecoveryLabels, ImportRead

\* The same for the settings writers.
LEMMA SavingSettingsStep ==
  ASSUME IInv, NEW p \in Proc, Step(p) \/ Crash(p)
  PROVE  SavingSettings'
<1>20. CASE WriteSettings(p)
  BY <1>20, SavingSettingsWriteSettings
<1>22. CASE ImportRead(p)
  BY <1>22, SavingSettingsImportRead
<1> USE Commands, AbsentIsNoContent, Bounds DEF IInv, TypeOK, Roles, Locks,
   SavingSettings, Proc, Edit, Document, Files, Final, RecoveryLabels, HoldsAccounts,
   HoldsSettings, ImportLabels, AboutTo, Reflected, Open, Journal, Command
<1>1. CASE StatJournal(p)
  BY <1>1, ZenonT(60) DEF StatJournal
<1>2. CASE LockAccounts(p)
  BY <1>2, ZenonT(60) DEF LockAccounts, Acquire
<1>3. CASE LockSettings(p)
  BY <1>3 DEF LockSettings, Acquire
<1>4. CASE NothingToRecover(p)
  BY <1>4 DEF NothingToRecover, FinishRecovery, WithoutLocksOf
<1>5. CASE ReadJournal(p)
  BY <1>5, ZenonT(60) DEF ReadJournal
<1>6. CASE RestoreFile(p)
  BY <1>6, ZenonT(60) DEF RestoreFile, Write, Tick
<1>7. CASE RestoreFails(p)
  BY <1>7 DEF RestoreFails, Mishap
<1>8. CASE FinishRestore(p)
  BY <1>8 DEF FinishRestore, WithoutLocksOf
<1>9. CASE RemoveJournal(p)
  BY <1>9 DEF RemoveJournal, FinishRecovery, WithoutLocksOf
<1>10. CASE Load(p)
  BY <1>10, ZenonT(60) DEF Load, ReadAccounts, Revision
<1>11. CASE ChangeAccounts(p)
  BY <1>11, ZenonT(60) DEF ChangeAccounts, RecoverThen
<1>12. CASE Save(p)
  BY <1>12, ZenonT(60) DEF Save, Acquire, Current, FirstWrite, Revision
<1>13. CASE SaveConflict(p)
  BY <1>13 DEF SaveConflict
<1>14. CASE WriteBackup(p)
  BY <1>14 DEF WriteBackup, Write
<1>15. CASE WriteAccounts(p)
  BY <1>15, ZenonT(60) DEF WriteAccounts, Write, Tick
<1>16. CASE FinishSave(p)
  BY <1>16, ZenonT(60) DEF FinishSave, ReadAccounts, WithoutLocksOf, Revision
<1>17. CASE LoadSettings(p)
  BY <1>17, ZenonT(60) DEF LoadSettings, Change, RecoverThen
<1>18. CASE SaveSettings(p)
  BY <1>18, ZenonT(60) DEF SaveSettings, Acquire, SettingsCurrent
<1>19. CASE SettingsConflict(p)
  BY <1>19 DEF SettingsConflict
<1>21. CASE FinishSettings(p)
  BY <1>21 DEF FinishSettings, WithoutLocksOf
<1>23. CASE ImportStage(p)
  BY <1>23 DEF ImportStage
<1>24. CASE ImportSave(p)
  BY <1>24 DEF ImportSave, FirstWrite
<1>25. CASE ImportSettings(p)
  BY <1>25, ZenonT(60) DEF ImportSettings, Write, Change
<1>26. CASE ImportCommit(p)
  BY <1>26 DEF ImportCommit, Change
<1>27. CASE ImportCleanup(p)
  BY <1>27 DEF ImportCleanup, WithoutLocksOf
<1>28. CASE InterruptImport(p)
  BY <1>28 DEF InterruptImport, RollBack
<1>29. CASE FailImport(p)
  BY <1>29 DEF FailImport, RollBack, Mishap
<1>30. CASE FailWrite(p)
  BY <1>30 DEF FailWrite, WithoutLocksOf, Mishap
<1>31. CASE Crash(p)
  BY <1>31 DEF Crash, WithoutLocksOf, Mishap
<1> QED
  BY <1>1, <1>2, <1>3, <1>4, <1>5, <1>6, <1>7, <1>8, <1>9, <1>10, <1>11, <1>12, <1>13,
     <1>14, <1>15, <1>16, <1>17, <1>18, <1>19, <1>20, <1>21, <1>22, <1>23, <1>24, <1>25,
     <1>26, <1>27, <1>28, <1>29, <1>30, <1>31 DEF Step

-----------------------------------------------------------------------------
LEMMA ImportingImportRead ==
  ASSUME IInv, NEW p \in Proc, ImportRead(p)
  PROVE  Importing'
<1>1. p \in Importers
  BY Exclusive DEF IInv, ImportRead, Roles, At, Final, RecoveryLabels
<1>2. \A q \in Importers : q # p =>
        /\ pc'[q] = pc[q]
        /\ pc[q] \notin ImportLabels \cup {"backup", "write"}
  BY <1>1, Alone DEF ImportRead, At, HoldsAccounts, ImportLabels, Goto, IInv, TypeOK, Proc
<1>3. pc'[p] = "importStage" /\ memory'[p].document = Change(p, file["accounts"])
  BY DEF ImportRead, ReadAccounts, Goto, IInv, TypeOK
<1>4. journal' # Absent /\ ~journal'.committed /\ journal'.snapshot = file
  <2>1. journal' \in Journal
    BY DEF ImportRead, IInv, TypeOK, Journal
  <2> QED BY <2>1, AbsentIsNoContent DEF ImportRead
<1> QED
  BY <1>2, <1>3, <1>4 DEF Importing, ImportLabels, ImportRead, Open, Change, Command

LEMMA ImportingImportSettings ==
  ASSUME IInv, NEW p \in Proc, ImportSettings(p)
  PROVE  Importing'
<1>1. p \in Importers
  BY Exclusive DEF IInv, ImportSettings, Roles, Final, RecoveryLabels
<1>2. \A q \in Importers : q # p =>
        /\ pc'[q] = pc[q]
        /\ pc[q] \notin ImportLabels \cup {"backup", "write"}
  BY <1>1, Alone DEF ImportSettings, HoldsAccounts, ImportLabels, IInv, TypeOK, Proc
<1>3. /\ pc'[p] = "importCommit"
      /\ file'["accounts"] = file["accounts"]
      /\ file'["settings"] = IF mode[p].settings THEN Change(p, file["settings"])
                                                ELSE file["settings"]
  BY DEF ImportSettings, Write, Files, IInv, TypeOK
<1>4. /\ Open(journal)
      /\ memory[p].document = Change(p, journal.snapshot["accounts"])
      /\ file["settings"] = journal.snapshot["settings"]
      /\ file["accounts"] = memory[p].document
  BY <1>1 DEF ImportSettings, IInv, Importing
<1> QED
  BY <1>2, <1>3, <1>4 DEF Importing, ImportLabels, ImportSettings, Open, Change, Command

LEMMA ImportingImportCommit ==
  ASSUME IInv, NEW p \in Proc, ImportCommit(p)
  PROVE  Importing'
<1>1. p \in Importers
  BY Exclusive DEF IInv, ImportCommit, Roles, At, Final, RecoveryLabels
<1>2. \A q \in Importers : q # p =>
        /\ pc'[q] = pc[q]
        /\ pc[q] \notin ImportLabels \cup {"backup", "write"}
  BY <1>1, Alone DEF ImportCommit, At, HoldsAccounts, ImportLabels, Goto, IInv, TypeOK, Proc
<1>3. pc'[p] = "importCleanup" /\ journal'.committed
  BY DEF ImportCommit, Goto, IInv, TypeOK
<1>4. journal' # Absent
  <2>1. Open(journal)
    BY <1>1 DEF ImportCommit, IInv, Importing, At
  <2>2. journal' \in Journal
    BY <2>1 DEF ImportCommit, IInv, TypeOK, Journal, Open
  <2> QED BY <2>2, AbsentIsNoContent
<1> QED
  BY <1>2, <1>3, <1>4 DEF Importing, ImportLabels

\* An import knows how far its files are from its journal.
LEMMA ImportingStep ==
  ASSUME IInv, NEW p \in Proc, Step(p) \/ Crash(p)
  PROVE  Importing'
<1>22. CASE ImportRead(p)
  BY <1>22, ImportingImportRead
<1>25. CASE ImportSettings(p)
  BY <1>25, ImportingImportSettings
<1>26. CASE ImportCommit(p)
  BY <1>26, ImportingImportCommit
<1> USE Commands, AbsentIsNoContent, Bounds DEF IInv, TypeOK, Roles, Locks, Importing,
   Proc, Edit, Document, Files, Final, RecoveryLabels, HoldsAccounts, HoldsSettings,
   ImportLabels, Reflected, Open, Journal, Command, Change
<1>1. CASE StatJournal(p)
  BY <1>1 DEF StatJournal
<1>2. CASE LockAccounts(p)
  BY <1>2 DEF LockAccounts, Acquire
<1>3. CASE LockSettings(p)
  BY <1>3 DEF LockSettings, Acquire
<1>4. CASE NothingToRecover(p)
  BY <1>4 DEF NothingToRecover, FinishRecovery, WithoutLocksOf
<1>5. CASE ReadJournal(p)
  BY <1>5 DEF ReadJournal
<1>6. CASE RestoreFile(p)
  BY <1>6 DEF RestoreFile, Write, Tick
<1>7. CASE RestoreFails(p)
  BY <1>7 DEF RestoreFails, Mishap
<1>8. CASE FinishRestore(p)
  BY <1>8 DEF FinishRestore, WithoutLocksOf
<1>9. CASE RemoveJournal(p)
  BY <1>9 DEF RemoveJournal, FinishRecovery, WithoutLocksOf
<1>10. CASE Load(p)
  BY <1>10 DEF Load, ReadAccounts, Revision
<1>11. CASE ChangeAccounts(p)
  BY <1>11 DEF ChangeAccounts, RecoverThen
<1>12. CASE Save(p)
  BY <1>12 DEF Save, Acquire, Current, FirstWrite, Revision
<1>13. CASE SaveConflict(p)
  BY <1>13 DEF SaveConflict
<1>14. CASE WriteBackup(p)
  BY <1>14 DEF WriteBackup, Write
<1>15. CASE WriteAccounts(p)
  BY <1>15 DEF WriteAccounts, Write, Tick
<1>16. CASE FinishSave(p)
  BY <1>16 DEF FinishSave, ReadAccounts, WithoutLocksOf, Revision
<1>17. CASE LoadSettings(p)
  BY <1>17 DEF LoadSettings, RecoverThen
<1>18. CASE SaveSettings(p)
  BY <1>18 DEF SaveSettings, Acquire, SettingsCurrent
<1>19. CASE SettingsConflict(p)
  BY <1>19 DEF SettingsConflict
<1>20. CASE WriteSettings(p)
  BY <1>20 DEF WriteSettings, Write
<1>21. CASE FinishSettings(p)
  BY <1>21 DEF FinishSettings, WithoutLocksOf
<1>23. CASE ImportStage(p)
  BY <1>23 DEF ImportStage
<1>24. CASE ImportSave(p)
  BY <1>24 DEF ImportSave, FirstWrite
<1>27. CASE ImportCleanup(p)
  BY <1>27 DEF ImportCleanup, WithoutLocksOf
<1>28. CASE InterruptImport(p)
  BY <1>28 DEF InterruptImport, RollBack
<1>29. CASE FailImport(p)
  BY <1>29 DEF FailImport, RollBack, Mishap
<1>30. CASE FailWrite(p)
  BY <1>30 DEF FailWrite, WithoutLocksOf, Mishap
<1>31. CASE Crash(p)
  BY <1>31 DEF Crash, WithoutLocksOf, Mishap
<1> QED
  BY <1>1, <1>2, <1>3, <1>4, <1>5, <1>6, <1>7, <1>8, <1>9, <1>10, <1>11, <1>12, <1>13,
     <1>14, <1>15, <1>16, <1>17, <1>18, <1>19, <1>20, <1>21, <1>22, <1>23, <1>24, <1>25,
     <1>26, <1>27, <1>28, <1>29, <1>30, <1>31 DEF Step

-----------------------------------------------------------------------------
\* Every step keeps what has been acknowledged.
LEMMA NoLostEditStep ==
  ASSUME IInv, NEW p \in Proc, Step(p) \/ Crash(p)
  PROVE  NoLostEdit'
<1> USE Commands, AbsentIsNoContent, Bounds DEF IInv, TypeOK, Roles, Locks, Restoring,
   Saving, SavingSettings, Importing, NoLostEdit, Proc, Edit, Document, Files, Final,
   RecoveryLabels, HoldsAccounts, HoldsSettings, ImportLabels, Reflected, Open, Journal,
   Command, Change, Durable, AboutTo
<1>1. CASE StatJournal(p)
  BY <1>1 DEF StatJournal
<1>2. CASE LockAccounts(p)
  BY <1>2 DEF LockAccounts, Acquire
<1>3. CASE LockSettings(p)
  BY <1>3 DEF LockSettings, Acquire
<1>4. CASE NothingToRecover(p)
  BY <1>4 DEF NothingToRecover, FinishRecovery, WithoutLocksOf
<1>5. CASE ReadJournal(p)
  BY <1>5 DEF ReadJournal
<1>6. CASE RestoreFile(p)
  BY <1>6 DEF RestoreFile, Write, Tick
<1>7. CASE RestoreFails(p)
  BY <1>7 DEF RestoreFails, Mishap
<1>8. CASE FinishRestore(p)
  BY <1>8 DEF FinishRestore, WithoutLocksOf
<1>9. CASE RemoveJournal(p)
  BY <1>9 DEF RemoveJournal, FinishRecovery, WithoutLocksOf
<1>10. CASE Load(p)
  BY <1>10 DEF Load, ReadAccounts, Revision
<1>11. CASE ChangeAccounts(p)
  BY <1>11 DEF ChangeAccounts, RecoverThen
<1>12. CASE Save(p)
  BY <1>12 DEF Save, Acquire, Current, FirstWrite, Revision
<1>13. CASE SaveConflict(p)
  BY <1>13 DEF SaveConflict
<1>14. CASE WriteBackup(p)
  BY <1>14 DEF WriteBackup, Write
<1>15. CASE WriteAccounts(p)
  BY <1>15, ZenonT(60) DEF WriteAccounts, Write, Tick
<1>16. CASE FinishSave(p)
  BY <1>16, SMTT(30) DEF FinishSave, ReadAccounts, WithoutLocksOf, Revision
<1>17. CASE LoadSettings(p)
  BY <1>17 DEF LoadSettings, RecoverThen
<1>18. CASE SaveSettings(p)
  BY <1>18 DEF SaveSettings, Acquire, SettingsCurrent
<1>19. CASE SettingsConflict(p)
  BY <1>19 DEF SettingsConflict
<1>20. CASE WriteSettings(p)
  BY <1>20, ZenonT(60) DEF WriteSettings, Write
<1>21. CASE FinishSettings(p)
  BY <1>21, SMTT(30) DEF FinishSettings, WithoutLocksOf
<1>22. CASE ImportRead(p)
  BY <1>22 DEF ImportRead, ReadAccounts, Revision
<1>23. CASE ImportStage(p)
  BY <1>23 DEF ImportStage
<1>24. CASE ImportSave(p)
  BY <1>24 DEF ImportSave, FirstWrite
<1>25. CASE ImportSettings(p)
  BY <1>25 DEF ImportSettings, Write
<1>26. CASE ImportCommit(p)
  BY <1>26, SMTT(30) DEF ImportCommit
<1>27. CASE ImportCleanup(p)
  BY <1>27 DEF ImportCleanup, WithoutLocksOf
<1>28. CASE InterruptImport(p)
  BY <1>28 DEF InterruptImport, RollBack
<1>29. CASE FailImport(p)
  BY <1>29 DEF FailImport, RollBack, Mishap
<1>30. CASE FailWrite(p)
  BY <1>30 DEF FailWrite, WithoutLocksOf, Mishap
<1>31. CASE Crash(p)
  BY <1>31 DEF Crash, WithoutLocksOf, Mishap
<1> QED
  BY <1>1, <1>2, <1>3, <1>4, <1>5, <1>6, <1>7, <1>8, <1>9, <1>10, <1>11, <1>12, <1>13,
     <1>14, <1>15, <1>16, <1>17, <1>18, <1>19, <1>20, <1>21, <1>22, <1>23, <1>24, <1>25,
     <1>26, <1>27, <1>28, <1>29, <1>30, <1>31 DEF Step

-----------------------------------------------------------------------------
(* What single saves and imports leave in the files *)

\* Accounts that pass the check of saveUnlocked are the ones the editor read.
LEMMA CurrentIsRead ==
  ASSUME IInv, NEW p \in Editors, Current(p)
  PROVE  memory[p].hash = file["accounts"]
<1>1. memory[p].revision = 0 <=> memory[p].hash = Absent
  BY DEF IInv, Loaded
<1> clock \in 1..MaxClock
  BY DEF IInv, TypeOK
<1> clock # 0
  BY Bounds
<1>2. CASE file["accounts"] = Absent
  BY <1>1, <1>2 DEF Current, Revision
<1>3. CASE file["accounts"] # Absent
  BY <1>1, <1>3 DEF Current, Revision
<1> QED
  BY <1>2, <1>3

\* A command changes in memory what it read by its own edit.
LEMMA ExactStep ==
  ASSUME IInv, SaveInv, NEW p \in Proc, Step(p) \/ Crash(p)
  PROVE  Exact'
<1> USE Commands, AbsentIsNoContent, Bounds DEF IInv, TypeOK, Roles, Locks, SaveInv, Loaded, Exact,
   Proc, Edit, Document, Files, Final, RecoveryLabels, HoldsAccounts, HoldsSettings, ImportLabels,
   Reflected, Command, Change, AboutTo
<1>1. CASE StatJournal(p)
  BY <1>1 DEF StatJournal
<1>2. CASE LockAccounts(p)
  BY <1>2 DEF LockAccounts, Acquire
<1>3. CASE LockSettings(p)
  BY <1>3 DEF LockSettings, Acquire
<1>4. CASE NothingToRecover(p)
  BY <1>4 DEF NothingToRecover, FinishRecovery, WithoutLocksOf
<1>5. CASE ReadJournal(p)
  BY <1>5 DEF ReadJournal
<1>6. CASE RestoreFile(p)
  BY <1>6 DEF RestoreFile, Write, Tick
<1>7. CASE RestoreFails(p)
  BY <1>7 DEF RestoreFails, Mishap
<1>8. CASE FinishRestore(p)
  BY <1>8 DEF FinishRestore, WithoutLocksOf
<1>9. CASE RemoveJournal(p)
  BY <1>9 DEF RemoveJournal, FinishRecovery, WithoutLocksOf
<1>10. CASE Load(p)
  BY <1>10 DEF Load, ReadAccounts, Revision
<1>11. CASE ChangeAccounts(p)
  BY <1>11 DEF ChangeAccounts, RecoverThen
<1>12. CASE Save(p)
  <2>1. p \in Editors
    BY <1>12, Exclusive DEF Save
  <2>2. memory[p].hash = file["accounts"]
    BY <1>12, <2>1, CurrentIsRead DEF Save
  <2>3. \A q \in Proc : q # p => pc'[q] = pc[q]
    BY <1>12 DEF Save
  <2>4. pc'[p] \in {"backup", "write"} /\ UNCHANGED <<file, memory, purpose, mode, after>>
    BY <1>12 DEF Save, FirstWrite
  <2>5. memory[p].document = Reflected(memory[p].hash) \cup {<<p, purpose[p]>>}
    BY <1>12, <2>1 DEF Save
  <2> QED
    BY <2>1, <2>2, <2>3, <2>4, <2>5
<1>13. CASE SaveConflict(p)
  BY <1>13 DEF SaveConflict
<1>14. CASE WriteBackup(p)
  BY <1>14 DEF WriteBackup, Write
<1>15. CASE WriteAccounts(p)
  BY <1>15 DEF WriteAccounts, Write, Tick
<1>16. CASE FinishSave(p)
  <2>1. p \in Editors
    BY <1>16, Exclusive DEF FinishSave
  <2>2. file["accounts"] = memory[p].document /\ memory[p].document # Absent
    BY <1>16, <2>1 DEF FinishSave, Saving
  <2>3. \A q \in Proc : q # p => pc'[q] = pc[q] /\ memory'[q] = memory[q] /\ purpose'[q] = purpose[q]
    BY <1>16 DEF FinishSave, ReadAccounts
  <2>4. pc'[p] \in {"loaded", "done"} /\ UNCHANGED <<file, mode, after>>
    BY <1>16 DEF FinishSave
  <2>5. memory'[p].document = memory[p].document /\ memory'[p].hash = file["accounts"]
    BY <1>16 DEF FinishSave, ReadAccounts
  <2>6. \A q \in Editors \ {p} :
          /\ pc'[q] = "loaded" => memory'[q].document = Reflected(memory'[q].hash)
          /\ AboutTo(q, "save")' =>
               memory'[q].document = Reflected(memory'[q].hash) \cup {<<q, purpose'[q]>>}
          /\ pc'[q] \in {"backup", "write"} =>
               memory'[q].document = Reflected(file'["accounts"]) \cup {<<q, purpose'[q]>>}
    BY <2>3, <2>4
  <2>7. memory'[p].document = Reflected(memory'[p].hash)
    BY <2>2, <2>5
  <2> QED
    BY <2>1, <2>3, <2>4, <2>6, <2>7
<1>17. CASE LoadSettings(p)
  BY <1>17 DEF LoadSettings, RecoverThen
<1>18. CASE SaveSettings(p)
  BY <1>18 DEF SaveSettings, Acquire, SettingsCurrent
<1>19. CASE SettingsConflict(p)
  BY <1>19 DEF SettingsConflict
<1>20. CASE WriteSettings(p)
  BY <1>20 DEF WriteSettings, Write
<1>21. CASE FinishSettings(p)
  BY <1>21 DEF FinishSettings, WithoutLocksOf
<1>22. CASE ImportRead(p)
  BY <1>22 DEF ImportRead, ReadAccounts, Revision
<1>23. CASE ImportStage(p)
  BY <1>23 DEF ImportStage
<1>24. CASE ImportSave(p)
  BY <1>24 DEF ImportSave, Current, FirstWrite, Revision
<1>25. CASE ImportSettings(p)
  BY <1>25 DEF ImportSettings, Write
<1>26. CASE ImportCommit(p)
  BY <1>26 DEF ImportCommit
<1>27. CASE ImportCleanup(p)
  BY <1>27 DEF ImportCleanup, WithoutLocksOf
<1>28. CASE InterruptImport(p)
  BY <1>28 DEF InterruptImport, RollBack
<1>29. CASE FailImport(p)
  BY <1>29 DEF FailImport, RollBack, Mishap
<1>30. CASE FailWrite(p)
  BY <1>30 DEF FailWrite, WithoutLocksOf, Mishap
<1>31. CASE Crash(p)
  BY <1>31 DEF Crash, WithoutLocksOf, Mishap
<1> QED
  BY <1>1, <1>2, <1>3, <1>4, <1>5, <1>6, <1>7, <1>8, <1>9, <1>10, <1>11, <1>12, <1>13,
     <1>14, <1>15, <1>16, <1>17, <1>18, <1>19, <1>20, <1>21, <1>22, <1>23, <1>24, <1>25,
     <1>26, <1>27, <1>28, <1>29, <1>30, <1>31 DEF Step

\* The accounts are kept before they are replaced.
LEMMA BackedUpStep ==
  ASSUME IInv, SaveInv, NEW p \in Proc, Step(p) \/ Crash(p)
  PROVE  BackedUp'
<1> USE Commands, AbsentIsNoContent, Bounds DEF IInv, TypeOK, Roles, Locks, SaveInv, BackedUp,
   Proc, Files, Final, RecoveryLabels, HoldsAccounts, HoldsSettings, ImportLabels
<1>1. CASE StatJournal(p)
  BY <1>1 DEF StatJournal
<1>2. CASE LockAccounts(p)
  BY <1>2 DEF LockAccounts, Acquire
<1>3. CASE LockSettings(p)
  BY <1>3 DEF LockSettings, Acquire
<1>4. CASE NothingToRecover(p)
  BY <1>4 DEF NothingToRecover, FinishRecovery, WithoutLocksOf
<1>5. CASE ReadJournal(p)
  BY <1>5 DEF ReadJournal
<1>6. CASE RestoreFile(p)
  BY <1>6 DEF RestoreFile, Write, Tick
<1>7. CASE RestoreFails(p)
  BY <1>7 DEF RestoreFails, Mishap
<1>8. CASE FinishRestore(p)
  BY <1>8 DEF FinishRestore, WithoutLocksOf
<1>9. CASE RemoveJournal(p)
  BY <1>9 DEF RemoveJournal, FinishRecovery, WithoutLocksOf
<1>10. CASE Load(p)
  BY <1>10 DEF Load, ReadAccounts, Revision
<1>11. CASE ChangeAccounts(p)
  BY <1>11 DEF ChangeAccounts, RecoverThen
<1>12. CASE Save(p)
  BY <1>12 DEF Save, Acquire, Current, FirstWrite, Revision
<1>13. CASE SaveConflict(p)
  BY <1>13 DEF SaveConflict
<1>14. CASE WriteBackup(p)
  BY <1>14 DEF WriteBackup, Write
<1>15. CASE WriteAccounts(p)
  BY <1>15 DEF WriteAccounts, Write, Tick
<1>16. CASE FinishSave(p)
  BY <1>16 DEF FinishSave, ReadAccounts, WithoutLocksOf, Revision
<1>17. CASE LoadSettings(p)
  BY <1>17 DEF LoadSettings, RecoverThen
<1>18. CASE SaveSettings(p)
  BY <1>18 DEF SaveSettings, Acquire, SettingsCurrent
<1>19. CASE SettingsConflict(p)
  BY <1>19 DEF SettingsConflict
<1>20. CASE WriteSettings(p)
  BY <1>20 DEF WriteSettings, Write
<1>21. CASE FinishSettings(p)
  BY <1>21 DEF FinishSettings, WithoutLocksOf
<1>22. CASE ImportRead(p)
  BY <1>22 DEF ImportRead, ReadAccounts, Revision
<1>23. CASE ImportStage(p)
  BY <1>23 DEF ImportStage
<1>24. CASE ImportSave(p)
  BY <1>24 DEF ImportSave, Current, FirstWrite, Revision
<1>25. CASE ImportSettings(p)
  BY <1>25 DEF ImportSettings, Write
<1>26. CASE ImportCommit(p)
  BY <1>26 DEF ImportCommit
<1>27. CASE ImportCleanup(p)
  BY <1>27 DEF ImportCleanup, WithoutLocksOf
<1>28. CASE InterruptImport(p)
  BY <1>28 DEF InterruptImport, RollBack
<1>29. CASE FailImport(p)
  BY <1>29 DEF FailImport, RollBack, Mishap
<1>30. CASE FailWrite(p)
  BY <1>30 DEF FailWrite, WithoutLocksOf, Mishap
<1>31. CASE Crash(p)
  BY <1>31 DEF Crash, WithoutLocksOf, Mishap
<1> QED
  BY <1>1, <1>2, <1>3, <1>4, <1>5, <1>6, <1>7, <1>8, <1>9, <1>10, <1>11, <1>12, <1>13,
     <1>14, <1>15, <1>16, <1>17, <1>18, <1>19, <1>20, <1>21, <1>22, <1>23, <1>24, <1>25,
     <1>26, <1>27, <1>28, <1>29, <1>30, <1>31 DEF Step

\* The files of an import follow from what its journal keeps.
LEMMA KeepingStep ==
  ASSUME IInv, SaveInv, NEW p \in Proc, Step(p) \/ Crash(p)
  PROVE  Keeping'
<1> USE Commands, AbsentIsNoContent, Bounds DEF IInv, TypeOK, Roles, Locks, Restoring, Importing,
   SaveInv, Keeping, Proc, Document, Files, Final, RecoveryLabels, HoldsAccounts, HoldsSettings, ImportLabels,
   Open, Journal
<1>1. CASE StatJournal(p)
  BY <1>1 DEF StatJournal
<1>2. CASE LockAccounts(p)
  BY <1>2 DEF LockAccounts, Acquire
<1>3. CASE LockSettings(p)
  BY <1>3 DEF LockSettings, Acquire
<1>4. CASE NothingToRecover(p)
  BY <1>4 DEF NothingToRecover, FinishRecovery, WithoutLocksOf
<1>5. CASE ReadJournal(p)
  BY <1>5 DEF ReadJournal
<1>6. CASE RestoreFile(p)
  BY <1>6 DEF RestoreFile, Write, Tick
<1>7. CASE RestoreFails(p)
  BY <1>7 DEF RestoreFails, Mishap
<1>8. CASE FinishRestore(p)
  BY <1>8 DEF FinishRestore, WithoutLocksOf
<1>9. CASE RemoveJournal(p)
  BY <1>9 DEF RemoveJournal, FinishRecovery, WithoutLocksOf
<1>10. CASE Load(p)
  BY <1>10 DEF Load, ReadAccounts, Revision
<1>11. CASE ChangeAccounts(p)
  BY <1>11 DEF ChangeAccounts, RecoverThen
<1>12. CASE Save(p)
  BY <1>12 DEF Save, Acquire, Current, FirstWrite, Revision
<1>13. CASE SaveConflict(p)
  BY <1>13 DEF SaveConflict
<1>14. CASE WriteBackup(p)
  BY <1>14 DEF WriteBackup, Write
<1>15. CASE WriteAccounts(p)
  BY <1>15 DEF WriteAccounts, Write, Tick
<1>16. CASE FinishSave(p)
  BY <1>16 DEF FinishSave, ReadAccounts, WithoutLocksOf, Revision
<1>17. CASE LoadSettings(p)
  BY <1>17 DEF LoadSettings, RecoverThen
<1>18. CASE SaveSettings(p)
  BY <1>18 DEF SaveSettings, Acquire, SettingsCurrent
<1>19. CASE SettingsConflict(p)
  BY <1>19 DEF SettingsConflict
<1>20. CASE WriteSettings(p)
  BY <1>20 DEF WriteSettings, Write
<1>21. CASE FinishSettings(p)
  BY <1>21 DEF FinishSettings, WithoutLocksOf
<1>22. CASE ImportRead(p)
  BY <1>22 DEF ImportRead, ReadAccounts, Revision
<1>23. CASE ImportStage(p)
  BY <1>23 DEF ImportStage
<1>24. CASE ImportSave(p)
  BY <1>24 DEF ImportSave, Current, FirstWrite, Revision
<1>25. CASE ImportSettings(p)
  BY <1>25 DEF ImportSettings, Write
<1>26. CASE ImportCommit(p)
  BY <1>26 DEF ImportCommit
<1>27. CASE ImportCleanup(p)
  BY <1>27 DEF ImportCleanup, WithoutLocksOf
<1>28. CASE InterruptImport(p)
  BY <1>28 DEF InterruptImport, RollBack
<1>29. CASE FailImport(p)
  BY <1>29 DEF FailImport, RollBack, Mishap
<1>30. CASE FailWrite(p)
  BY <1>30 DEF FailWrite, WithoutLocksOf, Mishap
<1>31. CASE Crash(p)
  BY <1>31 DEF Crash, WithoutLocksOf, Mishap
<1> QED
  BY <1>1, <1>2, <1>3, <1>4, <1>5, <1>6, <1>7, <1>8, <1>9, <1>10, <1>11, <1>12, <1>13,
     <1>14, <1>15, <1>16, <1>17, <1>18, <1>19, <1>20, <1>21, <1>22, <1>23, <1>24, <1>25,
     <1>26, <1>27, <1>28, <1>29, <1>30, <1>31 DEF Step

\* Only a committed import leaves anything.
LEMMA NoUncommittedTraceStep ==
  ASSUME IInv, SaveInv, NEW p \in Proc, Step(p) \/ Crash(p)
  PROVE  NoUncommittedTrace'
<1> USE Commands, AbsentIsNoContent, Bounds DEF IInv, TypeOK, Roles, Locks, Restoring, Importing,
   SaveInv, Exact, Keeping, NoUncommittedTrace, Proc, Edit, Document, Files, Final,
   RecoveryLabels, HoldsAccounts, HoldsSettings, ImportLabels, Reflected, Command, Change,
   Open, Journal, Durable, AboutTo
<1>1. CASE StatJournal(p)
  BY <1>1 DEF StatJournal
<1>2. CASE LockAccounts(p)
  BY <1>2 DEF LockAccounts, Acquire
<1>3. CASE LockSettings(p)
  BY <1>3 DEF LockSettings, Acquire
<1>4. CASE NothingToRecover(p)
  BY <1>4 DEF NothingToRecover, FinishRecovery, WithoutLocksOf
<1>5. CASE ReadJournal(p)
  BY <1>5 DEF ReadJournal
<1>6. CASE RestoreFile(p)
  BY <1>6 DEF RestoreFile, Write, Tick
<1>7. CASE RestoreFails(p)
  BY <1>7 DEF RestoreFails, Mishap
<1>8. CASE FinishRestore(p)
  BY <1>8 DEF FinishRestore, WithoutLocksOf
<1>9. CASE RemoveJournal(p)
  BY <1>9 DEF RemoveJournal, FinishRecovery, WithoutLocksOf
<1>10. CASE Load(p)
  BY <1>10 DEF Load, ReadAccounts, Revision
<1>11. CASE ChangeAccounts(p)
  BY <1>11 DEF ChangeAccounts, RecoverThen
<1>12. CASE Save(p)
  BY <1>12 DEF Save, Acquire, Current, FirstWrite, Revision
<1>13. CASE SaveConflict(p)
  BY <1>13 DEF SaveConflict
<1>14. CASE WriteBackup(p)
  BY <1>14 DEF WriteBackup, Write
<1>15. CASE WriteAccounts(p)
  BY <1>15 DEF WriteAccounts, Write, Tick
<1>16. CASE FinishSave(p)
  BY <1>16 DEF FinishSave, ReadAccounts, WithoutLocksOf, Revision
<1>17. CASE LoadSettings(p)
  BY <1>17 DEF LoadSettings, RecoverThen
<1>18. CASE SaveSettings(p)
  BY <1>18 DEF SaveSettings, Acquire, SettingsCurrent
<1>19. CASE SettingsConflict(p)
  BY <1>19 DEF SettingsConflict
<1>20. CASE WriteSettings(p)
  BY <1>20 DEF WriteSettings, Write
<1>21. CASE FinishSettings(p)
  BY <1>21 DEF FinishSettings, WithoutLocksOf
<1>22. CASE ImportRead(p)
  BY <1>22 DEF ImportRead, ReadAccounts, Revision
<1>23. CASE ImportStage(p)
  BY <1>23 DEF ImportStage
<1>24. CASE ImportSave(p)
  BY <1>24 DEF ImportSave, Current, FirstWrite, Revision
<1>25. CASE ImportSettings(p)
  BY <1>25 DEF ImportSettings, Write
<1>26. CASE ImportCommit(p)
  BY <1>26, SMTT(30) DEF ImportCommit
<1>27. CASE ImportCleanup(p)
  BY <1>27, SMTT(30) DEF ImportCleanup, WithoutLocksOf
<1>28. CASE InterruptImport(p)
  BY <1>28 DEF InterruptImport, RollBack
<1>29. CASE FailImport(p)
  BY <1>29 DEF FailImport, RollBack, Mishap
<1>30. CASE FailWrite(p)
  BY <1>30 DEF FailWrite, WithoutLocksOf, Mishap
<1>31. CASE Crash(p)
  BY <1>31 DEF Crash, WithoutLocksOf, Mishap
<1> QED
  BY <1>1, <1>2, <1>3, <1>4, <1>5, <1>6, <1>7, <1>8, <1>9, <1>10, <1>11, <1>12, <1>13,
     <1>14, <1>15, <1>16, <1>17, <1>18, <1>19, <1>20, <1>21, <1>22, <1>23, <1>24, <1>25,
     <1>26, <1>27, <1>28, <1>29, <1>30, <1>31 DEF Step

-----------------------------------------------------------------------------
(* The theorems *)

\* The initial states satisfy the invariant.
LEMMA InitInvariant == Init => IInv
<1> SUFFICES ASSUME Init PROVE IInv
  OBVIOUS
<1> USE Commands, AbsentIsNoContent, Bounds DEF Init, Begin
<1>1. TypeOK
  BY DEF TypeOK, Files, Document, Labels, Continuations, Final
<1>2. Roles
  BY DEF Roles, RecoveryLabels, Proc
<1>3. Locks /\ Restoring
  BY DEF Locks, Restoring, HoldsAccounts, HoldsSettings, ImportLabels
<1>4. Loaded /\ Saving
  BY DEF Loaded, Saving, Proc, AboutTo, RecoveryLabels, Reflected
<1>5. SavingSettings /\ Importing
  BY DEF SavingSettings, Importing, Proc, AboutTo, RecoveryLabels
<1>6. NoLostEdit
  BY DEF NoLostEdit
<1> QED
  BY <1>1, <1>2, <1>3, <1>4, <1>5, <1>6 DEF IInv

\* Doing nothing preserves the invariant.
LEMMA StutterInvariant == IInv /\ UNCHANGED vars => IInv'
<1> SUFFICES ASSUME IInv, UNCHANGED vars PROVE IInv'
  OBVIOUS
<1> USE DEF vars, IInv
<1>1. TypeOK' /\ Roles' /\ Restoring' /\ Loaded'
  BY DEF TypeOK, Roles, Restoring, Loaded, AboutTo, Open
<1>2. Locks'
  BY DEF Locks, HoldsAccounts, HoldsSettings
<1>3. Saving' /\ SavingSettings'
  BY DEF Saving, SavingSettings, AboutTo, Open, Command
<1>4. Importing'
  BY DEF Importing, Open, Change, Command
<1>5. NoLostEdit'
  BY DEF NoLostEdit, Durable, Open
<1> QED
  BY <1>1, <1>2, <1>3, <1>4, <1>5

\* Every step preserves the invariant.
LEMMA NextInvariant == IInv /\ [Next]_vars => IInv'
<1> SUFFICES ASSUME IInv, [Next]_vars PROVE IInv'
  OBVIOUS
<1>1. ASSUME NEW p \in Proc, Step(p) \/ Crash(p)
      PROVE  IInv'
  <2>1. TypeOK' /\ Roles' /\ Locks'
    BY <1>1, TypeOKStep, RolesStep, LocksStep
  <2>2. Restoring' /\ Loaded' /\ Saving'
    BY <1>1, RestoringStep, LoadedStep, SavingStep
  <2>3. SavingSettings' /\ Importing' /\ NoLostEdit'
    BY <1>1, SavingSettingsStep, ImportingStep, NoLostEditStep
  <2> QED
    BY <2>1, <2>2, <2>3 DEF IInv
<1>2. CASE UNCHANGED vars
  BY <1>2, StutterInvariant
<1> QED
  BY <1>1, <1>2 DEF Next, AllEnded

\* The invariant holds in every reachable state.
THEOREM Invariant == Spec => []IInv
  BY InitInvariant, NextInvariant, PTL DEF Spec

\* The same for what the single saves and imports leave in the files.
LEMMA InitSaves == Init => SaveInv
<1> SUFFICES ASSUME Init PROVE SaveInv
  OBVIOUS
<1> USE Commands, AbsentIsNoContent DEF Init, Begin
<1>1. Exact
  BY DEF Exact, Proc, AboutTo, RecoveryLabels
<1>2. BackedUp /\ Keeping
  BY DEF BackedUp, Keeping, Proc
<1>3. NoUncommittedTrace
  BY DEF NoUncommittedTrace, Durable, Open, Reflected, Files
<1> QED
  BY <1>1, <1>2, <1>3 DEF SaveInv

LEMMA NextSaves == IInv /\ SaveInv /\ [Next]_vars => SaveInv'
<1> SUFFICES ASSUME IInv, SaveInv, [Next]_vars PROVE SaveInv'
  OBVIOUS
<1>1. ASSUME NEW p \in Proc, Step(p) \/ Crash(p) PROVE SaveInv'
  BY <1>1, ExactStep, BackedUpStep, KeepingStep, NoUncommittedTraceStep DEF SaveInv
<1>2. CASE UNCHANGED vars
  <2> USE <1>2 DEF vars, SaveInv
  <2>1. Exact'
    BY DEF Exact, AboutTo, Change, Command
  <2>2. BackedUp' /\ Keeping'
    BY DEF BackedUp, Keeping
  <2>3. NoUncommittedTrace'
    BY DEF NoUncommittedTrace, Durable, Open, Command
  <2> QED
    BY <2>1, <2>2, <2>3
<1> QED
  BY <1>1, <1>2 DEF Next, AllEnded

LEMMA SaveInvariant == Spec => []SaveInv
  BY InitSaves, NextSaves, Invariant, PTL DEF Spec

\* Every variable has its type.
THEOREM TypeCorrect == Spec => []TypeOK
<1>1. IInv => TypeOK
  BY DEF IInv
<1> QED
  BY <1>1, Invariant, PTL

\* An edit reported as saved is not lost to a stale save, a crash, a failed
\* write or somebody's import, except in the window that overJournal records
\* (saveUnlocked, saveSettingsUnlocked, recoverRestore, importBackup).
THEOREM AcknowledgedEditsStay == Spec => []NoLostEdit
<1>1. IInv => NoLostEdit
  BY DEF IInv
<1> QED
  BY <1>1, Invariant, PTL

\* An import that has written its journal excludes all other commands from
\* both documents until it has ended.
THEOREM ImportsExclude == Spec => []ImportHoldsLocks
<1>1. IInv => ImportHoldsLocks
  BY DEF IInv, ImportHoldsLocks, Locks, HoldsAccounts, HoldsSettings, ImportLabels, Proc
<1> QED
  BY <1>1, Invariant, PTL

\* The journal of an unfinished import only goes when all files are restored.
THEOREM RecoveriesComplete == Spec => RecoveryIsComplete
<1>1. ASSUME IInv, [Next]_vars, Open(journal), journal' = Absent
      PROVE  file = journal.snapshot
  <2>1. PICK p \in Proc : Step(p) \/ Crash(p)
    BY <1>1 DEF Next, AllEnded, vars, Open
  <2>2. ~ImportCleanup(p)
    <3>1. SUFFICES ASSUME ImportCleanup(p) PROVE FALSE
      OBVIOUS
    <3>2. p \in Importers
      BY <1>1, <3>1, Exclusive DEF IInv, ImportCleanup, Roles, Final, RecoveryLabels
    <3> QED
      BY <1>1, <3>1, <3>2 DEF IInv, ImportCleanup, Importing, Open
  <2>3. CASE RemoveJournal(p)
    BY <1>1, <2>3 DEF IInv, Restoring, RemoveJournal
  <2>4. CASE ImportRead(p)
    <3>1. journal' \in Journal
      BY <1>1, <2>4 DEF ImportRead, IInv, TypeOK, Journal
    <3> QED
      BY <1>1, <3>1, AbsentIsNoContent
  <2>5. CASE ImportCommit(p)
    <3>1. journal' \in Journal
      BY <1>1, <2>5 DEF ImportCommit, IInv, TypeOK, Journal, Open
    <3> QED
      BY <1>1, <3>1, AbsentIsNoContent
  <2>6. CASE UNCHANGED journal
    BY <1>1, <2>6 DEF Open
  <2>7. QED
    <3>1. ~(Step(p) \/ Crash(p)) \/ ImportCleanup(p) \/ RemoveJournal(p) \/ ImportRead(p)
          \/ ImportCommit(p) \/ UNCHANGED journal
      BY DEF Step, Crash, StatJournal, LockAccounts, LockSettings, NothingToRecover,
             ReadJournal, RestoreFile, RestoreFails, FinishRestore, Load, ChangeAccounts,
             Save, SaveConflict, WriteBackup, WriteAccounts, FinishSave, LoadSettings,
             SaveSettings, SettingsConflict, WriteSettings, FinishSettings, ImportStage,
             ImportSave, ImportSettings, InterruptImport, FailImport, FailWrite, RollBack
    <3> QED
      BY <2>1, <2>2, <2>3, <2>4, <2>5, <2>6, <3>1
<1>2. IInv /\ [Next]_vars => (Open(journal) /\ journal' = Absent => file = journal.snapshot)
  BY <1>1
<1> QED
  BY <1>2, Invariant, PTL DEF Spec, RecoveryIsComplete

-----------------------------------------------------------------------------
(* Commands take effect one at a time: AccountStore implements AtomicStore *)

\* The three steps that change what a reader finds once an interrupted import
\* is undone.
Effects(p) == WriteAccounts(p) \/ WriteSettings(p) \/ ImportCommit(p)

\* All other steps show nothing: an import's work lies under its journal, and a
\* recovery only puts back what the journal kept.
LEMMA NothingShows ==
  ASSUME IInv, NEW p \in Proc, Step(p) \/ Crash(p), ~Effects(p)
  PROVE  Durable'["accounts"] = Durable["accounts"] /\ Durable'["settings"] = Durable["settings"]
<1> USE Commands, AbsentIsNoContent DEF IInv, TypeOK, Roles, Restoring, Importing, Proc, Files, Final,
   RecoveryLabels, Open, Journal, Durable
<1>1. CASE StatJournal(p)
  BY <1>1 DEF StatJournal
<1>2. CASE LockAccounts(p)
  BY <1>2 DEF LockAccounts, Acquire
<1>3. CASE LockSettings(p)
  BY <1>3 DEF LockSettings, Acquire
<1>4. CASE NothingToRecover(p)
  BY <1>4 DEF NothingToRecover, FinishRecovery, WithoutLocksOf
<1>5. CASE ReadJournal(p)
  BY <1>5 DEF ReadJournal
<1>6. CASE RestoreFile(p)
  BY <1>6 DEF RestoreFile, Write, Tick
<1>7. CASE RestoreFails(p)
  BY <1>7 DEF RestoreFails, Mishap
<1>8. CASE FinishRestore(p)
  BY <1>8 DEF FinishRestore, WithoutLocksOf
<1>9. CASE RemoveJournal(p)
  BY <1>9 DEF RemoveJournal, FinishRecovery, WithoutLocksOf
<1>10. CASE Load(p)
  BY <1>10 DEF Load, ReadAccounts, Revision
<1>11. CASE ChangeAccounts(p)
  BY <1>11 DEF ChangeAccounts, RecoverThen
<1>12. CASE Save(p)
  BY <1>12 DEF Save, Acquire, Current, FirstWrite, Revision
<1>13. CASE SaveConflict(p)
  BY <1>13 DEF SaveConflict
<1>14. CASE WriteBackup(p)
  BY <1>14 DEF WriteBackup, Write
<1>16. CASE FinishSave(p)
  BY <1>16 DEF FinishSave, ReadAccounts, WithoutLocksOf, Revision
<1>17. CASE LoadSettings(p)
  BY <1>17 DEF LoadSettings, RecoverThen
<1>18. CASE SaveSettings(p)
  BY <1>18 DEF SaveSettings, Acquire, SettingsCurrent
<1>19. CASE SettingsConflict(p)
  BY <1>19 DEF SettingsConflict
<1>21. CASE FinishSettings(p)
  BY <1>21 DEF FinishSettings, WithoutLocksOf
<1>22. CASE ImportRead(p)
  BY <1>22 DEF ImportRead, ReadAccounts, Revision
<1>23. CASE ImportStage(p)
  BY <1>23 DEF ImportStage
<1>24. CASE ImportSave(p)
  BY <1>24 DEF ImportSave, Current, FirstWrite, Revision
<1>25. CASE ImportSettings(p)
  BY <1>25 DEF ImportSettings, Write
<1>27. CASE ImportCleanup(p)
  BY <1>27 DEF ImportCleanup, WithoutLocksOf
<1>28. CASE InterruptImport(p)
  BY <1>28 DEF InterruptImport, RollBack
<1>29. CASE FailImport(p)
  BY <1>29 DEF FailImport, RollBack, Mishap
<1>30. CASE FailWrite(p)
  BY <1>30 DEF FailWrite, WithoutLocksOf, Mishap
<1>31. CASE Crash(p)
  BY <1>31 DEF Crash, WithoutLocksOf, Mishap
<1> QED
  BY <1>1, <1>2, <1>3, <1>4, <1>5, <1>6, <1>7, <1>8, <1>9, <1>10, <1>11, <1>12, <1>13,
     <1>14, <1>16, <1>17, <1>18, <1>19, <1>21, <1>22, <1>23, <1>24, <1>25, <1>27, <1>28,
     <1>29, <1>30, <1>31 DEF Step, Effects


\* A save writes what it found and its own edit.
LEMMA SavesShow ==
  ASSUME IInv, SaveInv, NEW p \in Proc, WriteAccounts(p) \/ WriteSettings(p)
  PROVE  [Atomic!Next]_Atomic!vars
<1> USE DEF Atomic!Next, Atomic!vars, Atomic!EditAccounts, Atomic!EditSettings, Atomic!Reflected
<1>1. CASE WriteAccounts(p) /\ ~Open(journal)
  <2>1. p \in Editors
    BY <1>1, Exclusive DEF WriteAccounts, IInv, Roles, Importing, Final, RecoveryLabels
  <2>2. memory[p].document = Reflected(file["accounts"]) \cup {<<p, purpose[p]>>}
    BY <1>1, <2>1 DEF WriteAccounts, SaveInv, Exact
  <2>3. <<p, purpose[p]>> \in Edit
    BY DEF IInv, TypeOK, Edit
  <2>4. Durable'["accounts"] = memory[p].document /\ Durable'["settings"] = Durable["settings"]
    BY <1>1 DEF WriteAccounts, Write, Durable, Open, IInv, TypeOK, Files
  <2> QED
    BY <1>1, <2>2, <2>3, <2>4 DEF Durable, Reflected
<1>2. CASE WriteSettings(p) /\ ~Open(journal)
  <2>1. p \in SettingsWriters
    BY <1>2, Exclusive DEF WriteSettings, IInv, Roles, Final, RecoveryLabels
  <2>2. memory[p].document = Change(p, file["settings"])
    BY <1>2, <2>1 DEF WriteSettings, SaveInv, Exact
  <2>3. Command(p) \in Edit
    BY DEF Edit, Command
  <2>4. Durable'["settings"] = memory[p].document /\ Durable'["accounts"] = Durable["accounts"]
    BY <1>2 DEF WriteSettings, Write, Durable, Open, IInv, TypeOK, Files
  <2> QED
    BY <1>2, <2>2, <2>3, <2>4 DEF Durable, Reflected, Change
<1>3. CASE Open(journal)
  BY <1>3 DEF WriteAccounts, WriteSettings, Durable, Open
<1> QED
  BY <1>1, <1>2, <1>3

\* An import changes both documents when its journal is marked committed.
LEMMA ImportsShow ==
  ASSUME IInv, NEW p \in Proc, ImportCommit(p)
  PROVE  [Atomic!Next]_Atomic!vars
<1>1. p \in Importers
  BY Exclusive DEF IInv, ImportCommit, Roles, Final, RecoveryLabels
<1>2. /\ Open(journal)
      /\ file["accounts"] = Change(p, journal.snapshot["accounts"])
      /\ file["settings"] = IF mode[p].settings THEN Change(p, journal.snapshot["settings"])
                                                ELSE journal.snapshot["settings"]
  BY <1>1 DEF IInv, Importing, ImportCommit
<1>3. Durable["accounts"] = journal.snapshot["accounts"] /\ Durable["settings"] = journal.snapshot["settings"]
  BY <1>2 DEF Durable
<1>4. Durable'["accounts"] = file["accounts"] /\ Durable'["settings"] = file["settings"]
  BY DEF ImportCommit, Durable, Open
<1>5. Command(p) \in Edit
  BY DEF Command, Edit
<1>6. Atomic!Import(Command(p))
  BY <1>2, <1>3, <1>4 DEF Atomic!Import, Atomic!Reflected, Change, Reflected
<1> QED
  BY <1>5, <1>6 DEF Atomic!Next

\* Whatever the commands, crashes and failures: what a reader finds, an
\* interrupted import undone, changes as if every save and every import took
\* effect at one instant on what was there (saveUnlocked, saveSettingsUnlocked,
\* importBackup, recoverRestoreUnlocked).
THEOREM ImplementsAtomicStore == Spec => TakesEffectAtOnce
<1>1. Init => Atomic!Init
  BY AbsentIsNoContent DEF Init, Begin, Atomic!Init, Durable, Open, Files
<1>2. IInv /\ SaveInv /\ [Next]_vars => [Atomic!Next]_Atomic!vars
  <2> SUFFICES ASSUME IInv, SaveInv, [Next]_vars PROVE [Atomic!Next]_Atomic!vars
    OBVIOUS
  <2>1. ASSUME NEW p \in Proc, Step(p) \/ Crash(p) PROVE [Atomic!Next]_Atomic!vars
    <3>1. CASE ~Effects(p)
      BY <2>1, <3>1, NothingShows DEF Atomic!vars
    <3> QED
      BY <2>1, <3>1, SavesShow, ImportsShow DEF Effects
  <2>2. CASE UNCHANGED vars
    BY <2>2 DEF vars, Durable, Open, Atomic!vars
  <2> QED
    BY <2>1, <2>2 DEF Next, AllEnded
<1> QED
  BY <1>1, <1>2, Invariant, SaveInvariant, PTL DEF Spec, TakesEffectAtOnce, Atomic!Spec

\* Nothing of an import that was not committed stays in any of the three files
\* once it has been recovered, nor in what other commands saved meanwhile
\* (importBackup, recoverRestoreUnlocked).
THEOREM UncommittedImportsVanish == Spec => []NoUncommittedTrace
<1>1. SaveInv => NoUncommittedTrace
  BY DEF SaveInv
<1> QED
  BY <1>1, SaveInvariant, PTL

\* Every save and every import keeps in the backup file the accounts it replaces.
THEOREM ReplacedAccountsAreKept == Spec => SaveKeepsPrevious
<1>1. SaveInv /\ [Next]_vars =>
        [\A p \in Proc : pc[p] = "write" /\ pc'[p] \in {"saved", "importSettings"}
           => file["accounts"] \in {Absent, file["backup"]}]_vars
  BY DEF SaveInv, BackedUp
<1> QED
  BY <1>1, SaveInvariant, PTL DEF Spec, SaveKeepsPrevious
=============================================================================
