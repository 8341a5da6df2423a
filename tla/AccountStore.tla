---------------------------- MODULE AccountStore ----------------------------
(***************************************************************************)
(* The files under the agy-swap configuration directory and the commands   *)
(* that share them: accounts.json, its .bak, config.json, the restore      *)
(* journal, and the advisory locks on the first and the third              *)
(* (src/internal/app/store.go, settings.go and backup_service.go).         *)
(*                                                                         *)
(* Every process is one command: an editor loads the accounts, changes     *)
(* them in memory and saves them; a settings writer does so with the       *)
(* settings; an importer restores a backup into both.  A command may die   *)
(* at any step, and a write may fail.                                      *)
(*                                                                         *)
(* A document is the set of edits it reflects: two contents have the same  *)
(* hash when they reflect the same edits.  A step is one change to what    *)
(* the commands share; what is only read under a lock is part of the step  *)
(* that takes the lock.                                                    *)
(***************************************************************************)
EXTENDS Naturals, FiniteSets

CONSTANTS
  Editors,          \* commands that change accounts.json
  SettingsWriters,  \* commands that change config.json
  Importers,        \* commands that import a backup
  Absent,           \* no such file
  NoOne,            \* the holder of a free lock
  MaxClock,         \* bound: the last tick of the file system's clock
  MaxMishaps        \* bound: how many commands die and writes fail

Proc == Editors \cup SettingsWriters \cup Importers
Edit == Proc \X {"sync", "command"}
Document == {Absent} \cup SUBSET Edit
Files == {"accounts", "backup", "settings"}
Journal == [committed: BOOLEAN, snapshot: [Files -> Document]]

ASSUME Commands ==
  /\ Editors \cap SettingsWriters = {}
  /\ Editors \cap Importers = {}
  /\ SettingsWriters \cap Importers = {}
  /\ NoOne \notin Proc

ASSUME AbsentIsNoContent ==
  /\ \A edits \in SUBSET Edit : edits # Absent
  /\ Absent \notin Journal

ASSUME Bounds == MaxClock \in Nat \ {0} /\ MaxMishaps \in Nat

VARIABLES
  file,             \* the content of each file
  clock,            \* the newest modification time of accounts.json
  journal,          \* restore-journal.json
  lock,             \* who holds the lock of each document
  pc,               \* the step each command takes next
  after,            \* where it goes on once recovery is through
  pending,          \* the files it still has to restore
  restored,         \* whether it could restore every file so far
  purpose,          \* what an editor's next Save writes
  mode,             \* the options each command was started with
  memory,           \* the document each command has read and changed
  mishaps           \* commands that died and writes that failed

\* What the properties remember; no step depends on these.
VARIABLES
  acked,            \* edits reported as saved and not replaced since
  overJournal,      \* edits written while a dead import's journal lay open
  committed         \* imports whose journal was marked committed

disk == <<file, clock, journal>>
control == <<pc, after, pending, restored>>
data == <<purpose, mode, memory>>
ghosts == <<acked, overJournal, committed>>
vars == <<disk, lock, control, data, mishaps, ghosts>>

Final == {"done", "failed", "crashed"}

Labels == Final \cup
  {"stat", "lockAccounts", "lockSettings", "recoverRead", "restore",
   "removeJournal", "load", "loaded", "save", "backup", "write", "saved",
   "loadSettings", "saveSettings", "writeSettings", "settingsSaved",
   "importRead", "importStage", "importSave", "importSettings",
   "importCommit", "importCleanup"}

Continuations ==
  {"load", "save", "loadSettings", "saveSettings", "importRead", "rollback"}

\* The edits a document reflects; a missing file is read as an empty document.
Reflected(document) == IF document = Absent THEN {} ELSE document

\* The modification time Stat reports, 0 when there is no file.
Revision == IF file["accounts"] = Absent THEN 0 ELSE clock

Open(j) == j # Absent /\ ~j.committed

Command(p) == <<p, "command">>

\* A command's change to a document, or the document it puts in its place.
Change(p, document) ==
  {Command(p)} \cup IF mode[p].replace THEN {} ELSE Reflected(document)

\* Where the commands begin; those that are not started have nothing to do.
Begin(started) ==
  /\ \E document \in {Absent, {}} : file = [f \in Files |-> document]
  /\ clock = 1
  /\ journal = Absent
  /\ lock = [f \in {"accounts", "settings"} |-> NoOne]
  /\ pc = [p \in Proc |-> IF p \notin started THEN "done"
                          ELSE IF p \in Importers THEN "lockAccounts" ELSE "stat"]
  /\ after = [p \in Proc |-> IF p \in Importers THEN "importRead"
                             ELSE IF p \in Editors THEN "load" ELSE "loadSettings"]
  /\ pending = [p \in Proc |-> {}]
  /\ restored = [p \in Proc |-> TRUE]
  /\ purpose = [p \in Proc |-> "sync"]
  /\ mode \in [Proc -> [replace: BOOLEAN, settings: BOOLEAN]]
  /\ \A p \in Editors : mode[p] = [replace |-> FALSE, settings |-> FALSE]
  /\ \A p \in SettingsWriters : mode[p].settings
  /\ memory = [p \in Proc |-> [document |-> {}, revision |-> 0, hash |-> Absent]]
  /\ acked = [f \in {"accounts", "settings"} |-> {}]
  /\ overJournal = {}
  /\ committed = {}

Init == Begin(Proc) /\ mishaps = 0

-----------------------------------------------------------------------------
(* Parts of steps *)

At(p, label) == pc[p] = label
Goto(p, label) == pc' = [pc EXCEPT ![p] = label]

\* Load, Save, LoadSettings and SaveSettings begin with recoverRestore.
RecoverThen(p, label) ==
  /\ Goto(p, "stat")
  /\ after' = [after EXCEPT ![p] = label]

Mishap == mishaps < MaxMishaps /\ mishaps' = mishaps + 1

Acquire(p, f) == lock[f] = NoOne /\ lock' = [lock EXCEPT ![f] = p]

\* The locks once a command has closed its lock files, or died.
WithoutLocksOf(p) == [f \in DOMAIN lock |-> IF lock[f] = p THEN NoOne ELSE lock[f]]

Write(f, document) == file' = [file EXCEPT ![f] = document]

\* Two writes within one tick of the file system's clock have the same time.
Tick(f) ==
  clock' \in IF f = "accounts" THEN {clock, clock + 1} \cap 1..MaxClock ELSE {clock}

\* Faulty: only modification times are compared, not contents.
CurrentByTime(p) == memory[p].revision = Revision

\* The check of saveUnlocked: this is the file the accounts were read from.
Current(p) ==
  /\ memory[p].revision = Revision
  /\ Revision # 0 => memory[p].hash \in {Absent, file["accounts"]}

\* Faulty: the accounts are replaced without keeping them.
FirstWriteNoBackup == "write"

\* What saveUnlocked writes first: there is nothing to back up without a file.
FirstWrite == IF Revision = 0 THEN "write" ELSE "backup"

ReadAccounts(p, document) ==
  memory' = [memory EXCEPT ![p] =
    [document |-> document, revision |-> Revision, hash |-> file["accounts"]]]

-----------------------------------------------------------------------------
(* recoverRestore, which every load and save runs first *)

\* The journal is looked for before any lock is taken.
StatJournal(p) ==
  /\ At(p, "stat")
  /\ Goto(p, IF journal = Absent THEN after[p] ELSE "lockAccounts")
  /\ UNCHANGED <<disk, lock, after, pending, restored, data, mishaps, ghosts>>

\* Recovery and imports take both locks, in this order.
LockAccounts(p) ==
  /\ At(p, "lockAccounts")
  /\ Acquire(p, "accounts")
  /\ Goto(p, "lockSettings")
  /\ UNCHANGED <<disk, after, pending, restored, data, mishaps, ghosts>>

LockSettings(p) ==
  /\ At(p, "lockSettings")
  /\ Acquire(p, "settings")
  /\ Goto(p, "recoverRead")
  /\ UNCHANGED <<disk, after, pending, restored, data, mishaps, ghosts>>

\* Faulty: an import lets go of the locks it recovered under.
FinishRecoveryUnlocked(p) ==
  /\ Goto(p, IF after[p] = "rollback" THEN "failed" ELSE after[p])
  /\ lock' = WithoutLocksOf(p)

\* An import keeps the locks it recovered under; a rollback fails its import.
FinishRecovery(p) ==
  /\ Goto(p, IF after[p] = "rollback" THEN "failed" ELSE after[p])
  /\ lock' = IF after[p] = "importRead" THEN lock ELSE WithoutLocksOf(p)

\* recoverRestoreUnlocked looks for the journal again, now under the locks.
NothingToRecover(p) ==
  /\ At(p, "recoverRead")
  /\ journal = Absent
  /\ FinishRecovery(p)
  /\ UNCHANGED <<disk, after, pending, restored, data, mishaps, ghosts>>

\* Faulty: the settings are not part of what is restored.
ReadJournalAccountsOnly(p) ==
  /\ At(p, "recoverRead")
  /\ journal # Absent
  /\ Goto(p, IF journal.committed THEN "removeJournal" ELSE "restore")
  /\ pending' = [pending EXCEPT ![p] = Files \ {"settings"}]
  /\ restored' = [restored EXCEPT ![p] = TRUE]
  /\ UNCHANGED <<disk, lock, after, data, mishaps, ghosts>>

\* Faulty: the backup file is not put back.
ReadJournalNoBackup(p) ==
  /\ At(p, "recoverRead")
  /\ journal # Absent
  /\ Goto(p, IF journal.committed THEN "removeJournal" ELSE "restore")
  /\ pending' = [pending EXCEPT ![p] = Files \ {"backup"}]
  /\ restored' = [restored EXCEPT ![p] = TRUE]
  /\ UNCHANGED <<disk, lock, after, data, mishaps, ghosts>>

\* Faulty: a committed journal is left for the next look, which finds it again.
ReadJournalForEver(p) ==
  /\ At(p, "recoverRead")
  /\ journal # Absent
  /\ Goto(p, IF ~journal.committed THEN "restore"
             ELSE IF p \in Importers THEN "lockAccounts" ELSE "stat")
  /\ lock' = IF journal.committed THEN WithoutLocksOf(p) ELSE lock
  /\ pending' = [pending EXCEPT ![p] = Files]
  /\ restored' = [restored EXCEPT ![p] = TRUE]
  /\ UNCHANGED <<disk, after, data, mishaps, ghosts>>

\* The files are restored unless the journal says that the import went through.
ReadJournal(p) ==
  /\ At(p, "recoverRead")
  /\ journal # Absent
  /\ Goto(p, IF journal.committed THEN "removeJournal" ELSE "restore")
  /\ pending' = [pending EXCEPT ![p] = Files]
  /\ restored' = [restored EXCEPT ![p] = TRUE]
  /\ UNCHANGED <<disk, lock, after, data, mishaps, ghosts>>

\* restoreFiles goes through the files in the order of a Go map, and carries
\* on when one of them cannot be written.
RestoreFile(p) ==
  /\ At(p, "restore")
  /\ \E f \in pending[p] :
       /\ pending' = [pending EXCEPT ![p] = @ \ {f}]
       /\ Write(f, journal.snapshot[f])
       /\ Tick(f)
  /\ UNCHANGED <<journal, lock, pc, after, restored, data, mishaps, ghosts>>

RestoreFails(p) ==
  /\ At(p, "restore")
  /\ \E f \in pending[p] : pending' = [pending EXCEPT ![p] = @ \ {f}]
  /\ Mishap
  /\ restored' = [restored EXCEPT ![p] = FALSE]
  /\ UNCHANGED <<disk, lock, pc, after, data, ghosts>>

\* The journal stays when a file could not be restored.
FinishRestore(p) ==
  /\ At(p, "restore")
  /\ pending[p] = {}
  /\ Goto(p, IF restored[p] THEN "removeJournal" ELSE "failed")
  /\ lock' = IF restored[p] THEN lock ELSE WithoutLocksOf(p)
  /\ UNCHANGED <<disk, after, pending, restored, data, mishaps, ghosts>>

RemoveJournal(p) ==
  /\ At(p, "removeJournal")
  /\ journal' = Absent
  /\ FinishRecovery(p)
  /\ UNCHANGED <<file, clock, after, pending, restored, data, mishaps, ghosts>>

-----------------------------------------------------------------------------
(* Editors: Store.Load, a change in memory, Store.Save *)

\* The lock is taken, the file read and the lock released.
Load(p) ==
  /\ At(p, "load")
  /\ lock["accounts"] = NoOne
  /\ ReadAccounts(p, Reflected(file["accounts"]))
  /\ Goto(p, "loaded")
  /\ UNCHANGED <<disk, lock, after, pending, restored, purpose, mode, mishaps, ghosts>>

\* Load(true) brings quota limits up to date and saves them when that changed
\* any; then the command saves its own change.
ChangeAccounts(p) ==
  /\ At(p, "loaded")
  /\ \E why \in {"sync", "command"} :
       /\ why = "sync" => purpose[p] = "sync" /\ memory[p].revision # 0
       /\ purpose' = [purpose EXCEPT ![p] = why]
       /\ memory' = [memory EXCEPT ![p].document = @ \cup {<<p, why>>}]
  /\ RecoverThen(p, "save")
  /\ UNCHANGED <<disk, lock, pending, restored, mode, mishaps, ghosts>>

Save(p) ==
  /\ At(p, "save")
  /\ Current(p)
  /\ Acquire(p, "accounts")
  /\ Goto(p, FirstWrite)
  /\ UNCHANGED <<disk, after, pending, restored, data, mishaps, ghosts>>

\* A conflicting log sync is dropped and the accounts are loaded again without
\* one; a conflicting command reports the conflict.
SaveConflict(p) ==
  /\ At(p, "save")
  /\ lock["accounts"] = NoOne
  /\ ~Current(p)
  /\ Goto(p, IF purpose[p] = "sync" THEN "stat" ELSE "failed")
  /\ after' = [after EXCEPT ![p] = "load"]
  /\ purpose' = [purpose EXCEPT ![p] = "command"]
  /\ UNCHANGED <<disk, lock, pending, restored, mode, memory, mishaps, ghosts>>

\* The rest of saveUnlocked, which editors and imports share.
WriteBackup(p) ==
  /\ At(p, "backup")
  /\ Write("backup", file["accounts"])
  /\ Goto(p, "write")
  /\ UNCHANGED <<clock, journal, lock, after, pending, restored, data, mishaps, ghosts>>

WriteAccounts(p) ==
  /\ At(p, "write")
  /\ Write("accounts", memory[p].document)
  /\ Tick("accounts")
  /\ Goto(p, IF p \in Importers THEN "importSettings" ELSE "saved")
  /\ overJournal' = overJournal \cup
       IF p \in Editors /\ Open(journal) THEN {<<p, purpose[p]>>} ELSE {}
  /\ UNCHANGED <<journal, lock, after, pending, restored, data, mishaps, acked, committed>>

\* The saved accounts stay in memory under their new revision.
FinishSave(p) ==
  /\ At(p, "saved")
  /\ acked' = [acked EXCEPT !["accounts"] = @ \cup {<<p, purpose[p]>>}]
  /\ ReadAccounts(p, memory[p].document)
  /\ purpose' = [purpose EXCEPT ![p] = "command"]
  /\ Goto(p, IF purpose[p] = "sync" THEN "loaded" ELSE "done")
  /\ lock' = WithoutLocksOf(p)
  /\ UNCHANGED <<disk, after, pending, restored, mode, mishaps, overJournal, committed>>

-----------------------------------------------------------------------------
(* Settings writers: LoadSettings, a change in memory, SaveSettings *)

LoadSettings(p) ==
  /\ At(p, "loadSettings")
  /\ lock["settings"] = NoOne
  /\ memory' = [memory EXCEPT ![p] =
       [document |-> Change(p, file["settings"]), revision |-> 0, hash |-> file["settings"]]]
  /\ RecoverThen(p, "saveSettings")
  /\ UNCHANGED <<disk, lock, pending, restored, purpose, mode, mishaps, ghosts>>

\* config reset saves defaults it never loaded: they have no revision to check.
SettingsCurrent(p) == mode[p].replace \/ memory[p].hash = file["settings"]

SaveSettings(p) ==
  /\ At(p, "saveSettings")
  /\ SettingsCurrent(p)
  /\ Acquire(p, "settings")
  /\ Goto(p, "writeSettings")
  /\ UNCHANGED <<disk, after, pending, restored, data, mishaps, ghosts>>

SettingsConflict(p) ==
  /\ At(p, "saveSettings")
  /\ lock["settings"] = NoOne
  /\ ~SettingsCurrent(p)
  /\ Goto(p, "failed")
  /\ UNCHANGED <<disk, lock, after, pending, restored, data, mishaps, ghosts>>

WriteSettings(p) ==
  /\ At(p, "writeSettings")
  /\ Write("settings", memory[p].document)
  /\ Goto(p, "settingsSaved")
  /\ acked' = [acked EXCEPT !["settings"] = IF mode[p].replace THEN {} ELSE @]
  /\ overJournal' = overJournal \cup IF Open(journal) THEN {Command(p)} ELSE {}
  /\ UNCHANGED <<clock, journal, lock, after, pending, restored, data, mishaps, committed>>

FinishSettings(p) ==
  /\ At(p, "settingsSaved")
  /\ acked' = [acked EXCEPT !["settings"] = @ \cup {Command(p)}]
  /\ Goto(p, "done")
  /\ lock' = WithoutLocksOf(p)
  /\ UNCHANGED <<disk, after, pending, restored, data, mishaps, overJournal, committed>>

-----------------------------------------------------------------------------
(* Importers: importBackup, once readBackup has validated the file and the  *)
(* locks are held                                                           *)

\* The existing accounts are merged into or replaced in memory, and the files
\* kept in an uncommitted journal.
ImportRead(p) ==
  /\ At(p, "importRead")
  /\ ReadAccounts(p, Change(p, file["accounts"]))
  /\ journal' = [committed |-> FALSE, snapshot |-> file]
  /\ Goto(p, "importStage")
  /\ UNCHANGED <<file, clock, lock, after, pending, restored, purpose, mode, mishaps,
                 ghosts>>

\* The credentials are staged in the vault.
ImportStage(p) ==
  /\ At(p, "importStage")
  /\ Goto(p, "importSave")
  /\ UNCHANGED <<disk, lock, after, pending, restored, data, mishaps, ghosts>>

\* saveUnlocked under the locks the import holds all along: an import whose
\* accounts were not current would be stuck here.
ImportSave(p) ==
  /\ At(p, "importSave")
  /\ Current(p)
  /\ Goto(p, FirstWrite)
  /\ UNCHANGED <<disk, lock, after, pending, restored, data, mishaps, ghosts>>

\* Faulty: settings are merged even when the backup replaces everything.
ImportSettingsMerged(p) ==
  /\ At(p, "importSettings")
  /\ Write("settings", IF mode[p].settings THEN Reflected(file["settings"]) \cup {Command(p)}
                                         ELSE file["settings"])
  /\ Goto(p, "importCommit")
  /\ UNCHANGED <<clock, journal, lock, after, pending, restored, data, mishaps, ghosts>>

\* The settings are merged or replaced, if the backup has any.
ImportSettings(p) ==
  /\ At(p, "importSettings")
  /\ Write("settings", IF mode[p].settings THEN Change(p, file["settings"])
                                         ELSE file["settings"])
  /\ Goto(p, "importCommit")
  /\ UNCHANGED <<clock, journal, lock, after, pending, restored, data, mishaps, ghosts>>

\* From here on the import is not undone.
ImportCommit(p) ==
  /\ At(p, "importCommit")
  /\ journal' = [committed |-> TRUE, snapshot |-> journal.snapshot]
  /\ Goto(p, "importCleanup")
  /\ committed' = committed \cup {p}
  /\ acked' = [accounts |-> Change(p, acked["accounts"]),
               settings |-> IF mode[p].settings THEN Change(p, acked["settings"])
                                                ELSE acked["settings"]]
  /\ UNCHANGED <<file, clock, lock, after, pending, restored, data, mishaps, overJournal>>

ImportCleanup(p) ==
  /\ At(p, "importCleanup")
  /\ journal' = Absent
  /\ Goto(p, "done")
  /\ lock' = WithoutLocksOf(p)
  /\ UNCHANGED <<file, clock, after, pending, restored, data, mishaps, ghosts>>

-----------------------------------------------------------------------------
(* Failures *)

RollBack(p) ==
  /\ Goto(p, "restore")
  /\ after' = [after EXCEPT ![p] = "rollback"]
  /\ pending' = [pending EXCEPT ![p] = Files]
  /\ restored' = [restored EXCEPT ![p] = TRUE]
  /\ UNCHANGED <<disk, lock, data, ghosts>>

\* The user interrupts an import while its credentials are staged.
InterruptImport(p) ==
  /\ At(p, "importStage")
  /\ RollBack(p)
  /\ UNCHANGED mishaps

\* A write fails after an import has begun to change files.
FailImport(p) ==
  /\ p \in Importers
  /\ \/ pc[p] \in {"backup", "write", "importCommit"}
     \/ At(p, "importSettings") /\ mode[p].settings
  /\ Mishap
  /\ RollBack(p)

\* Any other write fails, or the journal cannot be removed: the command reports
\* the error and gives up.
FailWrite(p) ==
  /\ \/ pc[p] \in {"writeSettings", "importRead", "importCleanup", "removeJournal"}
     \/ p \in Editors /\ pc[p] \in {"backup", "write"}
  /\ Mishap
  /\ Goto(p, "failed")
  /\ lock' = WithoutLocksOf(p)
  /\ UNCHANGED <<disk, after, pending, restored, data, ghosts>>

\* A command dies wherever it is, and the system drops its locks.
Crash(p) ==
  /\ pc[p] \notin Final
  /\ Mishap
  /\ Goto(p, "crashed")
  /\ lock' = WithoutLocksOf(p)
  /\ UNCHANGED <<disk, after, pending, restored, data, ghosts>>

Step(p) ==
  \/ StatJournal(p) \/ LockAccounts(p) \/ LockSettings(p)
  \/ NothingToRecover(p) \/ ReadJournal(p) \/ RestoreFile(p) \/ RestoreFails(p)
  \/ FinishRestore(p) \/ RemoveJournal(p)
  \/ Load(p) \/ ChangeAccounts(p) \/ Save(p) \/ SaveConflict(p)
  \/ WriteBackup(p) \/ WriteAccounts(p) \/ FinishSave(p)
  \/ LoadSettings(p) \/ SaveSettings(p) \/ SettingsConflict(p)
  \/ WriteSettings(p) \/ FinishSettings(p)
  \/ ImportRead(p) \/ ImportStage(p) \/ ImportSave(p) \/ ImportSettings(p)
  \/ ImportCommit(p) \/ ImportCleanup(p)
  \/ InterruptImport(p) \/ FailImport(p) \/ FailWrite(p)

\* Every command has ended.
AllEnded == (\A p \in Proc : pc[p] \in Final) /\ UNCHANGED vars

Next == (\E p \in Proc : Step(p) \/ Crash(p)) \/ AllEnded

Spec == Init /\ [][Next]_vars

\* The operating system schedules every command that can run.
Fairness == \A p \in Proc : WF_vars(Step(p))

-----------------------------------------------------------------------------
(* Properties *)

\* Every variable has its type.
TypeOK ==
  /\ file \in [Files -> Document]
  /\ clock \in 1..MaxClock
  /\ journal \in {Absent} \cup Journal
  /\ lock \in [{"accounts", "settings"} -> Proc \cup {NoOne}]
  /\ pc \in [Proc -> Labels]
  /\ after \in [Proc -> Continuations]
  /\ pending \in [Proc -> SUBSET Files]
  /\ restored \in [Proc -> BOOLEAN]
  /\ purpose \in [Proc -> {"sync", "command"}]
  /\ mode \in [Proc -> [replace: BOOLEAN, settings: BOOLEAN]]
  /\ memory \in [Proc -> [document: SUBSET Edit, revision: 0..MaxClock, hash: Document]]
  /\ mishaps \in 0..MaxMishaps
  /\ acked \in [{"accounts", "settings"} -> SUBSET Edit]
  /\ overJournal \in SUBSET Edit
  /\ committed \in SUBSET Importers

\* What the files hold once an interrupted import has been recovered.
Durable == IF Open(journal) THEN journal.snapshot ELSE file

\* An edit a command reported as saved is never lost again: not to a command
\* that loaded older accounts or settings, not to a crash or a failed write,
\* and not to the recovery or rollback of somebody's import.  The one window
\* the code leaves is a save whose look for the journal came before an import
\* wrote it and whose write came after that import died.
NoLostEdit ==
  \A f \in {"accounts", "settings"} :
    acked[f] \ overJournal \subseteq Reflected(Durable[f])

\* Nothing of an import that was not committed outlives its recovery, not even
\* in the backup file or in what another command saved meanwhile.
NoUncommittedTrace ==
  \A f \in Files, p \in Importers :
    Command(p) \in Reflected(Durable[f]) => p \in committed

\* An import that has written its journal holds both locks until it has ended,
\* so that no other command works between its two files.
ImportHoldsLocks ==
  \A p \in Importers :
    pc[p] \in {"importStage", "importSave", "backup", "write", "importSettings",
               "importCommit", "importCleanup", "restore", "removeJournal"}
      => lock["accounts"] = p /\ lock["settings"] = p

\* When the journal of an unfinished import goes, all three files are back to
\* what they were when it was written, in spite of failed and repeated
\* recoveries.
RecoveryIsComplete ==
  [][Open(journal) /\ journal' = Absent => file = journal.snapshot]_vars

\* Whenever a save replaces the accounts, the backup file holds exactly the
\* accounts it replaces.
SaveKeepsPrevious ==
  [][\A p \in Proc : pc[p] = "write" /\ pc'[p] \in {"saved", "importSettings"}
       => file["accounts"] \in {Absent, file["backup"]}]_vars

\* Commands take effect one at a time, and an import changes accounts and
\* settings at once, when its journal is marked committed.
Atomic == INSTANCE AtomicStore WITH
  accounts <- Durable["accounts"], settings <- Durable["settings"]

TakesEffectAtOnce == Atomic!Spec

\* No two commands wait for each other's locks: every command ends.
CommandsEnd == \A p \in Proc : <>(pc[p] \in Final)

\* What TestInterruptedRestoreRecoversBeforeRead expects of Load: it does not
\* return the accounts of an interrupted import.
RecoversBeforeRead ==
  \A p \in Editors, i \in Importers :
    Command(i) \in memory[p].document => i \in committed
=============================================================================
