----------------------- MODULE AccountStoreInvariant -----------------------
(***************************************************************************)
(* The inductive invariant behind the theorems of AccountStoreProofs.  It  *)
(* says, for every step a command can be at, which locks it holds and what *)
(* the shared files look like to it.                                       *)
(***************************************************************************)
EXTENDS AccountStore

RecoveryLabels == {"lockAccounts", "lockSettings", "recoverRead", "restore", "removeJournal"}

\* A command only takes the steps of its kind.
Roles ==
  \A p \in Proc :
    /\ p \in Editors =>
         /\ pc[p] \in Final \cup RecoveryLabels \cup
              {"stat", "load", "loaded", "save", "backup", "write", "saved"}
         /\ after[p] \in {"load", "save"}
         /\ ~mode[p].replace
    /\ p \in SettingsWriters =>
         /\ pc[p] \in Final \cup RecoveryLabels \cup
              {"stat", "loadSettings", "saveSettings", "writeSettings", "settingsSaved"}
         /\ after[p] \in {"loadSettings", "saveSettings"}
    /\ p \in Importers =>
         /\ pc[p] \in Final \cup RecoveryLabels \cup
              {"importRead", "importStage", "importSave", "backup", "write",
               "importSettings", "importCommit", "importCleanup"}
         /\ after[p] \in {"importRead", "rollback"}

ImportLabels ==
  {"importRead", "importStage", "importSave", "importSettings", "importCommit",
   "importCleanup"}

\* The steps at which a command holds each of the locks.
HoldsAccounts(p) ==
  pc[p] \in ImportLabels \cup {"lockSettings", "recoverRead", "restore", "removeJournal",
                               "backup", "write", "saved"}

HoldsSettings(p) ==
  \/ pc[p] \in ImportLabels \cup {"recoverRead", "restore", "removeJournal",
                                  "writeSettings", "settingsSaved"}
  \/ p \in Importers /\ pc[p] \in {"backup", "write"}

Locks ==
  \A p \in Proc :
    /\ HoldsAccounts(p) => lock["accounts"] = p
    /\ HoldsSettings(p) => lock["settings"] = p

\* A command that restores files does so from an open journal, and what it has
\* restored stays restored.
Restoring ==
  \A p \in Proc :
    /\ pc[p] = "restore" =>
         /\ Open(journal)
         /\ restored[p] =>
              \A f \in Files \ pending[p] : file[f] = journal.snapshot[f]
    /\ pc[p] = "removeJournal" =>
         /\ journal # Absent
         /\ Open(journal) => file = journal.snapshot

\* A command is at a step or on its way there through recoverRestore.
AboutTo(p, label) ==
  pc[p] = label \/ (pc[p] \in RecoveryLabels \cup {"stat"} /\ after[p] = label)

\* What an editor has in memory extends the file it was read from.
Loaded ==
  \A p \in Editors :
    /\ memory[p].revision = 0 <=> memory[p].hash = Absent
    /\ Reflected(memory[p].hash) \subseteq memory[p].document
    /\ AboutTo(p, "save") \/ pc[p] \in {"backup", "write"}
         => <<p, purpose[p]>> \in memory[p].document

\* An editor past the check of saveUnlocked extends the accounts it replaces;
\* its edit is in the accounts until it has reported it.
Saving ==
  \A p \in Editors :
    /\ pc[p] \in {"backup", "write"} =>
         Reflected(file["accounts"]) \subseteq memory[p].document
    /\ pc[p] = "saved" =>
         /\ file["accounts"] = memory[p].document
         /\ <<p, purpose[p]>> \in file["accounts"]
         /\ Open(journal) => <<p, purpose[p]>> \in overJournal

\* The same for a settings writer.
SavingSettings ==
  \A p \in SettingsWriters :
    /\ AboutTo(p, "saveSettings") \/ pc[p] = "writeSettings"
         => /\ Command(p) \in memory[p].document
            /\ mode[p].replace \/ Reflected(memory[p].hash) \subseteq memory[p].document
    /\ pc[p] = "writeSettings" /\ ~mode[p].replace =>
         Reflected(file["settings"]) \subseteq memory[p].document
    /\ pc[p] = "settingsSaved" =>
         /\ file["settings"] # Absent
         /\ Command(p) \in file["settings"]
         /\ Open(journal) => Command(p) \in overJournal

\* How far an import has taken the files from what its journal keeps.
Importing ==
  \A p \in Importers :
    /\ pc[p] = "importRead" => journal = Absent
    /\ pc[p] \in {"importStage", "importSave", "backup", "write", "importSettings",
                  "importCommit"}
         => /\ Open(journal)
            /\ memory[p].document = Change(p, journal.snapshot["accounts"])
    /\ pc[p] \in {"importStage", "importSave", "backup", "write", "importSettings"}
         => file["settings"] = journal.snapshot["settings"]
    /\ pc[p] \in {"importSettings", "importCommit"} =>
         file["accounts"] = memory[p].document
    /\ pc[p] = "importCommit" =>
         file["settings"] = IF mode[p].settings
                              THEN Change(p, journal.snapshot["settings"])
                              ELSE journal.snapshot["settings"]
    /\ pc[p] = "importCleanup" => journal # Absent /\ journal.committed

\* A save changes what it replaces by the command's own edit and nothing else:
\* what a command has in memory is the content it read and that edit.
Exact ==
  /\ \A p \in Editors :
       /\ pc[p] = "loaded" => memory[p].document = Reflected(memory[p].hash)
       /\ AboutTo(p, "save") =>
            memory[p].document = Reflected(memory[p].hash) \cup {<<p, purpose[p]>>}
       /\ pc[p] \in {"backup", "write"} =>
            memory[p].document = Reflected(file["accounts"]) \cup {<<p, purpose[p]>>}
  /\ \A p \in SettingsWriters :
       /\ AboutTo(p, "saveSettings") => memory[p].document = Change(p, memory[p].hash)
       /\ pc[p] = "writeSettings" => memory[p].document = Change(p, file["settings"])

\* A command about to replace the accounts has kept them in the backup file.
BackedUp == \A p \in Proc : pc[p] = "write" => file["accounts"] \in {Absent, file["backup"]}

\* An import changes the accounts no earlier than it writes them, and leaves in
\* the backup file what was there or the accounts it found.
Keeping ==
  \A p \in Importers :
    /\ pc[p] \in {"importStage", "importSave", "backup", "write"} =>
         file["accounts"] = journal.snapshot["accounts"]
    /\ pc[p] \in {"importStage", "importSave", "backup"} =>
         file["backup"] = journal.snapshot["backup"]
    /\ pc[p] \in {"write", "importSettings", "importCommit"} =>
         file["backup"] \in {journal.snapshot["backup"], journal.snapshot["accounts"]}

\* What IInv does not need, and the theorems about the single saves do.
SaveInv ==
  /\ Exact
  /\ BackedUp
  /\ Keeping
  /\ NoUncommittedTrace

IInv ==
  /\ TypeOK
  /\ Roles
  /\ Locks
  /\ Restoring
  /\ Loaded
  /\ Saving
  /\ SavingSettings
  /\ Importing
  /\ NoLostEdit
=============================================================================
