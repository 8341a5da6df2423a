------------------------------ MODULE Session ------------------------------
(***************************************************************************)
(* The active Antigravity session (src/internal/app/credentials.go,        *)
(* session_guard.go, and addLoginFlow and cmdLogout of cli.go): the token  *)
(* file of each Antigravity program, google_accounts.json, which names the *)
(* active account, and the entry in the operating system's credential      *)
(* store.                                                                  *)
(*                                                                         *)
(* A command first reconciles the session with what Antigravity has done   *)
(* to it, and then switches, logs in, logs out or does none of these.  All *)
(* of them take the session lock; Antigravity writes the same files and    *)
(* does not know of it.                                                    *)
(*                                                                         *)
(* A token is its owner, which its refresh token tells, and an age: the    *)
(* access tokens of an account are numbered in the order Google issued     *)
(* them.  oauth_creds.json follows the first file and is left out.         *)
(***************************************************************************)
EXTENDS Naturals, FiniteSets, FiniteSetsExt

CONSTANTS
  Commands,    \* one process each
  Plans,       \* where the session is, and what kinds the commands are of
  Owners,      \* Google accounts
  None,        \* no token, no account, no process
  Surfaces,    \* token files are numbered 1 (the CLI) to Surfaces
  MaxOutside,  \* bound: how often Antigravity writes the files on its own
  MaxMishaps   \* bound: how many commands die and calls fail

Kinds == {"reconcile", "switch", "next", "login", "logout"}

\* The session is in the files, or there with a copy in the OS store, or in the
\* OS store.
Platforms == {"files", "mirrored", "keychain"}

Files == 1..Surfaces
Token == [owner: Owners, age: Nat]

\* google_accounts.json is written after the token files.
AccountsFile == 0
AllFiles == {AccountsFile} \cup Files

ASSUME Parameters ==
  /\ Plans \subseteq [platform: Platforms, kind: [Commands -> Kinds]]
  /\ Surfaces \in Nat \ {0}
  /\ MaxOutside \in Nat /\ MaxMishaps \in Nat
  /\ None \notin Owners /\ None \notin Token /\ None \notin Commands

VARIABLES
  platform,    \* does not change
  surface,     \* the token in each file
  active,      \* the account google_accounts.json names
  keyring,     \* the token in the OS store
  saved,       \* the accounts agy-swap has saved
  vault,       \* the age of each account's saved token
  latest,      \* the age of the last token Google issued to each account
  lock,        \* who holds the session lock
  kind, pc,
  token,       \* the token a command is about to write
  seen,        \* the session it found when it took the lock
  todo,        \* the files it still has to write or remove
  outside, mishaps,
  unsaved,     \* accounts whose newer token the last reconciliation could not save
  alone        \* since the lock was taken nobody else wrote the files, and every
               \* restore and copy has worked

session == <<surface, active, keyring>>
store == <<saved, vault, latest>>
local == <<kind, token, seen, todo>>
trouble == <<outside, mishaps, unsaved>>
vars == <<platform, session, store, lock, pc, local, trouble, alone>>

\* Removing the files, and the rest of them after one could not be removed.
Clearing == {"clear", "clearRest", "remove", "removeRest"}
Final == {"done", "failed", "crashed"}
Labels == Final \cup
  {"start", "harvest", "compare", "syncWrite", "syncRestore", "syncMirror",
   "command", "chosen", "secure", "write", "restore", "restoreSecure", "mirror",
   "prompt", "wait"} \cup Clearing

\* useFileSessionStore and shouldMirrorOSKeyring.
FileStore == platform # "keychain"
Mirror == platform = "mirrored"

Snapshot == [surface |-> surface, active |-> active, keyring |-> keyring]

\* agy-swap starts with saved accounts and a session of one of them, or none.
Init ==
  /\ \E plan \in Plans : platform = plan.platform /\ kind = plan.kind
  /\ saved \in SUBSET Owners /\ saved # Owners
  /\ vault = [o \in Owners |-> IF o \in saved THEN 1 ELSE 0]
  /\ latest = vault
  /\ active \in saved \cup {None}
  /\ surface = [f \in Files |-> IF active = None THEN None
                                ELSE [owner |-> active, age |-> 1]]
  /\ keyring = IF FileStore /\ ~Mirror THEN None ELSE surface[1]
  /\ lock = None
  /\ pc = [c \in Commands |-> "start"]
  /\ token = [c \in Commands |-> None]
  /\ seen = [c \in Commands |-> Snapshot]
  /\ todo = [c \in Commands |-> {}]
  /\ outside = 0
  /\ mishaps = 0
  /\ unsaved = {}
  /\ alone = TRUE

-----------------------------------------------------------------------------
(* Parts of steps *)

At(c, label) == pc[c] = label
Goto(c, label) == pc' = [pc EXCEPT ![c] = label]

\* The command takes the session lock and looks at the session.
TakeLock(c) ==
  /\ lock = None
  /\ lock' = c
  /\ alone' = TRUE
  /\ seen' = [seen EXCEPT ![c] = Snapshot]

Release == lock' = None

Mishap == mishaps < MaxMishaps /\ mishaps' = mishaps + 1

ToDo(c, files) == todo' = [todo EXCEPT ![c] = files]

\* matchAccountByToken: the token or its refresh token is a saved one.
Matched(t) == t # None /\ t.owner \in saved
UnsavedSession(files) == \E f \in Files : files[f] # None /\ ~Matched(files[f])

\* readOAuthToken: the first file decides whose session it is, and the newest
\* token of that account is taken.
CurrentToken ==
  IF \A f \in Files : surface[f] = None THEN IF FileStore THEN None ELSE keyring
  ELSE LET first == Min({f \in Files : surface[f] # None})
           owner == surface[first].owner
           ages == {surface[f].age : f \in {g \in Files :
                      surface[g] # None /\ surface[g].owner = owner}}
       IN  [owner |-> owner, age |-> Max(ages)]

\* The files are written in order, google_accounts.json last.
NextFile(c) ==
  IF todo[c] = {AccountsFile} THEN AccountsFile ELSE Min(todo[c] \ {AccountsFile})

PutFile(f, t, owner) ==
  IF f = AccountsFile THEN active' = owner /\ UNCHANGED surface
  ELSE surface' = [surface EXCEPT ![f] = t] /\ UNCHANGED active

-----------------------------------------------------------------------------
(* reconcileActiveSession, with which every command begins *)

\* Somebody else has the lock, or nobody is signed in: nothing to reconcile.
SkipSync(c) ==
  /\ At(c, "start")
  /\ lock # None \/ \A f \in Files : surface[f] = None
  /\ Goto(c, "command")
  /\ UNCHANGED <<session, store, lock, local, trouble, alone>>

BeginSync(c) ==
  /\ At(c, "start")
  /\ \E f \in Files : surface[f] # None
  /\ TakeLock(c)
  /\ Goto(c, "harvest")
  /\ UNCHANGED <<session, store, kind, token, todo, trouble>>

\* The token of an account that is newer than the saved one.
Newest(o, files) ==
  Max({vault[o]} \cup {files[f].age : f \in {g \in Files :
        files[g] # None /\ files[g].owner = o}})

\* The saved tokens with those that have been refreshed.
Harvested(files) == [o \in Owners |-> IF o \in saved THEN Newest(o, files) ELSE vault[o]]

\* Faulty: the files decide, whatever account was chosen.
IntendedByFile(files) == files[Min({f \in Files : files[f] # None})].owner

\* The account that was chosen last, else the owner of the first file.
Intended(files) ==
  IF active # None THEN active
  ELSE files[Min({f \in Files : files[f] # None})].owner

\* Faulty: sign-ins of accounts that are not saved are not looked for.
LeaveAloneNever(files) == Intended(files) \notin saved

\* A sign-in of an unsaved account is left alone, and so is a session whose
\* account has been removed.
LeaveAlone(files) == UnsavedSession(files) \/ Intended(files) \notin saved

\* Refreshed tokens are saved, and where that fails nobody looks at it: the
\* command goes on with what it has in memory.
Harvest(c) ==
  /\ At(c, "harvest")
  /\ LET files == seen[c].surface IN
     /\ \E failed \in SUBSET {o \in saved : Harvested(files)[o] # vault[o]} :
          /\ IF failed = {} THEN UNCHANGED mishaps ELSE Mishap
          /\ vault' = [o \in Owners |-> IF o \in failed THEN vault[o] ELSE Harvested(files)[o]]
          /\ unsaved' = failed
     /\ IF LeaveAlone(files)
          THEN Goto(c, "command") /\ Release /\ UNCHANGED token
          ELSE LET o == Intended(files) IN
               /\ token' = [token EXCEPT ![c] = [owner |-> o, age |-> Harvested(files)[o]]]
               /\ Goto(c, "compare")
               /\ UNCHANGED lock
  /\ UNCHANGED <<session, saved, latest, kind, seen, todo, outside, alone>>

\* The files are read again; writeOAuthFiles takes its snapshot of them.
Compare(c) ==
  /\ At(c, "compare")
  /\ IF active = token[c].owner /\ \A f \in Files : surface[f] = token[c]
       THEN Goto(c, "command") /\ Release /\ UNCHANGED <<todo, seen>>
       ELSE /\ Goto(c, "syncWrite")
            /\ ToDo(c, AllFiles)
            /\ seen' = [seen EXCEPT ![c] = Snapshot]
            /\ UNCHANGED lock
  /\ UNCHANGED <<session, store, kind, token, trouble, alone>>

-----------------------------------------------------------------------------
(* writeOAuthFiles, for a reconciliation and for a switch *)

\* Faulty: the files of the other programs are forgotten.
WriteFirstOnly(c) ==
  /\ pc[c] \in {"syncWrite", "write"}
  /\ todo[c] # {}
  /\ PutFile(NextFile(c), token[c], token[c].owner)
  /\ ToDo(c, todo[c] \ (IF NextFile(c) = 1 THEN Files ELSE {NextFile(c)}))
  /\ UNCHANGED <<keyring, store, lock, pc, kind, token, seen, trouble, alone>>

Write(c) ==
  /\ pc[c] \in {"syncWrite", "write"}
  /\ todo[c] # {}
  /\ PutFile(NextFile(c), token[c], token[c].owner)
  /\ ToDo(c, todo[c] \ {NextFile(c)})
  /\ UNCHANGED <<keyring, store, lock, pc, kind, token, seen, trouble, alone>>

WriteFails(c) ==
  /\ pc[c] \in {"syncWrite", "write"}
  /\ todo[c] # {}
  /\ Mishap
  /\ ToDo(c, AllFiles)
  /\ Goto(c, IF At(c, "write") THEN "restore" ELSE "syncRestore")
  /\ UNCHANGED <<session, store, lock, kind, token, seen, outside, unsaved, alone>>

\* restoreFiles goes through the files in the order of a Go map.
Restore(c) ==
  /\ pc[c] \in {"syncRestore", "restore"}
  /\ \E f \in todo[c] :
       /\ PutFile(f, IF f \in Files THEN seen[c].surface[f] ELSE None, seen[c].active)
       /\ ToDo(c, todo[c] \ {f})
  /\ UNCHANGED <<keyring, store, lock, pc, kind, token, seen, trouble, alone>>

\* It goes on when a file cannot be restored.
RestoreFails(c) ==
  /\ pc[c] \in {"syncRestore", "restore"}
  /\ Mishap
  /\ \E f \in todo[c] : ToDo(c, todo[c] \ {f})
  /\ alone' = FALSE
  /\ UNCHANGED <<session, store, lock, pc, kind, token, seen, outside, unsaved>>

\* All files are written or restored.
FilesDone(c) ==
  /\ todo[c] = {}
  /\ \/ At(c, "syncWrite") /\ Goto(c, "syncMirror")
     \/ At(c, "syncRestore") /\ Goto(c, "syncMirror")
     \/ At(c, "write") /\ Goto(c, "mirror")
     \/ At(c, "restore") /\ Goto(c, "restoreSecure")
  /\ UNCHANGED <<session, store, lock, local, trouble, alone>>

\* A reconciliation copies its token to the OS store even when it could not
\* write the files; nobody looks at whether that worked.
SyncMirror(c) ==
  /\ At(c, "syncMirror")
  /\ keyring' = IF Mirror THEN token[c] ELSE keyring
  /\ Goto(c, "command")
  /\ Release
  /\ UNCHANGED <<surface, active, store, local, trouble, alone>>

-----------------------------------------------------------------------------
(* switch reads the saved token before it takes the lock, next after it *)

\* A command that does nothing to the session, or a switch that has read the
\* token of the account it switches to.
Choose(c) ==
  /\ At(c, "command")
  /\ \/ kind[c] = "reconcile" /\ Goto(c, "done") /\ UNCHANGED token
     \/ /\ kind[c] = "switch"
        /\ \E o \in saved :
             token' = [token EXCEPT ![c] = [owner |-> o, age |-> vault[o]]]
        /\ Goto(c, "chosen")
  /\ UNCHANGED <<session, store, lock, kind, seen, todo, trouble, alone>>

NothingToSwitchTo(c) ==
  /\ At(c, "command")
  /\ kind[c] \in {"switch", "next"}
  /\ saved = {}
  /\ Goto(c, "failed")
  /\ UNCHANGED <<session, store, lock, local, trouble, alone>>

LockSwitch(c) ==
  /\ At(c, "chosen")
  /\ TakeLock(c)
  /\ ToDo(c, AllFiles)
  /\ Goto(c, IF FileStore THEN "write" ELSE "secure")
  /\ UNCHANGED <<session, store, kind, token, trouble>>

LockNext(c) ==
  /\ At(c, "command")
  /\ kind[c] = "next"
  /\ TakeLock(c)
  /\ \E o \in saved : token' = [token EXCEPT ![c] = [owner |-> o, age |-> vault[o]]]
  /\ ToDo(c, AllFiles)
  /\ Goto(c, IF FileStore THEN "write" ELSE "secure")
  /\ UNCHANGED <<session, store, kind, trouble>>

\* Where the OS store has the session it is written first.
SetSecure(c) ==
  /\ At(c, "secure")
  /\ keyring' = token[c]
  /\ Goto(c, "write")
  /\ UNCHANGED <<surface, active, store, lock, local, trouble, alone>>

\* The store may have taken the token all the same.  Without a previous entry
\* the files alone will do where the store is not required or not available.
SetSecureFails(c) ==
  /\ At(c, "secure")
  /\ Mishap
  /\ keyring # token[c]
  /\ \/ keyring' = token[c] /\ Goto(c, "write") /\ UNCHANGED lock
     \/ UNCHANGED <<keyring, lock>> /\ keyring = None /\ Goto(c, "write")
     \/ UNCHANGED keyring /\ Goto(c, "failed") /\ Release
  /\ UNCHANGED <<surface, active, store, local, outside, unsaved, alone>>

\* The new session is copied to the OS store where that is a copy.
Switched(c) ==
  /\ At(c, "mirror")
  /\ keyring' = IF FileStore /\ Mirror THEN token[c] ELSE keyring
  /\ Goto(c, "done")
  /\ Release
  /\ UNCHANGED <<surface, active, store, local, trouble, alone>>

\* Copying to the OS store, or putting back what it had, may fail unnoticed.
SecureFails(c) ==
  /\ pc[c] \in {"syncMirror", "mirror", "restoreSecure"}
  /\ Mishap
  /\ Goto(c, CASE At(c, "syncMirror") -> "command"
               [] At(c, "mirror") -> "done"
               [] At(c, "restoreSecure") -> "failed")
  /\ Release
  /\ alone' = FALSE
  /\ UNCHANGED <<session, store, local, outside, unsaved>>

\* Faulty: the OS store keeps the session that could not be established.
RestoreSecureNever(c) ==
  /\ At(c, "restoreSecure")
  /\ Goto(c, "failed")
  /\ Release
  /\ UNCHANGED <<session, store, local, trouble, alone>>

\* The entry the OS store had comes back where the store has the session.
RestoreSecure(c) ==
  /\ At(c, "restoreSecure")
  /\ keyring' = IF FileStore THEN keyring ELSE seen[c].keyring
  /\ Goto(c, "failed")
  /\ Release
  /\ UNCHANGED <<surface, active, store, local, trouble, alone>>

-----------------------------------------------------------------------------
(* clearUnlocked, by which a logout ends and a login begins *)

\* The OS store is cleared and the files are removed after it.
Clear(c, label) ==
  /\ keyring' = IF FileStore /\ ~Mirror THEN keyring ELSE None
  /\ ToDo(c, AllFiles)
  /\ Goto(c, label)

LogOut(c) ==
  /\ At(c, "command")
  /\ kind[c] = "logout"
  /\ TakeLock(c)
  /\ Clear(c, "remove")
  /\ UNCHANGED <<surface, active, store, kind, token, trouble>>

RemoveFile(c) ==
  /\ pc[c] \in Clearing
  /\ todo[c] # {}
  /\ PutFile(NextFile(c), None, None)
  /\ ToDo(c, todo[c] \ {NextFile(c)})
  /\ UNCHANGED <<keyring, store, lock, pc, kind, token, seen, trouble, alone>>

\* The other files are removed all the same.  Only where the files are the
\* session does it matter that one could not be.
RemoveFails(c) ==
  /\ pc[c] \in Clearing
  /\ todo[c] # {}
  /\ Mishap
  /\ ToDo(c, todo[c] \ {NextFile(c)})
  /\ IF FileStore
       THEN Goto(c, IF pc[c] \in {"clear", "clearRest"} THEN "clearRest" ELSE "removeRest")
       ELSE UNCHANGED pc
  /\ UNCHANGED <<session, store, lock, kind, token, seen, outside, unsaved, alone>>

LoggedOut(c) ==
  /\ pc[c] \in {"remove", "removeRest"}
  /\ todo[c] = {}
  /\ Goto(c, IF At(c, "remove") /\ CurrentToken = None THEN "done" ELSE "failed")
  /\ Release
  /\ UNCHANGED <<session, store, local, trouble, alone>>

\* agy is started for a login once no session is left.
Cleared(c) ==
  /\ pc[c] \in {"clear", "clearRest"}
  /\ todo[c] = {}
  /\ IF At(c, "clear") /\ CurrentToken = None
       THEN Goto(c, "wait") /\ UNCHANGED todo
       ELSE Goto(c, "restore") /\ ToDo(c, AllFiles)
  /\ UNCHANGED <<session, store, lock, kind, token, seen, trouble, alone>>

-----------------------------------------------------------------------------
(* addLoginFlow *)

\* The current session is remembered, in token, and a snapshot taken.
BeginLogin(c) ==
  /\ At(c, "command")
  /\ kind[c] = "login"
  /\ TakeLock(c)
  /\ token' = [token EXCEPT ![c] = CurrentToken]
  /\ Goto(c, "prompt")
  /\ UNCHANGED <<session, store, kind, todo, trouble>>

\* saveTokenAccount.
SaveAccount(t) ==
  /\ saved' = saved \cup {t.owner}
  /\ vault' = [vault EXCEPT ![t.owner] = t.age]

\* A session that is not saved yet is offered to be saved instead, and that may
\* fail.
SaveFound(c) ==
  /\ At(c, "prompt")
  /\ \E f \in Files :
       /\ surface[f] # None
       /\ ~Matched(surface[f])
       /\ \/ SaveAccount(surface[f]) /\ Goto(c, "done")
          \/ UNCHANGED <<saved, vault>> /\ Goto(c, "failed")
  /\ Release
  /\ UNCHANGED <<session, latest, local, trouble, alone>>

ClearForLogin(c) ==
  /\ At(c, "prompt")
  /\ Clear(c, "clear")
  /\ UNCHANGED <<surface, active, store, lock, kind, token, seen, trouble, alone>>

\* agy is waiting for the browser, and then stores the session of whoever
\* signed in there, in the OS store where that has the session.
AgyLogin(c) ==
  /\ At(c, "wait")
  /\ CurrentToken = None
  /\ \E o \in Owners :
       LET new == [owner |-> o, age |-> latest[o] + 1] IN
       /\ latest' = [latest EXCEPT ![o] = new.age]
       /\ active' \in {active, o}
       /\ \/ surface' = [surface EXCEPT ![1] = new] /\ UNCHANGED keyring
          \/ ~FileStore /\ keyring' = new /\ UNCHANGED surface
  /\ UNCHANGED <<saved, vault, lock, pc, local, trouble, alone>>

\* The login has led to a new token: it is saved, and stays the active session
\* unless Google wants the account verified and there was another one.
LoggedIn(c) ==
  /\ At(c, "wait")
  /\ CurrentToken \notin {None, token[c]}
  /\ SaveAccount(CurrentToken)
  /\ \/ Goto(c, "done") /\ Release /\ UNCHANGED todo
     \/ token[c] # None /\ Goto(c, "restore") /\ ToDo(c, AllFiles) /\ UNCHANGED lock
  /\ UNCHANGED <<session, latest, kind, token, seen, trouble, alone>>

\* Faulty: a login that never gets an answer waits for ever.
GiveUpBeforeOnly(c) ==
  /\ At(c, "prompt")
  /\ ToDo(c, AllFiles)
  /\ Goto(c, "restore")
  /\ UNCHANGED <<session, store, lock, kind, token, seen, trouble, alone>>

\* The user answers no or cancels; or, once it is started, agy exits, 120 seconds
\* are over or the token cannot be saved: agy is stopped and the session restored.
GiveUp(c) ==
  /\ pc[c] \in {"prompt", "wait"}
  /\ ToDo(c, AllFiles)
  /\ Goto(c, "restore")
  /\ UNCHANGED <<session, store, lock, kind, token, seen, trouble, alone>>

-----------------------------------------------------------------------------
(* Antigravity, which does not take the lock *)

Outside == outside < MaxOutside /\ outside' = outside + 1 /\ alone' = FALSE

\* A running agy or IDE refreshes the token of the account it was started
\* with, whatever its file holds now.
AgyRefresh ==
  /\ Outside
  /\ \E o \in Owners, f \in Files :
       /\ latest[o] > 0
       /\ latest' = [latest EXCEPT ![o] = @ + 1]
       /\ surface' = [surface EXCEPT ![f] = [owner |-> o, age |-> latest[o] + 1]]
  /\ UNCHANGED <<active, keyring, saved, vault, lock, pc, local, mishaps, unsaved>>

\* Somebody signs in to an account agy-swap does not know.
AgySignIn ==
  /\ Outside
  /\ \E o \in Owners \ saved, f \in Files :
       /\ latest' = [latest EXCEPT ![o] = @ + 1]
       /\ surface' = [surface EXCEPT ![f] = [owner |-> o, age |-> latest[o] + 1]]
  /\ UNCHANGED <<active, keyring, saved, vault, lock, pc, local, mishaps, unsaved>>

AgySignOut ==
  /\ Outside
  /\ \E f \in Files : surface' = [surface EXCEPT ![f] = None]
  /\ UNCHANGED <<active, keyring, store, lock, pc, local, mishaps, unsaved>>

\* A quota refresh of another agy-swap command saves a new token of an account.
QuotaRefresh ==
  /\ outside < MaxOutside
  /\ outside' = outside + 1
  /\ \E o \in saved :
       /\ latest' = [latest EXCEPT ![o] = @ + 1]
       /\ vault' = [vault EXCEPT ![o] = latest[o] + 1]
  /\ UNCHANGED <<session, saved, lock, pc, local, mishaps, unsaved, alone>>

-----------------------------------------------------------------------------

Crash(c) ==
  /\ pc[c] \notin Final
  /\ Mishap
  /\ Goto(c, "crashed")
  /\ lock' = IF lock = c THEN None ELSE lock
  /\ UNCHANGED <<session, store, local, outside, unsaved, alone>>

Step(c) ==
  \/ SkipSync(c) \/ BeginSync(c) \/ Harvest(c) \/ Compare(c)
  \/ Write(c) \/ WriteFails(c) \/ Restore(c) \/ RestoreFails(c) \/ FilesDone(c)
  \/ SyncMirror(c) \/ Choose(c) \/ NothingToSwitchTo(c) \/ LockSwitch(c) \/ LockNext(c)
  \/ SetSecure(c) \/ SetSecureFails(c) \/ Switched(c) \/ SecureFails(c) \/ RestoreSecure(c)
  \/ LogOut(c) \/ RemoveFile(c) \/ RemoveFails(c) \/ LoggedOut(c) \/ Cleared(c)
  \/ BeginLogin(c) \/ SaveFound(c) \/ ClearForLogin(c) \/ LoggedIn(c) \/ GiveUp(c)

AllEnded == (\A c \in Commands : pc[c] \in Final) /\ UNCHANGED vars

Next ==
  \/ /\ \/ \E c \in Commands : Step(c) \/ AgyLogin(c) \/ Crash(c)
        \/ AgyRefresh \/ AgySignIn \/ AgySignOut \/ QuotaRefresh
     /\ UNCHANGED platform
  \/ AllEnded

Spec == Init /\ [][Next]_vars

\* The system schedules every command that can run.  Nobody has to answer the
\* questions of a login; once agy is started it times out.
Runs(c) == pc[c] # "prompt" /\ Step(c) /\ UNCHANGED platform

FairSpec == Spec /\ \A c \in Commands : WF_vars(Runs(c))

-----------------------------------------------------------------------------
(* Properties *)

\* When a command has written the session and nobody but agy-swap has touched
\* it meanwhile, all programs are signed in to the account it wrote, with the
\* same token: no two commands write at a time, and what a command that died
\* halfway has left is replaced as a whole.
SurfacesAgree ==
  \A c \in Commands :
    pc[c] \in {"syncWrite", "write"} /\ todo[c] = {} /\ alone =>
      active = token[c].owner /\ \A f \in Files : surface[f] = token[c]

\* Where Antigravity leaves the files alone meanwhile, a reconciliation gives up a
\* token in a file only when a newer one of the same account, or the same, is in
\* the vault or is what it writes.  It never gives up one of an account that is not
\* saved.  What can be lost is the refreshed token of another saved account than
\* the one it writes, and only if saving that has failed (nobody looks at the
\* errors of saveAccountSecret and Save there).
SyncLosesNoToken ==
  [][\A c \in Commands, f \in Files :
       pc[c] = "syncWrite" /\ pc'[c] = "syncWrite" /\ alone /\ surface'[f] # surface[f] =>
         LET lost == surface[f] IN
         \/ lost = None
         \/ /\ lost.owner \in saved
            /\ \/ lost.age <= vault[lost.owner]
               \/ lost.owner = token[c].owner /\ lost.age <= token[c].age
               \/ lost.owner \in unsaved \ {token[c].owner}]_vars

\* An account that was chosen stays the active one until somebody switches,
\* logs in or logs out, whatever Antigravity writes into the token files.
ChoiceStays ==
  [][active \notin {None, active'} =>
       \E c \in Commands : lock = c /\ kind[c] # "reconcile" /\ pc[c] \notin
         {"harvest", "compare", "syncWrite", "syncRestore", "syncMirror"}]_vars

\* A switch that fails and a login that is cancelled, times out or meets an
\* account to verify leave the files as they were, and the OS store where that
\* has the session.
FailureRestores ==
  [][\A c \in Commands :
       pc[c] = "restoreSecure" /\ pc'[c] = "failed" /\ alone' =>
         /\ surface' = seen[c].surface /\ active' = seen[c].active
         /\ FileStore \/ keyring' = seen[c].keyring]_vars

\* Every command ends and lets go of the session lock, unless a login keeps that
\* lock because nobody answers its questions, which have no time-out.  A command
\* that only reconciles does not wait for that either: it tries the lock once.
CommandsEnd ==
  \A c \in Commands :
    \/ <>(pc[c] \in Final /\ lock # c)
    \/ \E d \in Commands : <>[](pc[d] = "prompt" /\ (c = d \/ kind[c] # "reconcile"))

\* What is expected of the copy in the OS store, which the IDE reads: a failed
\* login leaves it as it was.
FailedLoginKeepsMirror ==
  \A c \in Commands :
    kind[c] = "login" /\ pc[c] = "failed" /\ alone => keyring = seen[c].keyring
=============================================================================
