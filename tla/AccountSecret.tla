--------------------------- MODULE AccountSecret ---------------------------
(***************************************************************************)
(* Where the token of one account is kept (src/internal/app/vault.go): in  *)
(* the vault file, in the operating system's credential store when the     *)
(* vault is a hybrid of both, or in accounts.json itself.  accounts.json   *)
(* names the vault entry, the vault has a lock of its own, and nothing     *)
(* makes a change of both atomic.                                          *)
(*                                                                         *)
(* Every process is one command in one of these roles: "add" (login and    *)
(* token import), "refresh" (quota), "harvest" (reconcile), "migrate",     *)
(* "remove", "import" (a backup), "read" (anything that uses the token).   *)
(*                                                                         *)
(* accounts.json is the atomic document that AtomicStore specifies: a save *)
(* or an import's commit is one step, and an import that dies before that  *)
(* has changed nothing.  Tokens are numbered in the order they were        *)
(* issued.                                                                 *)
(***************************************************************************)
EXTENDS Naturals, FiniteSets

CONSTANTS
  Proc,        \* the commands; an import's vault entry is named after it
  Roles,       \* the roles they may have
  MaxMishaps   \* bound: how many commands die and writes fail

AllRoles == {"add", "refresh", "harvest", "migrate", "remove", "import", "read"}

\* The entry named after the account, one left by an older version or an
\* earlier import, and one per import.
Refs == {"account", "old"} \cup Proc
NoRef == "none"
NoToken == 0

ASSUME Parameters ==
  /\ Roles \subseteq AllRoles
  /\ MaxMishaps \in Nat
  /\ Proc \cap {"account", "old", NoRef} = {}

\* secret_ref and token_data of the account.  Without either it is not there:
\* accounts that never had a token are left out.
Account == [ref: Refs \cup {NoRef}, plain: Nat]
NoAccount == [ref |-> NoRef, plain |-> NoToken]
InVault(r) == [ref |-> r, plain |-> NoToken]
Plaintext(t) == [ref |-> NoRef, plain |-> t]

VARIABLES
  hybrid,      \* whether the vault falls back to the OS credential store
  file,        \* the entries of vault.json
  os,          \* the entries of the OS credential store
  account,     \* the account in accounts.json
  revision,    \* how often accounts.json was replaced
  importing,   \* the import that holds the accounts lock, as a set
  role, pc,
  memory,      \* the account and revision each command has loaded
  token,       \* the token it is about to save
  found,       \* the token it has read
  entry,       \* the vault entry it looks up or is to delete
  issued,      \* the last token issued
  mishaps,
  acked        \* the token of the last save that was reported as done

vault == <<file, os>>
saved == <<account, revision, acked>>
local == <<role, memory, token, found, entry>>
vars == <<hybrid, vault, saved, importing, pc, local, issued, mishaps>>

Final == {"done", "failed", "missing", "crashed"}
Labels == Final \cup
  {"start", "load", "get", "getOS", "promote", "found", "set", "setOS", "save",
   "delete", "deleteOS", "unstage"}

Empty == [r \in Refs |-> NoToken]
With(r, t) == [Empty EXCEPT ![r] = t]

\* No account yet, one with a plaintext token, or one whose token is in the
\* vault file or, from an older version, in the OS store.
Init ==
  /\ hybrid \in BOOLEAN
  /\ \/ account = NoAccount /\ file = Empty /\ os = Empty
     \/ account = Plaintext(1) /\ file = Empty /\ os = Empty
     \/ \E r \in {"account", "old"} :
          /\ account = InVault(r)
          /\ \/ file = With(r, 1) /\ os = Empty
             \/ hybrid /\ file = Empty /\ os = With(r, 1)
  /\ revision = 0
  /\ importing = {}
  /\ role \in [Proc -> Roles]
  /\ pc = [p \in Proc |-> "start"]
  /\ memory = [p \in Proc |-> [account |-> NoAccount, revision |-> 0]]
  /\ token = [p \in Proc |-> NoToken]
  /\ found = [p \in Proc |-> NoToken]
  /\ entry = [p \in Proc |-> NoRef]
  /\ issued = 1
  /\ mishaps = 0
  /\ acked = IF account = NoAccount THEN NoToken ELSE 1

-----------------------------------------------------------------------------
(* Parts of steps *)

At(p, label) == pc[p] = label
Goto(p, label) == pc' = [pc EXCEPT ![p] = label]

Mishap == mishaps < MaxMishaps /\ mishaps' = mishaps + 1

Put(store, r, t) == [store EXCEPT ![r] = t]

\* The account in memory, and the replaced entry to delete once it is saved.
Remember(p, new, replaced) ==
  /\ memory' = [memory EXCEPT ![p].account = new]
  /\ entry' = [entry EXCEPT ![p] = replaced]

\* The roles that look up the saved token.
Reading(p) == role[p] \in {"refresh", "harvest", "read"}

\* saveAccountSecret writes the entry named after the account, an import one of
\* its own.
Target(p) == IF role[p] = "import" THEN p ELSE "account"

\* The entry saveAccountSecret returns for deletion.
Replaced(p) ==
  IF role[p] = "import" \/ memory[p].account.ref = Target(p)
    THEN NoRef ELSE memory[p].account.ref

-----------------------------------------------------------------------------
(* Loading the account *)

\* A login, a backup file or the session file hands over a token; the others
\* start from what is saved.
Start(p) ==
  /\ At(p, "start")
  /\ IF role[p] \in {"add", "import", "harvest"}
       THEN issued' = issued + 1 /\ token' = [token EXCEPT ![p] = issued + 1]
       ELSE UNCHANGED <<issued, token>>
  /\ Goto(p, "load")
  /\ UNCHANGED <<vault, saved, importing, role, memory, found, entry, mishaps>>

\* What a command does with the account it has loaded.
AfterLoad(p) ==
  IF role[p] \in {"add", "import"} THEN "set"
  ELSE IF account = NoAccount THEN "done"
  ELSE IF Reading(p) THEN IF account.ref = NoRef THEN "found" ELSE "get"
  ELSE IF role[p] = "migrate" /\ account.plain # NoToken THEN "set"
  ELSE "save"

\* The accounts lock is free, and an import keeps it.
Load(p) ==
  /\ At(p, "load")
  /\ importing = {}
  /\ importing' = IF role[p] = "import" THEN {p} ELSE {}
  /\ memory' = [memory EXCEPT ![p] =
       [account |-> IF role[p] = "remove" THEN NoAccount ELSE account,
        revision |-> revision]]
  /\ token' = [token EXCEPT ![p] = IF role[p] = "migrate" THEN account.plain ELSE @]
  /\ found' = [found EXCEPT ![p] = account.plain]
  /\ entry' = [entry EXCEPT ![p] =
       IF role[p] = "remove" \/ Reading(p) THEN account.ref ELSE NoRef]
  /\ Goto(p, AfterLoad(p))
  /\ UNCHANGED <<vault, saved, role, issued, mishaps>>

-----------------------------------------------------------------------------
(* accountToken: AccountVault.Get of the account's entry *)

\* Faulty: only the entry the account names is tried.
NextEntryNone(p) == IF hybrid /\ At(p, "get") THEN "getOS" ELSE "missing"

\* After the vault file the OS store is asked; after an entry that is gone, the
\* one named after the account.
NextEntry(p) ==
  IF hybrid /\ At(p, "get") THEN "getOS"
  ELSE IF entry[p] # "account" THEN "get"
  ELSE "missing"

Get(p) ==
  /\ At(p, "get")
  /\ file[entry[p]] # NoToken
  /\ found' = [found EXCEPT ![p] = file[entry[p]]]
  /\ Goto(p, "found")
  /\ UNCHANGED <<vault, saved, importing, role, memory, token, entry, issued, mishaps>>

GetOS(p) ==
  /\ At(p, "getOS")
  /\ os[entry[p]] # NoToken
  /\ found' = [found EXCEPT ![p] = os[entry[p]]]
  /\ Goto(p, "promote")
  /\ UNCHANGED <<vault, saved, importing, role, memory, token, entry, issued, mishaps>>

\* A refresh that finds no token fails, a harvest takes the one it has.
GetMisses(p) ==
  /\ \/ At(p, "get") /\ file[entry[p]] = NoToken
     \/ At(p, "getOS") /\ os[entry[p]] = NoToken
  /\ entry' = [entry EXCEPT ![p] = IF NextEntry(p) = "get" THEN "account" ELSE @]
  /\ Goto(p, IF NextEntry(p) = "missing" /\ role[p] = "harvest" THEN "set"
             ELSE NextEntry(p))
  /\ UNCHANGED <<vault, saved, importing, role, memory, token, found, issued, mishaps>>

\* hybridVault.Get copies what it finds in the OS store to the vault file.
Promote(p) ==
  /\ At(p, "promote")
  /\ file' = Put(file, entry[p], found[p])
  /\ Goto(p, "found")
  /\ UNCHANGED <<os, saved, importing, local, issued, mishaps>>

Use(p) ==
  /\ At(p, "found")
  /\ role[p] = "read"
  /\ Goto(p, "done")
  /\ UNCHANGED <<vault, saved, importing, local, issued, mishaps>>

\* Fetch keeps a refreshed token in the account and drops its reference.
Refresh(p) ==
  /\ At(p, "found")
  /\ role[p] = "refresh"
  /\ issued' = issued + 1
  /\ token' = [token EXCEPT ![p] = issued + 1]
  /\ Remember(p, Plaintext(issued + 1), NoRef)
  /\ Goto(p, "set")
  /\ UNCHANGED <<vault, saved, importing, role, found, mishaps>>

\* The token is still valid: only the quota snapshot is saved.
StillValid(p) ==
  /\ At(p, "found")
  /\ role[p] = "refresh"
  /\ entry' = [entry EXCEPT ![p] = NoRef]
  /\ Goto(p, "save")
  /\ UNCHANGED <<vault, saved, importing, role, memory, token, found, issued, mishaps>>

\* shouldHarvestToken: another token than the saved one, and not one that
\* expires earlier.  Expiry is not always known.
Harvest(p) ==
  /\ At(p, "found")
  /\ role[p] = "harvest"
  /\ \/ Goto(p, "set")
     \/ token[p] < found[p] /\ Goto(p, "done")
  /\ UNCHANGED <<vault, saved, importing, local, issued, mishaps>>

-----------------------------------------------------------------------------
(* saveAccountSecret, or an import's staging, and the save that follows *)

\* Faulty: an entry that is there is not written again.
SetOnlyNew(p) ==
  /\ At(p, "set")
  /\ file' = IF file[Target(p)] = NoToken THEN Put(file, Target(p), token[p]) ELSE file
  /\ Remember(p, InVault(Target(p)), Replaced(p))
  /\ Goto(p, IF hybrid THEN "setOS" ELSE "save")
  /\ UNCHANGED <<os, saved, importing, role, token, found, issued, mishaps>>

\* AccountVault.Set; a hybrid vault then deletes the OS copy.
Set(p) ==
  /\ At(p, "set")
  /\ file' = Put(file, Target(p), token[p])
  /\ Remember(p, InVault(Target(p)), Replaced(p))
  /\ Goto(p, IF hybrid THEN "setOS" ELSE "save")
  /\ UNCHANGED <<os, saved, importing, role, token, found, issued, mishaps>>

\* Faulty: the account refers to the entry although it could not be written.
SetFailsUnnoticed(p) ==
  /\ At(p, "set")
  /\ Mishap
  /\ Remember(p, InVault(Target(p)), NoRef)
  /\ Goto(p, "save")
  /\ UNCHANGED <<vault, saved, importing, role, token, found, issued>>

\* The token stays in accounts.json.
SetFails(p) ==
  /\ At(p, "set")
  /\ Mishap
  /\ Remember(p, Plaintext(token[p]), NoRef)
  /\ Goto(p, "save")
  /\ UNCHANGED <<vault, saved, importing, role, token, found, issued>>

SetOS(p) ==
  /\ At(p, "setOS")
  /\ os' = Put(os, Target(p), NoToken)
  /\ Goto(p, "save")
  /\ UNCHANGED <<file, saved, importing, local, issued, mishaps>>

\* Faulty: a save does not look whether the accounts have changed.
CurrentAnyway(p) == TRUE

Current(p) == memory[p].revision = revision

\* Faulty: the replaced entry is deleted although the save failed.
SaveFailsAndDeletes(p) ==
  /\ At(p, "save")
  /\ importing = {} /\ ~Current(p) /\ UNCHANGED mishaps
  /\ Goto(p, IF entry[p] = NoRef THEN "failed" ELSE "delete")
  /\ UNCHANGED <<vault, saved, importing, local, issued>>

\* The other commands wait for an import's lock.
Save(p) ==
  /\ At(p, "save")
  /\ importing \subseteq {p}
  /\ Current(p)
  /\ account' = memory[p].account
  /\ revision' = revision + 1
  /\ acked' = CASE role[p] = "remove" -> NoToken
                [] token[p] = NoToken -> acked
                [] OTHER -> token[p]
  /\ importing' = {}
  /\ Goto(p, IF entry[p] = NoRef THEN "done" ELSE "delete")
  /\ UNCHANGED <<vault, local, issued, mishaps>>

\* The accounts have changed since they were loaded, or they cannot be written;
\* an import takes back what it staged.
SaveFails(p) ==
  /\ At(p, "save")
  /\ \/ importing = {} /\ ~Current(p) /\ UNCHANGED mishaps
     \/ importing \subseteq {p} /\ Mishap
  /\ Goto(p, IF role[p] = "import" THEN "unstage" ELSE "failed")
  /\ UNCHANGED <<vault, saved, importing, local, issued>>

\* The user interrupts an import.
Interrupt(p) ==
  /\ At(p, "set")
  /\ role[p] = "import"
  /\ Goto(p, "unstage")
  /\ UNCHANGED <<vault, saved, importing, local, issued, mishaps>>

\* The rollback of an import deletes its entry from the vault.
Unstage(p) ==
  /\ At(p, "unstage")
  /\ file' = Put(file, p, NoToken)
  /\ os' = IF hybrid THEN Put(os, p, NoToken) ELSE os
  /\ importing' = {}
  /\ Goto(p, "failed")
  /\ UNCHANGED <<saved, local, issued, mishaps>>

-----------------------------------------------------------------------------
(* deleteReplacedSecrets, or the entry of a removed account *)

Delete(p) ==
  /\ At(p, "delete")
  /\ file' = Put(file, entry[p], NoToken)
  /\ Goto(p, IF hybrid THEN "deleteOS" ELSE "done")
  /\ UNCHANGED <<os, saved, importing, local, issued, mishaps>>

DeleteOS(p) ==
  /\ At(p, "deleteOS")
  /\ os' = Put(os, entry[p], NoToken)
  /\ Goto(p, "done")
  /\ UNCHANGED <<file, saved, importing, local, issued, mishaps>>

\* Nobody looks at whether the vault could delete or promote an entry.
VaultFails(p) ==
  /\ Mishap
  /\ \/ At(p, "delete") /\ Goto(p, IF hybrid THEN "deleteOS" ELSE "done")
     \/ At(p, "deleteOS") /\ Goto(p, "done")
     \/ At(p, "setOS") /\ Goto(p, "save")
     \/ At(p, "promote") /\ Goto(p, "found")
  /\ UNCHANGED <<vault, saved, importing, local, issued>>

-----------------------------------------------------------------------------

\* A command dies wherever it is, and the system drops its lock.
Crash(p) ==
  /\ pc[p] \notin Final
  /\ Mishap
  /\ importing' = importing \ {p}
  /\ Goto(p, "crashed")
  /\ UNCHANGED <<vault, saved, local, issued>>

Step(p) ==
  \/ Start(p) \/ Load(p)
  \/ Get(p) \/ GetOS(p) \/ GetMisses(p) \/ Promote(p)
  \/ Use(p) \/ Refresh(p) \/ StillValid(p) \/ Harvest(p)
  \/ Set(p) \/ SetFails(p) \/ SetOS(p)
  \/ Save(p) \/ SaveFails(p) \/ Interrupt(p) \/ Unstage(p)
  \/ Delete(p) \/ DeleteOS(p) \/ VaultFails(p)

AllEnded == (\A p \in Proc : pc[p] \in Final) /\ UNCHANGED vars

\* The configuration of the vault does not change while commands run.
Next ==
  \/ (\E p \in Proc : Step(p) \/ Crash(p)) /\ UNCHANGED hybrid
  \/ AllEnded

Spec == Init /\ [][Next]_vars

-----------------------------------------------------------------------------
(* Properties *)

\* Every variable has its type.
TypeOK ==
  /\ file \in [Refs -> Nat]
  /\ os \in [Refs -> Nat]
  /\ account \in Account
  /\ revision \in Nat
  /\ importing \in SUBSET Proc
  /\ role \in [Proc -> Roles]
  /\ pc \in [Proc -> Labels]
  /\ memory \in [Proc -> [account: Account, revision: Nat]]
  /\ token \in [Proc -> Nat]
  /\ found \in [Proc -> Nat]
  /\ entry \in [Proc -> Refs \cup {NoRef}]
  /\ issued \in Nat
  /\ mishaps \in 0..MaxMishaps
  /\ acked \in Nat

Held(r) == IF file[r] # NoToken THEN file[r] ELSE os[r]

\* The token a command finds that reads the account undisturbed.
TokenOf(a) ==
  IF a.ref = NoRef THEN a.plain
  ELSE IF Held(a.ref) # NoToken THEN Held(a.ref)
  ELSE Held("account")

NoRemoval == \A p \in Proc : role[p] # "remove"

\* What CHANGELOG promises of the shared vault, removals included.
SavedTokenKept == account # NoAccount => TokenOf(account) # NoToken

\* Wherever commands that save tokens are interrupted, die, fail to write or
\* overtake each other, the account in accounts.json leads to a token: no vault
\* entry goes before what replaces it is both in the vault and referred to.
SavedTokenReadable == NoRemoval => SavedTokenKept

\* A command that has loaded the account finds its token in the vault file,
\* even when other commands have moved it since.
ReadersFindToken ==
  NoRemoval /\ ~hybrid => \A p \in Proc : pc[p] # "missing"

\* The entry the saved account refers to is never deleted: a replaced entry is
\* given up only by a command whose save went through.
ReferredEntryStays ==
  [][\A r \in Refs : NoRemoval /\ account.ref = r /\ Held(r) # NoToken
       => Held(r)' # NoToken]_vars

\* A removed account comes back only through a command that saw it was gone,
\* never through one that still had it in memory.
RemovedStaysRemoved ==
  [][account = NoAccount /\ account' # NoAccount =>
       \E p \in Proc : pc[p] = "save" /\ pc'[p] # "save" /\ role[p] \in {"add", "import"}]_vars

\* When all commands succeed, the account leads to the token of the last save
\* that was reported as done, in whatever order they wrote to the vault file.
LastSavedTokenWins ==
  NoRemoval /\ ~hybrid /\ (\A p \in Proc : pc[p] = "done") => TokenOf(account) = acked

-----------------------------------------------------------------------------
(* The invariant SavedTokenReadable is proved from; it holds when no command *)
(* removes the account                                                       *)

InTheVault(r) == file[r] # NoToken \/ os[r] # NoToken

\* What accountToken tries is there.
Resolves(a) == a.ref = NoRef \/ InTheVault(a.ref) \/ InTheVault("account")

\* Commands hold a token when they need one.
TokensInHand ==
  \A p \in Proc :
    /\ role[p] \in {"add", "import", "harvest"} /\ pc[p] \notin {"start", "crashed"}
         => token[p] # NoToken
    /\ pc[p] = "set" => token[p] # NoToken
    /\ pc[p] \in {"get", "getOS", "promote", "delete", "deleteOS"} => entry[p] \in Refs
    /\ pc[p] = "promote" => found[p] # NoToken

\* An import's entry is known to nobody else before the import is saved, and
\* the others have none of their own.
Unpublished ==
  \A p \in Proc :
    \/ role[p] # "import"
    \/ pc[p] \in {"start", "load", "set", "setOS", "save", "unstage"}
    => /\ account.ref # p
       /\ \A q \in Proc : entry[q] # p /\ (memory[q].account.ref = p => q = p /\ role[p] = "import")

\* What a command saves can be read, and what it deletes has been replaced.
Replaceable ==
  \A p \in Proc :
    /\ pc[p] \in {"get", "getOS", "promote", "found", "setOS", "save"}
         => Resolves(memory[p].account)
    /\ pc[p] = "setOS" => file[Target(p)] # NoToken
    /\ pc[p] \in {"setOS", "save", "delete", "deleteOS"} /\ entry[p] # NoRef
         => entry[p] # "account" /\ InTheVault("account")
    /\ pc[p] = "unstage" => role[p] = "import"

\* The inductive invariant.
SecretInv ==
  /\ TypeOK
  /\ Resolves(account)
  /\ TokensInHand
  /\ Unpublished
  /\ Replaceable

-----------------------------------------------------------------------------
(* The invariants the other theorems are proved from; the first holds with   *)
(* removals, the others when no command removes the account                  *)

\* A command that goes on with an account it found has seen it: if the accounts
\* are still the ones it loaded, the account is there.
Seen ==
  \A p \in Proc :
    /\ memory[p].revision <= revision
    /\ pc[p] \in {"get", "getOS", "promote", "found", "set", "setOS", "save"} =>
         /\ role[p] = "remove" => pc[p] = "save" /\ memory[p].account = NoAccount
         /\ role[p] \notin {"add", "import", "remove"} /\ Current(p) => account # NoAccount

\* A command whose save will go through has the saved account in memory, or
\* what it changed of it.
Remembered ==
  \A p \in Proc :
    /\ role[p] = "refresh" /\ pc[p] \in {"start", "load", "get", "getOS", "promote", "found"}
         => token[p] = NoToken
    /\ pc[p] \in {"get", "getOS", "promote", "found"} /\ Current(p) => memory[p].account = account
    /\ pc[p] = "set" /\ Current(p) => memory[p].account.ref \in {account.ref, NoRef}
    /\ pc[p] \in {"setOS", "save"} =>
         \/ /\ token[p] = NoToken /\ entry[p] = NoRef
            /\ Current(p) => memory[p].account = account
         \/ /\ token[p] # NoToken /\ memory[p].account = Plaintext(token[p])
            /\ entry[p] = NoRef
         \/ /\ token[p] # NoToken /\ memory[p].account = InVault(Target(p))
            /\ file[Target(p)] # NoToken /\ entry[p] # Target(p)

\* The saved account's entry holds a token, and nobody is to delete it.
Referred ==
  /\ account.ref # NoRef => Held(account.ref) # NoToken
  /\ \A p \in Proc : pc[p] \in {"delete", "deleteOS"} => entry[p] # account.ref

\* A command that looks for a token looks where there is or was one.
Looking ==
  \A p \in Proc : pc[p] \in {"get", "getOS", "promote"} =>
    /\ entry[p] \in {memory[p].account.ref, "account"}
    /\ entry[p] = "account" => InTheVault("account")
    /\ pc[p] = "getOS" => os[entry[p]] # NoToken \/ InTheVault("account")

\* A vault that is a file only never uses the OS store.
FileOnly ==
  ~hybrid => os = Empty /\ \A p \in Proc : pc[p] \notin {"getOS", "promote", "setOS", "deleteOS"}

\* A command that cannot end as done any more.
Doomed(p) ==
  \/ pc[p] \in {"failed", "crashed", "missing", "unstage"}
  \/ pc[p] \in {"set", "setOS", "save"} /\ ~Current(p)

\* A command that has put its token into the account's entry and has yet to save.
Written(p) == pc[p] = "save" /\ token[p] # NoToken /\ memory[p].account = InVault("account")

\* Between saves the entry of the account holds the token of the last save;
\* before one, that of the command that is about to save.  When two are, the
\* save of one dooms the other.
LastWriterSaves ==
  /\ ~hybrid => \A p \in Proc :
       pc[p] = "save" /\ role[p] = "import" /\ memory[p].account.ref = p => file[p] = token[p]
  /\ ~hybrid /\ (\A p \in Proc : ~Doomed(p)) =>
       /\ (\A p \in Proc : ~Written(p)) => TokenOf(account) = acked
       /\ \A p \in Proc : Written(p) =>
            file["account"] = token[p] \/ \E q \in Proc \ {p} : Written(q)

\* The inductive invariants: with removals, and without.
RemovalInv ==
  /\ TypeOK
  /\ TokensInHand
  /\ Seen

TokenInv ==
  /\ SecretInv
  /\ Seen
  /\ Remembered
  /\ Referred
  /\ Looking
  /\ FileOnly
  /\ LastWriterSaves
=============================================================================
