# Verification of agy-swap

agy-swap keeps several Google accounts of the Antigravity CLI (`agy`) and IDE on
one machine: it saves their OAuth tokens, tracks their quotas and switches the
active session between them. Every invocation is a process of its own. Commands,
a full-screen UI, a `watch` loop, the launcher wrapper around `agy` and the IDE
itself all work on the same few files, so what is hard about the program is what
happens between processes: stale loads, crashes between two writes, and
programs that write the same file without knowing of each other.

Source paths below are relative to `src/`.

## Inventory

| Component | State it keeps | Operations | Interacts through | Hard part |
|---|---|---|---|---|
| Account store (`internal/app/store.go`, `internal/store/`) | `accounts.json`, its `.bak`, a lock file, a revision (mtime and hash) in memory | `Load`, `Save` | files and advisory locks | optimistic concurrency, mtime granularity, crash between backup and write |
| Backup import (`backup_service.go`) | restore journal | `importBackup`, `recoverRestore` | both locks, vault | two documents as one, recovery by whoever comes next |
| Settings (`settings.go`) | `config.json` | `LoadSettings`, `SaveSettings`, `config`, `alias`, `tag`, `profile`, `bind`, `target`, the dashboard's forms | own lock, journal | stale saves, defaults and refusals, unchecked resets |
| Vault (`vault.go`) | `vault.json`, the OS credential store | `Get`, `Set`, `Delete`, `saveAccountSecret`, `migrateVaultAccounts` | `secret_ref` in `accounts.json` | two stores without a common lock, order of vault and document |
| Active session (`credentials.go`, `session_guard.go`) | three OAuth token files, `google_accounts.json`, OS keyring, hub marker | `Apply`, `Clear`, `reconcileActiveSession` | session lock; `agy` and the IDE write the token files without it | lost refreshed tokens, half-switched surfaces |
| Login (`cli.go`, `oauth.go`) | the session while it is borrowed | `addLoginFlow`, token refresh | session lock, child process | time-out, restore of the previous session |
| Quota (`quota.go`, `quota_schedule.go`, `pools.go`) | quota snapshots in accounts, back-off in memory | refresh of all accounts | HTTP, account store | concurrent workers, one save, conflicts |
| Eligibility (`eligibility.go`) | a verdict per account | record, clear | quota refresh, switching | a network error must not change a verdict |
| Choosing commands (`cli.go`, `extended.go`, `run.go`) | what a command has loaded | `next`, `recommend`, `run now`, `switch`, `limit`, `remove`, `list` | accounts, settings, session | stale snapshots, failed reads, going round all accounts |
| History (`history.go`) | `history.jsonl` | append, trim, clear | own lock | a kill in the middle of a line |
| Watch (`history.go`) | notification state | read, tell, save | quotas in accounts | repeated and missed notifications |
| Updater (`updater.go`) | the program, its `.bak` | fetch, check, replace, roll back, finalize, Homebrew | rename, helper process | a kill between two renames |
| `agy` installer and guard (`agy_installer.go`, `session_guard.go`) | the `agy` command and the program behind it | install, relocate, wrap | renames, `agy` updates itself | the command must never be missing |
| Hub launcher (`session_guard.go`, `credentials.go`) | reload marker, the running hub | mark, stop, restart | a shell script and the session lock | order of marker and stop |
| Log scanner (`logs.go`) | evidence and cache per log file | incremental scan | files `agy` appends to | growth and replacement during a scan, requests under way together |
| Terminal UI (`tui*.go`) | what is shown, background jobs, dialogs, one queue of events | keys, pointer, timers, results | all of the above | late results, dialogs over a changing list, a shared keyboard |
| Diagnostics, backup format, paths, drawing, demo, release tooling | | | | read, convert or print only |

## Plan

The order is that of what a user would miss most: saved accounts, their tokens, the
active session; then what decides where to switch; then the rest.

| Step | Modules | Composes or implements | State |
|---|---|---|---|
| 1 | `AtomicStore`, `AccountStore` | `AccountStore` implements `AtomicStore` | checked, proved |
| 2 | `AccountSecret` | takes `accounts.json` as the atomic document of `AtomicStore` | checked, proved |
| 3 | `Session` | takes the vault as `AccountSecret` describes it | checked, proved |
| 4 | `QuotaRefresh`: workers, remembered projects, one save, conflicts (`quota.go`, `eligibility.go`) | the same document | checked, proved |
| 5 | `Settings`, `AccountChoice` | read what `QuotaRefresh` leaves | checked, proved |
| 6 | `AgyInstall`, `HubLauncher` | the wrapper around `agy` and around the IDE's hub | checked, proved |
| 7 | `Updater` | | checked, proved |
| 8 | `History`, `Watch` | | checked, proved |
| 9 | `LogScan` | feeds the log sync of `AccountStore` | checked, proved |
| 10 | `Terminal`, `Views` | the event loop, and what the user sees and presses | checked, proved |
| 11 | `ProgramProofs`, `RecordProofs`, `InterfaceProofs`: theorems about steps 5 to 10 | | proved |
| 12 | two guards, two updates, two watchers at a time | what is left there is under Observations | partly |

The modules of steps 5 to 10 are small machines that do not share state with each other
in the code, or share it in the way the modules of steps 1 to 4 describe. So they share
two runs: `MCMachines` and `MCChoices` extend them, a variable `machine` says which one
runs, and the others stay in an initial state with nothing to do. Each machine keeps its
own variables, Init and Next.

Abstract specifications: `AtomicStore` is one; `Settings` states what a second could say
(every edit takes effect on what is saved) as the action property `OtherEditsStay`, and
`LogScan` compares the cache with a scan of the whole file. Worth stating later: a
session of one account that changes in one step.

Theorems worth proving: every safety and action property the passing runs check. Done;
what stays with TLC is under What is proved.

## The account store

`AtomicStore` is the promise: accounts and settings are two documents, every
command changes one of them in one instant or not at all, and an import changes
both in the same instant.

`AccountStore` is the code. A process is one command. Its program counter follows
the calls of the code: `recoverRestore` (`stat`, `lockAccounts`, `lockSettings`,
`recoverRead`, `restore`, `removeJournal`), then `Load`/`Save` for an editor,
`LoadSettings`/`SaveSettings` for a settings writer, the body of `importBackup` for
an importer. A step is one change to what the commands share; what is only read
while a lock is held is part of the step that takes the lock.

* A document is the set of edits it reflects. Two contents with the same edits have
  the same hash. An edit is a pair of a command and whether it is the command's own
  change or its log sync.
* A modification time is a tick of `clock`; two writes may fall into one tick, which
  is what the content hash in `saveUnlocked` is for. `RestoreFiles` goes through a Go
  map, so the restore order is chosen freely.
* A command may die at every step (its locks are released by the system) and every
  write may fail. A write that is reported as failed is taken to have changed
  nothing (`AtomicWrite` can also fail in the `chmod` after its rename; with respect
  to the other commands that is a crash right after the write, which is modelled,
  except for the commit mark of an import).
* `acked`, `overJournal` and `committed` are history variables of the properties.

`SettingsWriters` with `mode.replace` are `config reset`, whose save is not compared with
anything. `validateAccounts` and quota migration are not modelled: they decide whether a
command starts or what an edit is, not what happens to it; the values of settings are in
`Settings`.

### Runs

| Run | Instance | Shows |
|---|---|---|
| `Store` | two editors, editor and import, settings writer and import, each pair with two mishaps; one of each kind together with none | `NoLostEdit`, `NoUncommittedTrace`, `ImportHoldsLocks`, `RecoveryIsComplete`, `SaveKeepsPrevious`; `AccountStore` implements `AtomicStore` (`TakesEffectAtOnce`); every command ends (`CommandsEnd`) |
| `StoreReads` | editor, importer | the violation described under Findings |

Bounds. The casts of `MCCasts` are the ways in which commands meet: two editors meet in
the revision check, an import leaves a journal that another command recovers, and
three together have one that saves a document it loaded before both others. Two mishaps
are an import that dies and a recovery that fails. With one tick of the clock all writes
have the same modification time, the hardest case for the revision check, where only
the hash decides.

Fairness. `Fairness` is weak fairness of every command: the operating system
schedules a process that can run, and `flock` wakes a waiter when the lock is free.
Weak fairness suffices for locks because every holder ends and nobody restarts:
a command takes each lock a bounded number of times.

### Theorems (`AccountStoreProofs`)

For any sets of commands and any bounds, from the assumptions `Commands`,
`AbsentIsNoContent` and `Bounds` of `AccountStore`:

* `Invariant`: `Spec => []IInv` (`IInv` is proved, and not part of a run)
* `TypeCorrect`, `AcknowledgedEditsStay` (`NoLostEdit`), `ImportsExclude`
  (`ImportHoldsLocks`), `RecoveriesComplete` (the action property
  `RecoveryIsComplete`)
* `UncommittedImportsVanish` (`NoUncommittedTrace`) and `ReplacedAccountsAreKept`
  (the action property `SaveKeepsPrevious`)
* `ImplementsAtomicStore`: `Spec => TakesEffectAtOnce`, the refinement of `AtomicStore`.

`NoLostEdit` is not inductive: that an editor's write keeps all acknowledged edits
needs to know that what it has in memory extends the file it replaces (`Loaded`,
`Saving`), which needs that nobody else can write in between (`Locks`); that a
recovery keeps them needs to know how far a dead import has taken the files from its
journal (`Importing`, `Restoring`). `AccountStoreInvariant` states these parts, and
`AccountStoreProofs` has one lemma for each part with one step per action.

The last three rest on a second invariant, `SaveInv`, proved on top of the first. `Exact`
says of an import and a recovery not only which edits the files have, but which files
are still to be written, whatever order the map gives; `BackedUp` that an editor between
its two writes has put the accounts it replaces into the backup; `Keeping` that what
commands hold in memory has no trace of an import that was not committed. The mapping of
the refinement reads the journal where there is one that is not committed: an import
takes effect with its commit mark, so that each of its writes and each write of a
recovery is a stuttering step, and the write of the mark is the one step that changes
both documents.

`CommandsEnd` is a liveness property, which the prover does not handle.

## The saved token of an account

`AccountSecret` is the way from a saved account to its token: the reference in
`accounts.json`, the entry in `vault.json` or in the OS credential store, or the token
itself in `accounts.json` where no vault is available. It follows one account through
all commands that load, refresh, harvest, add, import, migrate or remove it, because an
entry belongs to one account and what the commands share is its reference.

* `doc` is the account as `accounts.json` has it: saving and its revision check are one
  step, as `AtomicStore` promises. The two writes of a file vault are one step under
  its lock.
* Entries are those of `accountSecretRef` (the same for every save of an account) and
  those of an import (a name of its own). Tokens are numbered in the order they came
  into being. A command is in one of the roles of `Roles`, one for each way through the
  code that touches a token.
* `Get` of the hybrid vault is four steps (file, OS store, promotion, use) since it has
  no lock around them; `Set` of the hybrid vault writes the file and deletes the OS copy.
* A write to the vault or a save may fail and a command may die at every step
  (`MaxMishaps`).

| Run | Instance | Shows |
|---|---|---|
| `SecretTokens` | three commands in all roles but removal with the file vault; with the hybrid vault or a removal one of the three only reads; two mishaps, symmetric | `SavedTokenReadable`, `ReadersFindToken`, `LastSavedTokenWins`, `ReferredEntryStays`, `RemovedStaysRemoved` |
| `SecretAddWhileRemoved` | an adder, a remover, a reader | a violation, see Findings |

Three commands are a reader, a writer that moves the token and a third that moves it
again. `hybrid` is chosen at the beginning and says which vault the machine has.
`SavedTokenKept` says of all roles that the saved account leads to a token;
`SavedTokenReadable` says it where no command removes the account, since a removal can
break it. Two properties are claimed for the file vault only, and without removal. `ReadersFindToken`: a hybrid
`Set` that deletes the OS copy between the two lookups of a `Get` makes that one read fail.
`LastSavedTokenWins`: `hybridVault.Get` (`internal/app/vault.go:188`) copies what it found
in the OS store into the file without looking whether the file has a newer token by
now, so the older token replaces the one a command has saved in between.
`LastSavedTokenWins` is also stated for commands that all succeed: `saveAccountSecret`
overwrites the entry of an account before `accounts.json` is saved
(`internal/app/vault.go:333`), so a save refused because of a conflict has already
replaced the previous secret, where `CHANGELOG.md:497` says that it stays in place.

Left out: the window between an import's journal and its commit, which `AccountStore`
models, and `migrateVaultAccounts`, which only tests call.

### Theorems (`AccountSecretProofs`)

For any commands in any roles and either vault, from the assumption `Parameters`:

* `TokenNeverLost` (`SavedTokenReadable`), `ReferredEntriesStay` (`ReferredEntryStays`),
  `ReadersAlwaysFind` (`ReadersFindToken`) and `LastSaveWins` (`LastSavedTokenWins`); with a
  removal among the commands these properties claim nothing
* `TypesAreKept` (`TypeOK`) and `RemovedAccountsStayAway` (`RemovedStaysRemoved`), with
  removals too.

The invariant `SecretInv` says what each command has in hand: the entry it is about to
refer to is written, and the entry it is about to delete is not the one the account
refers to, now or after any save that can still succeed. `TokenInv` adds what readers
need: every reference that was ever loaded is that of the account now, or the entry
named after the account has a token (`Remembered`, `Referred`), and a read that missed
the first goes on to the second (`Looking`). For the last saved token it adds
`LastWriterSaves`: if the entry of the account has another token than the last save that was
acknowledged, then some command wrote it and has still to save or has failed
(`Written`), unless its save is refused because others saved since it loaded (`Doomed`).
`RemovalInv` is what is left with a removal: what a command loaded is what was saved at
its revision (`Seen`). These invariants are proved and not part of a run.

## The active session

`Session` is the session of the Antigravity programs: a token file for each,
`google_accounts.json` with the name of the active account, and the entry in the OS
store. `platform` says what that entry is: the session itself (`keychain`), a copy of
the session in the files (`mirrored`), or nothing (`files`).

* Every command begins with `reconcileActiveSession` (`SkipSync` to `SyncMirror`) and
  goes on with what it is: nothing, `switch`, `next`, `logout` or the login flow.
* A step is the write of one file or one call of the OS store; what is read in a row
  is read in one step, but reads before and after another step are steps of their
  own: a reconciliation reads the files twice, `switch` reads the token before it takes
  the lock and `next` after.
* A token is its owner and its age. `shouldHarvestToken` compares expiry times, which
  order the tokens of an account by age; two accounts never share a refresh token.
* Antigravity writes the token files without the lock: `AgyRefresh` (in a running
  `agy` that may have been started with another account), `AgySignIn`, `AgySignOut`,
  and `AgyLogin` for a login `agy-swap` has started. `QuotaRefresh` stands for other
  commands that save a newer token.
* Any file write, removal or store call may fail, and commands may die
  (`MaxMishaps`); `restoreFiles` goes on over errors and in any order. In `Harvest` the
  saving of any of the refreshed tokens may fail (`internal/app/session_guard.go:178`
  ignores the errors of `saveAccountSecret` and `store.Save`), and the command goes on
  with what it has in memory; `unsaved` are the accounts concerned.
* `alone` is a history variable: it becomes false when Antigravity interferes or a
  restore or copy fails, and true when a command takes the lock.

| Run | Instance | Shows |
|---|---|---|
| `SessionStates` | two commands of any kind, two accounts, two token files, `mirrored` or `keychain` (there one command only reconciles), Antigravity writes once, one mishap | `SurfacesAgree`, `SyncLosesNoToken`, `ChoiceStays`, `FailureRestores` |
| `SessionEnds` | two commands, one file, one mishap, fair | every command ends and lets go of the lock |
| `SessionMirror` | one login | a violation, see Findings |

`files` differs from `mirrored` only in steps it does not take, so the runs leave it out.

Two files and the accounts file are enough for a session that is half one account's and
half another's; the third token file and `oauth_creds.json` are written in the same
loop. One mishap is the failure of which a command must clean up, or the crash after
which the next one must.

Fairness: every command that can run is scheduled, and the lock wakes its waiters. Nobody
is assumed to answer the questions of a login (`prompt`), which have no time-out though
the login holds the session lock (`internal/app/cli.go:695`, `716`, `738`); the 120
seconds begin when `agy` is started (`wait`), and there `GiveUp` is always possible, so
`agy` is not assumed to answer. `CommandsEnd` says so: a command may go on for ever only
while one login is at its questions, and then it is that login or one that waits for the
lock, never a command that only reconciles, which tries the lock once.

A reconciliation can lose a token: when two saved accounts have newer tokens in the files
than in the vault and the one that is not active could not be saved, the write that
follows overwrites the only copy. `SyncLosesNoToken` allows this one case and no other: the
token of the active account survives a failed save, because it is written from memory.

`SyncLosesNoToken` is about saved accounts. A sign-in to an account that is not saved,
between the reads of a reconciliation and its writes
(`internal/app/session_guard.go:218`), is overwritten, though the comment at line 187
wants such a sign-in left alone: Antigravity takes no lock that could prevent it.

Left out: the marker that makes `agy` use its files, the
IDE's database, and refreshing a token that has expired. The wrappers are in `AgyInstall`
and `HubLauncher`.

### Theorems (`SessionProofs`)

For any accounts, token files and commands, any number of mishaps and of outside writes, on
each platform, from the assumption `Parameters`: `SessionsAgree` (`SurfacesAgree`),
`ChosenAccountStays` (`ChoiceStays`), `OverwrittenTokensAreSaved` (`SyncLosesNoToken`) and
`FailuresAreUndone` (`FailureRestores`), all the safety properties of the run.

The invariant is `SessionInv`. `Locked`: between taking the session lock and letting go of it
there is one command. `Kept` and `PutBack`: while nobody else touches the session, what
that command has written, or put back, is in the files it has done. `Chosen`: a
reconciliation works for the account that is active if one is, and writes
`google_accounts.json`, which names it, after the token files; so a failed or dead
reconciliation has not changed the choice. `Gathered`: before it writes, every token it may
overwrite is in the vault or the one it writes, or older than these, or of another account
that could not be saved, which needs that nobody else writes
between its second reading and its writes; and it needs `Issued`, that no token is
newer than the last one Google issued, because another command may raise the vault's
token meanwhile. The tokens a reconciliation compares are finite sets of ages, whose
greatest exists by `LeastNumber`.

## Quotas and eligibility

`QuotaRefresh` is a refresh of the quotas: it loads `accounts.json`, a few workers ask
Google about one account each, one loop puts the answers into what was loaded, and one
save at the end keeps them if nobody has saved in between.

* A refresh is one call of `refreshWhere`, with as many workers as the code starts
  (`MaxWorkers` is 8 there). `stage` follows an account from the jobs channel through
  `Fetch` to the results. `plan` says which program a refresh runs in and what it reads;
  refreshes in one program share `projects`, the memory of `rememberedProject`.
* Google may change its mind on an account (`GoogleChanges`), which begins a new
  `moment`. An answer carries the moment of the word of Google it rests on: for an error
  after a remembered project that is the moment the project was remembered. Record and
  quota in `accounts.json` carry the same; the times the code saves are not used for
  decisions.
* A request, or the reading of its answer, may fail at every place where `Fetch` returns
  an error. The errors are told apart as far as `shouldClearEligibility` does:
  `ineligible`, `auth` (Google does not take the credentials), `credentials` (the error is a
  local one: no token, no refresh token, no vault entry or a token of another account), after
  a confirmation (`passed`, `assumed`), and the rest. A `credentials` error carries no moment
  and still clears a refusal (`internal/app/eligibility.go:229`), with a remembered project or
  without; the comment there wants sign-in errors to take its place. `RefusalStays` names it as
  one of the two clearings that rest on no word of Google.
* A remembered project expires at any time (`ProjectExpires`).

| Run | Instance | Shows |
|---|---|---|
| `QuotaReads` | one refresh of two accounts with two workers, or two refreshes of one account in one program or two; Google changes its mind once | `AllAnswersTaken`, `QuotasInOrder`, `RefusalStays`, and the inductive invariant of their proofs (`QuotaInv`) |

Workers of a refresh only share the jobs and the results, and accounts only meet in the
one save: so one run has several accounts and another several refreshes. Once the
requests are bounded a refresh cannot run for ever, and that it is never stuck is the
absence of deadlock.

Left out: refreshed tokens (`AccountSecret`), the numbers in a snapshot, `quotaAge`
(`plan` chooses which accounts are due), and back-off (`noteRead`), which only decides
when the UI asks again.

### Theorems (`QuotaRefreshProofs`)

For any refreshes of any accounts by any programs, from the assumption `Parameters`:
`Invariant` (`QuotaInv`), `AnswersTaken` (`AllAnswersTaken`), `QuotasStayInOrder`
(`QuotasInOrder`) and `RefusalsStay` (`RefusalStays`).

That a save brings nothing old rests on three parts of `QuotaInv`. A refresh that can
still save holds what `accounts.json` has, changed by the answers it has taken and by
nothing else (`HoldsAnswers`). What it has heard from Google it has heard after it loaded
the accounts, so whatever they say is not newer (`HeardSince`); a read that went by a
remembered project and then failed has heard nothing, and neither has one without
credentials. And the loop over the results
cannot end early because each account that is asked about has a worker of its own, and
the last worker leaves only when none is waiting (`WorkersLeft`, which counts them).

## The settings

`Settings` is `config.json` in the hands of the commands that edit it. One process is one
edit: it loads (`LoadSettings`), changes its copy (`Edited`) and saves under the lock if
nobody has saved since (`SaveSettings`). The dashboard's form loads once for the fields it
shows (`OpenForm`) and again when it is sent, so that the user's old view of the other
fields goes into the newest file; the resets save defaults unseen. `Normalized` and
`Refused` are `normalizeSettings` with its zero values, empty policies and limits.

* Settings are a record of the fields that decide something. Aliases, tags and targets are
  one entry each, profiles two names, bindings a list of folders and profiles.
* Plans (`MCSettingsPlans`) start from no file, from files of an earlier version with zeros
  and empty policies, and from a file written by hand that is refused, with up to five
  edits in any interleaving: two that add and remove the same profile and binding, a
  form against a `put` of the same and another key, unsaveable values, and both resets.

`OtherEditsStay` (no edit takes back another one's), `SavedReadsBack` (what is saved is
never refused and reads as it was saved). `BindingIsNearest`, an assumption TLC evaluates,
compares `resolveBinding` with its definition for every list of at most three bindings of
four folders; no proof uses it.

### Theorems (`InterfaceProofs`)

For any plans, that is any files and any edits in any number, from the assumption
`SettingsParameters` (the values have their types): `SavedEditsStay` (`OtherEditsStay`) and
`SettingsReadBack` (`SavedReadsBack`). The invariant says that what an editor has in hand
is the file at the revision it loaded, with its own edit; that normalizing twice is
normalizing once is a lemma. The first attempt to prove `OtherEditsStay` failed where an
edit of the cooldown changes the threshold (see Observations): `KeysOf` names both.

`NearestBindingIsUsed` is about `ResolveBinding` alone, for any list of bindings with paths
and named profiles: after n bindings the loop has the one with the longest path of those
that hold the folder (`LoopFindsNearest`), and of two folders that hold a third the
shorter path holds the longer (`ShorterHoldsLonger`).

## Choosing an account

`AccountChoice` is every command that chooses an account: it loads (`LoadAccounts`), reads
the quotas of all accounts with some failures and saves them (`ReadQuotas`), chooses
(`ChooseAccount`, which may save a token's hash), asks (`AnswerPrompt`), loads again
(`ReloadAccounts`, as `prepareRunAccount` does) and applies or saves. `Ranking`,
`NextChoice` and `ResolveTarget` are the algorithms, as operators over sets and sequences.

* A fraction is a percentage per window; `age` says whether the snapshot is young
  enough to count. A search text is in the relation `contains` to
  the addresses it is part of. Ties fall to the order in the file, as in the stable sort.
* Plans: three accounts, one of whose addresses contains another's, with different pools,
  a used-up pool and a family limit; all three policies, a profile with reserves, both
  answers of `allow_auto_switch`; up to three commands at a time.

`FailedReadsNeverChosen` is about a snapshot that is there and must not count;
`NextGoesOn` is evaluated in every state, on whatever the commands have left in
`accounts.json`.

### Theorems (`InterfaceProofs`)

For any accounts, quotas and settings and any number of commands at a time:
`FailedReadsAreNotChosen` (`FailedReadsNeverChosen`) and `NextVisitsAll` (`NextGoesOn`).
They assume `ChoiceParameters`: `accounts.json` lists every account once
(`decodeOrderedAccounts` refuses it otherwise, `model.go:79`), what is left of a window is
a percentage (`quotaGroupHealths` clamps it, `display.go:269`), the policy is one of the
three (`settings.go:127`), the commands are known ones, and only a command about one
account names a target. The invariant `ChoiceInv` says that whatever copy a command has, and whatever is
saved, lists known accounts once each; and that from the reading of the quotas to the
choice the copy of recommend and run now has no fresh quota for what could not be read.
What `recommend --apply` and run now choose has a fresh quota, since they require that
the first recommendation is ready; so what was not read cannot be it. Plain `recommend`
reports the first recommendation, ready or not (`extended.go:1163`), and `list` and `next`
are not meant by the sentence: the property is about commands that act (`Acts`). That an account which is removed is gone from the list is a lemma
about `RemoveAt`, which needs that it was listed once.

`NextVisitsAll` needs of `ChoiceInv` only that what is saved lists accounts once each and
has percentages; the rest is about the ranking. `Before` orders any two of them
(`BeforeIsBetter`), so every set of them has a foremost one (`ForemostIs`, by counting
along the list) and `next` finds another ready account if there is one (`NextIsReady`).
Where the policy rotates, that is the ready account the fewest places ahead
(`NextIsNearest`: `StepsAfter` with its remainder is `Places`, `RotationIs`). So what a
tour has visited after m steps is m ready accounts, and all others lie further along
(`TourVisitsAll`); after as many steps as there are ready accounts none is left.

## The terminal

`Terminal` is the event loop. `Goroutines` read, save and work; `Events` are what the loop
takes from its channels and timers; `UserKeys` are the handlers of keys with everything
they call; `Keyboard` is the goroutine that reads standard input. Another program changes
the accounts or the session (`Others`).

* Accounts are numbers in their order, and a token is the number of its owner, negative
  if nobody here knows it, so that Google must be asked. A refresh or job is `latest` or
  not, which is all its revision is compared for.
* `disk`, `unseen` and `session` are the two files and whether the terminal has seen the
  stamp of the first. A refresh that saves knows (`same`) whether anyone wrote since.
* Plans (`MCTerminalPlans`) pair keys with what they can collide with: deleting and foreign
  changes, tier and refresh, import and refresh, two jobs, switching with selection
  and foreign sign-ins, a login that suspends the loop.

`Views` is what the user sees: views, search, palette, dialogs, forms, the scrolling list
and the pointer, over one queue of events. `BrowseKey`, `SearchKey`, `PaletteKey`, `FormKey`
and `MoveButton` are the handlers as functions from screen to screen; `ScrollTo` runs after
each event, as drawing does. A click adds an Enter at the end of the queue.

* Text is counted: one letter finds some accounts, more find none. Each plan has the keys
  of one part of the interface and up to five presses; others change profiles, history
  and accounts at any time.
* An account is drawn in one row or two, and the list may have any number of rows: which
  of it holds follows from the size of the terminal, the divider and the gauges of the
  selected account, so that every frame takes one of the plan's layouts (`Frame`), and a frame
  may come at any time (`Redraw`). Three accounts with room for two rows are the smallest
  list that scrolls; the other layouts are two rows each in a window of three, of one row
  (a wide terminal of 13 rows, where each frame shows the other row of the account) and of
  none (12 rows: `tui_body.go:123-126`). Blank rows and padding are left out, since they are
  only added where the whole list still fits (`tui_rows.go:284`).

Fairness of `MCChoices` (used by `ShownCatchesUp` and `WorkEnds`): goroutines run
(`Refreshing`, `Keyboard`), timers tick and channels are read (`Settling`), and an answer
that has arrived is taken (`TakeAnswer`). A job ends because requests have time-outs. A
person need not press a key and other programs need not do anything.

### Theorems (`InterfaceProofs`)

For any accounts, keys and foreign changes, from `TerminalParameters`: `RemovedIsNotShown`
(`RemovedStaysHidden`) and `KeysHaveOneReader` (`OneReader`). `TerminalInv` adds to them that
every answer under way that is still wanted was asked for after the removal (`Forgets`)
and that the keyboard worker is silent from the moment a command is given the terminal
until it gives it back (`Silent`).

For lists and windows of any size, one row or two for an account, any keys, clicks and
changes by others, from `ViewParameters` (the interface opens with an account):
`ChoicesAreShown` (`ChosenIsShown`), `SelectionStaysInSight` (`SelectionInSight`) and
`SearchesAreUndone` (`SearchRestores`). `ViewsInv` is a screen whose indexes are in their
lists and whose selected account is in sight, and each handler is shown to lead from one
such screen to another, as a function. `ScrollsIntoSight` is about `scrollTo`: the list ends
in a whole account (`EndsInBlock`), so that all rows of the selected one are there
(`BlockIsThere`), and `WindowMoves` is the arithmetic. What
the search and the groups keep of a list is `Kept`, a recursive function over the list;
that it keeps the order's members and no others is proved along the list (`KeptIs`).

## The update

`Updater` is `cmdUpdate` up to the file that is replaced: the latest release from GitHub or
the website, the download with its checksum or a build from source, the trial run, the
removal of the old `.bak`, the two renames and the roll back; on Windows the finalizer does
the last part; with Homebrew only `brew` and the check of what it installed. Any step
may be killed, a rename may fail, a deadline may pass and a release may be published.

`files` says what the program and its `.bak` are: a version, and whether it came from the
release, was built, is corrupt or is something else. `ExecutableKept` covers the kill and
failure of every step; `UpdatedIsLatest` what a success means. Plans: every platform, with
and without `--force`, and two updates at a time. Two faults are a failed rename and a
failed or killed roll back.

## The agy command and its guard

`AgyInstall` is the path of the `agy` command and the place the guard moves the program to.
A guard (`ensureAgyLauncherGuardForPath`) looks, moves or copies, and writes its wrapper; an
installer (`installAgyCLI`) removes a wrapper, places the new program, and then is a guard.
Moves fall back to a copy; errors of the wrapper are ignored, as in the code; `agy` may
update itself over the wrapper when nobody else is at it. `AgyFound` is stated for one
process at a time, since two guards can lose the program (see Observations). The
plans begin with every kind of file that may be there, in `~/.local/bin` and elsewhere: the
native program, the wrapper of it, a link, the wrapper the guard makes of a link
(`linked`, `session_guard.go:440`; versions 2.18 to 2.20 kept symlinks, `CHANGELOG.md:100`) and
the outdated forms of both wrappers.

Of a wrapper of a link nothing is kept where the guard keeps programs, so that two steps of
the code lose it, and `AgyFound` names them (`Lost`): an installer removes the wrapper before
it places the new program (`agy_installer.go:389-393`), and a guard that finds an outdated
one writes a wrapper of the usual place, where nothing is (`session_guard.go:484-486`).

## The hub launcher

`HubLauncher` is the loop of the wrapper script of the IDE's hub against the switches that
write the session, then the marker, then stop the hub. A switch does not always reach the
hub, and nothing of that is an error in the code (`credentials.go:178-199`, `436-447`):

* `WriteQuietly`: no hub is meant to hear of it (signing out, `--sync-session`, a session in
  the OS keyring, a first token);
* `MarkNothing`: on Windows, where nothing is mirrored to the keyring, without `pkill`, when
  the directory or the marker cannot be written, or when the switch is killed there;
* `StopNothing`: `pkill` fails, takes longer than its two seconds, or does not match a hub
  under the wrapper of a link with another name; its result is ignored.

Four switches and three restarts let a switch fall before, between and after each step of
the wrapper, and the limit of restarts be reached. `HubFresh` says what the wrapper makes
of it: when no switch is under way, a running hub has the current session, or it has been
told to end, or the change never reached it (`missed`); when a hub that a switch told to end
has ended, the wrapper finds a marker it has not seen, and so does not take it for a crash;
and there are never more starts than changes of the marker and one. It does not promise
that a hub which was not reached ever gets the new session: the code does not either.

## History and watch

`History` is the file and its lock: append, read to trim, trim, clear, with a kill at every
step, which may leave a part of a line that the next append becomes part of. `KeptLines` = 1
and `Retention` = 1 are the smallest that make trimming by size and by age both happen with two
writers and a clear. `EventsKept` says which step may drop an event.

`Watch` is `agy-swap watch`: every minute a read, the state file, the notifications that are
due, and the save of that file. The code looks at neither error (`history.go:319`,
`330-331`): a notification whose command fails counts as sent (`tried` is when a command
was last run, not when the user has seen it), a state that could not be saved is told again,
and so is what a state that could not be read has forgotten (`lost`). Two pools, whose
minimum may change from one to the other, four ticks and a cool-down of two let a
notification be due, suppressed and due again. `ToldInTime` is stated for one watcher: what
is due has its command run, and not again within the cooldown but for what is `lost`.

## The log scanner

`LogScan` is `agy` appending to a log and the scanner reading it: `agy` logs its account,
the model, requests with conversation numbers, and answers that do not say to which
request they belong. `Discover` takes file and size, `ReadLog` reads up to that size and
writes the cache, between them `agy` goes on or replaces the file. `AfterLine` is the
automaton of `parseLogFile`. A model of a family the scanner does not know (`OtherModel`)
leaves the one before current (`logs.go:263-267`, `351-359`). Two requests, a window of seven
lines and five lines after the first two or three are enough for two requests that answer
in the opposite order, a login or another model between a request and its answer, an
error while both are under way, and a window that cuts off the beginning.
`CacheIsCurrent` compares the cache with a scan of the whole window; `EvidenceIsTrue` compares
the evidence with whom the answers really belong to, which the model knows and the log
does not say. It is about logs that tell of their requests (`Tells`): nothing is cut off,
and no request is of an unknown model, which the scanner would charge to the model before.
And "available" is what the code can know: the request had a response, and no error, while
it was the only one under way (`Served`). An error that comes while two are under way is
charged to neither, so that the request it belongs to may count as available when it
ends.

## The runs of the small machines

| Run | Instance | Shows |
|---|---|---|
| `Machines` | `Updater`, `AgyInstall`, `HubLauncher`, `History`, `Watch`, `LogScan` | `ExecutableKept`, `UpdatedIsLatest`, `AgyFound`, `HubFresh`, `EventsKept`, `ToldInTime`, `CacheIsCurrent`, `EvidenceIsTrue` |
| `Choices` | `Terminal`, `Views`, `Settings`, `AccountChoice` | `RemovedStaysHidden`, `OneReader`, `ShownCatchesUp`, `WorkEnds`, `ChosenIsShown`, `SelectionInSight`, `SearchRestores`, `OtherEditsStay`, `SavedReadsBack`, `FailedReadsNeverChosen`, `NextGoesOn` |
| `ClickMissed` | the same | a violation, see Findings |
| `NextAfterFailure` | the same | a violation, see Findings |

Both are finite because each plan names what is done and how often; they end, so deadlock is
not checked.

### Theorems (`ProgramProofs`, `RecordProofs`)

Each is about the machine by itself, for any value of its constants.

* `UpdateKeepsProgram` (`ExecutableKept`) and `UpdateTellsTheTruth` (`UpdatedIsLatest`): the
  invariant says which of the program and its `.bak` is there at each step of each update
  (`Between`), that what an update carries was checked (`Carried`), and that a lone update
  finds the files as it left them (`Lone`).
* `AgyStaysFound` (`AgyFound`): one process at a time; which of the two places has the
  program at each of its steps (`Behind`, `Working`, `Bringing`), unless it is `Lost`.
* `HubStaysFresh` (`HubFresh`): a hub is started once for each mark the wrapper has seen, and
  the mark of a switch that has told a hub is one the wrapper has not seen.
* `HistoryKeepsEvents` (`EventsKept`): what a trim has read is the file until it has
  written, because of the lock; that trimming keeps what is young and within the limit
  is proved of `Sifted`, a recursive function over the lines, line by line.
* `WatchTellsInTime` (`ToldInTime`): what a lone watcher and then the state file remember of
  a notification is when its command was last run, unless that is `lost`.
* `CacheStaysCurrent` (`CacheIsCurrent`): what was read of a file is a beginning of it.
* `EvidenceStaysTrue` (`EvidenceIsTrue`): after each line the automaton knows no more than the
  lines say, that is, which requests are open and for whom; and a request it takes for the
  only one open is the only one.

The last five need induction over the number of lines. The induction theorems of the library
take the statement as a parameter; `LeastNumber` proves that a set of natural numbers that
is not empty has a least one (`LeastNatural`) and that one with 0 and successors has all up to
a bound (`CountingUp`), and the proofs use these on the set of the numbers in question.
For that the scan of a log (`Reading`) and the sifting of the history (`Sifted`) are recursive
functions.

Assumed of the constants: sets of processes are finite where the properties count those at
work (`Updaters`, `Actors`), so are the requests; nobody is called `Free` or `NoOne`.

## Findings

* `StoreReads`: `recoverRestore` looks for the journal before it takes a lock
  (`internal/app/backup_service.go:102`). A `Load` whose look comes before an import
  writes its journal, and whose read comes after that import has died, returns the
  accounts of the interrupted import, which
  `TestInterruptedRestoreRecoversBeforeRead` (`internal/app/reliability_test.go:298`)
  expects a load never to do. A save in the same window is acknowledged and then
  undone by the next recovery; `NoLostEdit` names that window with `overJournal`.
* `SecretAddWhileRemoved`: `cmdRemove` deletes the vault entry after it has saved
  `accounts.json` (`internal/app/cli.go:1399`) and does not look again; an account added
  in between loses its token.
* `SessionMirror`: a login that does not succeed puts the files back, but where the files
  are the session not the copy in the OS store that it deleted
  (`internal/app/cli.go:648`); the IDE reads that copy (`README.md:100`).
* `ClickMissed`: a click on a dialog button chooses the button and puts an Enter at the
  end of the event queue (`internal/app/tui_pointer.go:124`, `internal/app/tui.go:919`). A
  pointer move that is queued before it is handled first and may choose the other button,
  so that a click on Cancel confirms; `README.md:152` says that the click chooses.
* `NextAfterFailure`: `next` ranks with the snapshot an account had when its read has just
  failed (`internal/app/cli.go:1222`); `README.md:345` says of `next`, too, that a failed
  refresh cannot authorize a switch.

### Observations

What the models and the reading showed besides, without a sentence in the repository that
says otherwise, or outside what a property claims:

* Every error of the second request of a quota read but a refusal counts as coming after
  Google confirmed the account (`internal/app/quota.go:187`), also when the first request
  was skipped because the project is remembered. And local errors about credentials clear
  a refusal (`internal/app/eligibility.go:229`). `RefusalStays` allows these two cases.
* A switch confirmed in a dialog goes to the account that is selected by then
  (`internal/app/tui.go:568`), a deletion to the one the dialog names. They differ when the
  account of the dialog has gone meanwhile.
* Two guards that start together (`internal/app/session_guard.go:466`) may move one's
  wrapper over the real `agy`; the session lock is taken only later.
* The terminal takes the last write of `accounts.json` for its own when a refresh ends
  (`internal/app/tui.go:837`), so another program's write in between shows up with the
  next due quota; with no account shown that has a token, never (`internal/app/tui_sync.go:118`).
  `ShownCatchesUp` says so.
* The hub wrapper gives up a hub that a switch has stopped before the wrapper looked at the
  marker (`internal/app/credentials.go:173`): the IDE then has no hub until it starts one.
* Two updates at a time may leave the older of their releases; two watchers may repeat
  a notification.
* A bound run loads the accounts again after the user's answer and does not look at the
  quotas again (`internal/app/run.go:41`); what others saved meanwhile does not count. And it
  looks for the address it chose as for any target: if that account was removed meanwhile,
  another one whose address contains that address takes its place.
* Plain `recommend` marks its first recommendation as selected and ends with 0 also when that
  one is not ready, because its quota is old or could not be read
  (`internal/app/extended.go:1163`).
* An installation that fails after it has removed the wrapper of a link leaves no `agy`
  (`internal/app/agy_installer.go:389`), and an outdated wrapper of a link is rewritten to run a
  place where nothing is (`internal/app/session_guard.go:484`).
* `config set notifications.cooldown_seconds 0` with the alerts off and their threshold 0
  restores both defaults, 20 and 1800 (`normalizeSettings`,
  `internal/app/settings.go:136`): zeros in all three look like a file that has none of
  them. So a threshold of 0 that was saved before comes back as 20.
* The wheel scrolls the list under an open dialog (`internal/app/tui.go:888`).

## Not modelled

* Diagnostics and the drawing of the terminal: they read state and print it. `Views` has
  what drawing decides of the state: which rows are in sight and what a click hits.
* The backup format, paths and the account map, argument parsing, completion: conversions
  of text without shared state.
* Decoding of key and mouse sequences, animations, the drag of the split.
* Windows locking: the same contract as the POSIX variant.
* `migrateVaultAccounts` and `UpdateSettings`, which only tests call.
* The demo, release tooling and the entry point: not part of the shared state.

## What is proved

Every theorem is proved with TLAPS for all values of the constants that satisfy the named
assumptions. The invariants the proofs rest on were checked with TLC on the runs'
instances first. What stays with TLC:

* Liveness (`CommandsEnd`, `ShownCatchesUp`, `WorkEnds`): the prover does not handle fairness.
* What a target of `switch`, `limit` and `remove` is resolved to (`ResolveTarget`): a fold
  over hops and a search for text. No theorem is about it, and no proof rests on it.
