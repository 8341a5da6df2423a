-------------------------------- MODULE Terminal --------------------------------
(***************************************************************************)
(* The terminal interface (src/internal/app/tui.go and the tui_model,      *)
(* tui_dialog, tui_switch, tui_sync, tui_actions and tui_input files).     *)
(*                                                                         *)
(* One loop takes events one at a time: keys, timers, and the results of   *)
(* goroutines, which read accounts.json and the quotas, ask Google whose   *)
(* token agy uses, and run jobs.  Other programs change the accounts and   *)
(* the session meanwhile.                                                  *)
(*                                                                         *)
(* Accounts are numbered in their order.  A token is the number of its     *)
(* owner, negative when accounts.json does not know it, 0 when there is    *)
(* none.  The revision of a refresh and the id of a job are only compared  *)
(* with the last ones given out, so a read and a job are marked "latest"   *)
(* instead.  Only the dashboard view is here: what the others edit is in   *)
(* Settings.                                                               *)
(***************************************************************************)
EXTENDS Integers, FiniteSets

CONSTANTS
  Accounts,
  TerminalPlans    \* the saved accounts, those of them without a token (which stay so), the keys
                   \* the user presses and what other programs do, and the bounds: how often each

Keys == {"select", "switch", "delete", "tier", "refresh", "doctor", "import", "add", "quit"}
ForeignWork == {"accounts", "session"}

ASSUME TerminalParameters ==
  /\ Accounts \subseteq Nat \ {0} /\ Accounts # {}
  /\ TerminalPlans \subseteq [saved: SUBSET Accounts, bare: SUBSET Accounts, keys: SUBSET Keys, presses: Nat,
                              foreign: SUBSET ForeignWork, changes: Nat]

VARIABLES
  terminal,   \* one of TerminalPlans; does not change
  disk,       \* the accounts in accounts.json
  unseen,     \* whether accounts.json was written since the terminal looked at its stamp
  session,    \* agy's token
  named,      \* the account google_accounts.json names
  tui,        \* what the terminal shows and remembers
  reads,      \* the refreshes under way
  resolvers,  \* the tokens whose owner Google is asked for
  jobs,       \* the jobs under way
  worker,     \* the goroutine that reads the keyboard
  removed,    \* the accounts removed here, that nobody has added since
  keys, foreign

tuiVars == <<terminal, disk, unseen, session, named, tui, reads, resolvers, jobs, worker,
             removed, keys, foreign>>

Tokens == Accounts \cup {-a : a \in Accounts} \cup {0}
Owner(t) == IF t < 0 THEN -t ELSE t
Nobody == 0
NoDialog == [kind |-> "none", subject |-> Nobody]

Smallest(S) == CHOOSE a \in S : \A b \in S : a <= b

\* localActiveEmail: what the accounts themselves tell.
LocalActive(accounts, t) == IF t \in accounts THEN t ELSE Nobody

\* activeHint: else whom google_accounts.json names, if the account is shown.
ActiveHint(accounts, t) ==
  IF LocalActive(accounts, t) # Nobody \/ t = 0 THEN LocalActive(accounts, t)
  ELSE IF named \in accounts THEN named ELSE Nobody

\* selectedAccount and clampSelection: the selected account, else the first.
Clamped(selected, accounts) ==
  IF selected \in accounts THEN selected ELSE IF accounts = {} THEN Nobody ELSE Smallest(accounts)

\* setAccounts
ShowAccounts(u, accounts) ==
  [u EXCEPT !.accounts = accounts, !.selected = Clamped(u.selected, accounts),
            !.active = IF LocalActive(accounts, u.current) # Nobody
                       THEN LocalActive(accounts, u.current) ELSE u.active]

\* startActiveResolve: Google is asked if nothing here tells.
Resolve(u) ==
  LET hint == ActiveHint(u.accounts, u.current) IN
    IF hint # Nobody \/ u.current = 0 THEN [u EXCEPT !.active = hint, !.resolving = 0]
    ELSE IF u.resolving = u.current THEN u
    ELSE [u EXCEPT !.active = Nobody, !.resolving = u.current]

\* What the terminal is now, and the question to Google that goes with it.
Becomes(u) ==
  /\ tui' = u
  /\ resolvers' = resolvers \cup ({u.resolving} \ {0})

Alive == tui.mode # "left"
Looping == tui.mode \in {"browse", "dialog"}

TerminalInit ==
  /\ terminal \in TerminalPlans
  /\ disk = terminal.saved /\ unseen = FALSE
  /\ session \in (terminal.saved \cup {0}) /\ named = session
  /\ LET blank == [accounts |-> disk, selected |-> Clamped(Nobody, disk), active |-> Nobody,
                   current |-> session, resolving |-> 0, mode |-> "browse", dialog |-> NoDialog,
                   refreshing |-> TRUE, job |-> "none"]
     IN tui = Resolve(blank)
  /\ reads = {[latest |-> TRUE, pc |-> "load", quotas |-> TRUE, accounts |-> {}, same |-> TRUE]}
  /\ resolvers = {} /\ jobs = {}
  /\ worker = "check"
  /\ removed = {}
  /\ keys = 0 /\ foreign = 0

-----------------------------------------------------------------------------
(* accounts.json and the session *)

\* A write that adds and removes accounts; refreshes that loaded the file before
\* meet a conflict when they save.
Write(accounts) ==
  /\ disk' = accounts
  /\ unseen' = TRUE
  /\ removed' = removed \ accounts

\* Reads that were under way when the file was written.
Outdated(rs) == {[r EXCEPT !.same = FALSE] : r \in rs}

ForeignAccounts ==
  /\ "accounts" \in terminal.foreign /\ foreign < terminal.changes
  /\ \E a \in Accounts : Write(IF a \in disk THEN disk \ {a} ELSE disk \cup {a})
  /\ reads' = Outdated(reads)
  /\ foreign' = foreign + 1
  /\ UNCHANGED <<terminal, session, named, tui, resolvers, jobs, worker, keys>>

\* agy logs in or refreshes its token, and names the account afterwards.
ForeignSession ==
  /\ "session" \in terminal.foreign /\ foreign < terminal.changes /\ named = Owner(session)
  /\ \E t \in Tokens : t # session /\ session' = t
  /\ foreign' = foreign + 1
  /\ UNCHANGED <<terminal, disk, unseen, named, tui, reads, resolvers, jobs, worker, removed, keys>>

NameSession ==
  /\ named # Owner(session)
  /\ named' = Owner(session)
  /\ UNCHANGED <<terminal, disk, unseen, session, tui, reads, resolvers, jobs, worker, removed, keys, foreign>>

-----------------------------------------------------------------------------
(* Refreshes *)

\* Faulty: a refresh under way goes on.
StillTrusted(rs) == rs

\* invalidateRefresh.  Nobody looks at what these reads loaded.
Invalidated(rs) == {[r EXCEPT !.latest = FALSE, !.accounts = {}] : r \in rs}

Idle(u) == [u EXCEPT !.refreshing = FALSE]

NewRead(quotas) == [latest |-> TRUE, pc |-> "load", quotas |-> quotas, accounts |-> {}, same |-> TRUE]

\* startRefreshFor
StartRead(quotas) ==
  /\ tui' = [tui EXCEPT !.refreshing = TRUE]
  /\ reads' = Invalidated(reads) \cup {NewRead(quotas)}

\* Faulty: an account that was tried is never tried again.
DueNever == FALSE

\* dueEmails: every account is due some time, if there is a token to read its quota with.
Due == tui.accounts \ terminal.bare # {}

\* The sync timer: accounts.json was written, or the quota of some account is due.
Sync ==
  /\ Looping /\ ~tui.refreshing
  /\ \/ unseen /\ StartRead(FALSE) /\ unseen' = FALSE
     \/ ~unseen /\ Due /\ StartRead(TRUE) /\ UNCHANGED unseen
  /\ UNCHANGED <<terminal, disk, session, named, resolvers, jobs, worker, removed, keys, foreign>>

LoadRead ==
  /\ \E r \in reads :
       /\ r.pc = "load"
       /\ reads' = (reads \ {r}) \cup
            {[r EXCEPT !.accounts = IF r.latest THEN disk ELSE {}, !.pc = IF r.quotas /\ disk # {} THEN "fetch" ELSE "done"]}
  /\ UNCHANGED <<terminal, disk, unseen, session, named, tui, resolvers, jobs, worker, removed, keys, foreign>>

\* The quotas are saved with the accounts that were loaded, unless someone wrote since.
SaveRead ==
  /\ \E r \in reads :
       LET done == [r EXCEPT !.pc = "done"] IN
         /\ r.pc = "fetch"
         /\ \/ r.same /\ unseen' = TRUE /\ reads' = Outdated(reads \ {r}) \cup {done}
            \/ UNCHANGED unseen /\ reads' = (reads \ {r}) \cup {done}
  /\ UNCHANGED <<terminal, disk, session, named, tui, resolvers, jobs, worker, removed, keys, foreign>>

\* tuiAccountsEvent; the terminal takes the last write of the file for its own.
TakeRead ==
  /\ Looping
  /\ \E r \in reads :
       /\ r.pc = "done"
       /\ reads' = reads \ {r}
       /\ \/ r.latest /\ Becomes(Resolve(ShowAccounts(Idle(tui), r.accounts))) /\ unseen' = FALSE
          \/ ~r.latest /\ UNCHANGED <<tui, resolvers, unseen>>
  /\ UNCHANGED <<terminal, disk, session, named, jobs, worker, removed, keys, foreign>>

-----------------------------------------------------------------------------
(* The session *)

Changed == session # tui.current

\* The credential timer
NoticeSession ==
  /\ Looping /\ Changed
  /\ Becomes(Resolve([tui EXCEPT !.current = session,
                                 !.active = ActiveHint(tui.accounts, session)]))
  /\ UNCHANGED <<terminal, disk, unseen, session, named, reads, jobs, worker, removed, keys, foreign>>

\* tuiActiveEvent; Google may not answer.
TakeAnswer ==
  /\ Looping
  /\ \E t \in resolvers :
       /\ resolvers' = resolvers \ {t}
       /\ \/ /\ t = tui.current
             /\ \E answer \in {Owner(t), Nobody} : tui' = [tui EXCEPT !.active = answer, !.resolving = 0]
          \/ t # tui.current /\ UNCHANGED tui
  /\ UNCHANGED <<terminal, disk, unseen, session, named, reads, jobs, worker, removed, keys, foreign>>

-----------------------------------------------------------------------------
(* Keys *)

\* A key is pressed in a mode of the terminal.
Press(key, mode) ==
  /\ key \in terminal.keys /\ keys < terminal.presses /\ tui.mode = mode
  /\ keys' = keys + 1

\* Arrows, digits and clicks.
Select ==
  /\ Press("select", "browse")
  /\ \E a \in tui.accounts : tui' = [tui EXCEPT !.selected = a]
  /\ UNCHANGED <<terminal, disk, unseen, session, named, reads, resolvers, jobs, worker, removed, foreign>>

\* openDialog
Ask(u, kind) ==
  [u EXCEPT !.mode = "dialog", !.dialog = [kind |-> kind, subject |-> u.selected]]

AskSwitch ==
  /\ Press("switch", "browse")
  /\ tui.selected # Nobody /\ tui.selected # tui.active
  /\ tui' = Ask(tui, "switch")
  /\ UNCHANGED <<terminal, disk, unseen, session, named, reads, resolvers, jobs, worker, removed, foreign>>

AskDelete ==
  /\ Press("delete", "browse")
  /\ tui.selected # Nobody
  /\ tui' = Ask(tui, "delete")
  /\ UNCHANGED <<terminal, disk, unseen, session, named, reads, resolvers, jobs, worker, removed, foreign>>

Closed(u) == [u EXCEPT !.mode = "browse", !.dialog = NoDialog]

\* dialogKey: Escape, or the Cancel button.
DismissDialog ==
  /\ tui.mode = "dialog"
  /\ tui' = Closed(tui)
  /\ UNCHANGED <<terminal, disk, unseen, session, named, reads, resolvers, jobs, worker, removed, keys, foreign>>

\* performDelete: the account the dialog named.
Doomed(u) == u.dialog.subject
DeleteFails ==
  /\ tui.mode = "dialog" /\ tui.dialog.kind = "delete"
  /\ tui' = Closed(Idle(tui))
  /\ reads' = Invalidated(reads)
  /\ UNCHANGED <<terminal, disk, unseen, session, named, resolvers, jobs, worker, removed, keys, foreign>>

Delete ==
  /\ tui.mode = "dialog" /\ tui.dialog.kind = "delete"
  /\ LET accounts == disk \ {Doomed(tui)}
         shown == ShowAccounts(Closed(Idle(tui)), accounts)
     IN /\ disk' = accounts /\ unseen' = TRUE
        /\ tui' = [shown EXCEPT !.active = ActiveHint(accounts, tui.current)]
        /\ removed' = (removed \ accounts) \cup {Doomed(tui)}
  /\ reads' = Invalidated(Outdated(reads))
  /\ UNCHANGED <<terminal, session, named, resolvers, jobs, worker, keys, foreign>>

\* toggleTier: only what is saved with the selected account changes.
ToggleTier ==
  /\ Press("tier", "browse") /\ tui.selected # Nobody
  /\ \/ /\ tui.selected \in disk
        /\ unseen' = TRUE
        /\ tui' = ShowAccounts(Idle(tui), disk)
        /\ reads' = Invalidated(Outdated(reads))
     \/ /\ tui' = Idle(tui) /\ reads' = Invalidated(reads)   \* gone, or someone else wrote
        /\ UNCHANGED unseen
  /\ UNCHANGED <<terminal, disk, session, named, resolvers, jobs, worker, removed, foreign>>

Refresh ==
  /\ Press("refresh", "browse") /\ ~tui.refreshing
  /\ StartRead(TRUE)
  /\ UNCHANGED <<terminal, disk, unseen, session, named, resolvers, jobs, worker, removed, foreign>>

Leave ==
  /\ Press("quit", "browse")
  /\ tui' = [tui EXCEPT !.mode = "left"]
  /\ UNCHANGED <<terminal, disk, unseen, session, named, reads, resolvers, jobs, worker, removed, foreign>>

-----------------------------------------------------------------------------
(* Switching *)

\* performSwitch: the account that is selected when the user confirms.
ConfirmSwitch ==
  /\ tui.mode = "dialog" /\ tui.dialog.kind = "switch"
  /\ tui' = [tui EXCEPT !.mode = IF tui.selected = Nobody THEN "browse" ELSE "switching"]
  /\ UNCHANGED <<terminal, disk, unseen, session, named, reads, resolvers, jobs, worker, removed, keys, foreign>>

\* tuiSwitchSelected, applyAccount: its saved token becomes agy's, or that fails
\* (no token is saved any more, or the session cannot be written).
ApplySwitch ==
  /\ tui.mode = "switching"
  /\ \/ /\ tui.selected \notin terminal.bare
        /\ session' = tui.selected /\ named' = tui.selected /\ tui' = [tui EXCEPT !.mode = "switched"]
     \/ UNCHANGED <<session, named>> /\ tui' = [tui EXCEPT !.mode = "failed"]
  /\ UNCHANGED <<terminal, disk, unseen, reads, resolvers, jobs, worker, removed, keys, foreign>>

\* The accounts and the session are read again.
EndSwitch ==
  /\ tui.mode \in {"switched", "failed"}
  /\ LET shown == [ShowAccounts(Closed(tui), disk) EXCEPT !.current = session] IN
       Becomes(Resolve([shown EXCEPT !.active = IF tui.mode = "failed" THEN ActiveHint(disk, session)
                                                ELSE tui.selected]))
  /\ UNCHANGED <<terminal, disk, unseen, session, named, reads, jobs, worker, removed, keys, foreign>>

-----------------------------------------------------------------------------
(* Jobs *)

\* startJob; an import cancels the refresh under way.
StartJob(kind) ==
  /\ Press(kind, "browse")
  /\ jobs' = {[j EXCEPT !.latest = FALSE] : j \in jobs} \cup {[latest |-> TRUE, kind |-> kind, pc |-> "work", ok |-> FALSE]}
  /\ \/ kind = "import" /\ tui' = [Idle(tui) EXCEPT !.job = kind] /\ reads' = Invalidated(reads)
     \/ kind = "doctor" /\ tui' = [tui EXCEPT !.job = kind] /\ UNCHANGED reads
  /\ UNCHANGED <<terminal, disk, unseen, session, named, resolvers, worker, removed, foreign>>

WorkOnJob ==
  /\ \E j \in jobs :
       /\ j.pc = "work"
       /\ \/ /\ j.kind = "import"
             /\ \E a \in Accounts : \E accounts \in {{a}, disk \cup {a}} : Write(accounts)
             /\ reads' = Outdated(reads)
             /\ jobs' = (jobs \ {j}) \cup {[j EXCEPT !.pc = "done", !.ok = TRUE]}
          \/ /\ jobs' = (jobs \ {j}) \cup {[j EXCEPT !.pc = "done"]}   \* it failed, or is the doctor's
             /\ UNCHANGED <<disk, unseen, reads, removed>>
  /\ UNCHANGED <<terminal, session, named, tui, resolvers, worker, keys, foreign>>

\* Faulty: only a job that succeeded is over.
OnlySuccess(j) == j.latest /\ j.ok

\* tuiJobEvent: the answer of a job that was replaced is dropped.
Wanted(j) == j.latest
TakeJob ==
  /\ Looping
  /\ \E j \in jobs :
       /\ j.pc = "done"
       /\ jobs' = jobs \ {j}
       /\ IF Wanted(j)
          THEN IF j.ok THEN Becomes(Resolve([ShowAccounts([tui EXCEPT !.job = "none"], disk)
                                               EXCEPT !.current = session]))
               ELSE tui' = [tui EXCEPT !.job = "none"] /\ UNCHANGED resolvers
          ELSE UNCHANGED <<tui, resolvers>>
  /\ UNCHANGED <<terminal, disk, unseen, session, named, reads, worker, removed, keys, foreign>>

-----------------------------------------------------------------------------
(* Commands that take the terminal over *)

\* suspend: the keyboard goroutine is paused, and waited for.
Suspend ==
  /\ Press("add", "browse")
  /\ tui' = [Idle(tui) EXCEPT !.mode = "pausing"]
  /\ reads' = Invalidated(reads)
  /\ UNCHANGED <<terminal, disk, unseen, session, named, resolvers, jobs, worker, removed, foreign>>

\* Faulty: the goroutine is not waited for.
TakenAtOnce == TRUE
Taken == worker \notin {"poll", "read"}

\* waitUntilInputIdle; that it gives up after 270 ms, when the goroutine has not
\* had the processor for so long, is left out.
InputIdle ==
  /\ tui.mode = "pausing" /\ Taken
  /\ tui' = [tui EXCEPT !.mode = "suspended"]
  /\ UNCHANGED <<terminal, disk, unseen, session, named, reads, resolvers, jobs, worker, removed, keys, foreign>>

\* addLoginFlow: an account is saved and agy uses it; or the user gives up.
\* Then everything is read again.
Resume ==
  /\ tui.mode = "suspended"
  /\ \/ /\ \E a \in Accounts \ terminal.bare : Write(disk \cup {a}) /\ session' = a /\ named' = a
        /\ reads' = Outdated(reads) \cup {NewRead(TRUE)}
     \/ UNCHANGED <<disk, unseen, removed, session, named, reads>>
  /\ LET shown == [ShowAccounts([tui EXCEPT !.mode = "browse"], disk') EXCEPT !.current = session']
         hint == [shown EXCEPT !.active = LocalActive(disk', session'),
                               !.refreshing = reads' # reads]
     IN Becomes(Resolve(hint))
  /\ UNCHANGED <<terminal, jobs, worker, keys, foreign>>

Paused == tui.mode \in {"pausing", "suspended"}

\* The keyboard goroutine looks whether it is paused, says that it is busy, waits
\* for a key, and reads it.
WorkerLooks ==
  /\ "add" \in terminal.keys /\ worker = "check" /\ ~Paused /\ worker' = "busy"
  /\ UNCHANGED <<terminal, disk, unseen, session, named, tui, reads, resolvers, jobs, removed, keys, foreign>>

\* readInputByteWithTimeout: it looks again before it waits,
WorkerPolls ==
  /\ worker = "busy" /\ worker' = IF Paused THEN "check" ELSE "poll"
  /\ UNCHANGED <<terminal, disk, unseen, session, named, tui, reads, resolvers, jobs, removed, keys, foreign>>

\* and again when there is something to read.
WorkerFinds ==
  /\ worker = "poll" /\ worker' = IF Paused THEN "check" ELSE "read"
  /\ UNCHANGED <<terminal, disk, unseen, session, named, tui, reads, resolvers, jobs, removed, keys, foreign>>

WorkerReads ==
  /\ worker = "read" /\ worker' = "check"
  /\ UNCHANGED <<terminal, disk, unseen, session, named, tui, reads, resolvers, jobs, removed, keys, foreign>>

-----------------------------------------------------------------------------

Others == ForeignAccounts \/ ForeignSession
Goroutines == LoadRead \/ SaveRead \/ WorkOnJob
Events == Sync \/ TakeRead \/ NoticeSession \/ TakeAnswer \/ TakeJob \/ ApplySwitch \/ EndSwitch
          \/ InputIdle \/ Resume
UserKeys == \/ Select \/ AskSwitch \/ AskDelete \/ DismissDialog \/ Delete \/ DeleteFails \/ ToggleTier
            \/ Refresh \/ Leave \/ ConfirmSwitch \/ StartJob("doctor") \/ StartJob("import") \/ Suspend
Keyboard == WorkerLooks \/ WorkerPolls \/ WorkerFinds \/ WorkerReads

TerminalNext == Others \/ NameSession \/ Goroutines \/ Events \/ UserKeys \/ Keyboard

TerminalSpec == TerminalInit /\ [][TerminalNext]_tuiVars

-----------------------------------------------------------------------------
(* Properties *)

\* An account removed here is not shown again until someone adds it: an answer
\* that was on its way does not bring it back, nor leave it selected
\* (tui.go:230-236, 831-834).
RemovedStaysHidden ==
  removed \cap tui.accounts = {} /\ tui.selected \in tui.accounts \cup {Nobody}

\* While a command has the terminal, no key is read for the interface.
OneReader == ~(tui.mode = "suspended" /\ worker = "read")

\* Once other programs and the user stop, the accounts shown are the saved ones
\* (tui_sync.go:9-12), unless no account shown has a token: a change that was taken
\* for the terminal's own write (tui.go:837) is found when the next quota is due,
\* and then none is (tui_sync.go:118-120).
ShownCatchesUp == <>[](Alive /\ tui.accounts \ terminal.bare # {} => tui.accounts = disk)

\* What the terminal waits for comes: a refresh is over some time, and a job.
WorkEnds ==
  /\ tui.refreshing /\ Alive ~> ~tui.refreshing \/ ~Alive
  /\ tui.job # "none" ~> tui.job = "none" \/ ~Alive
=============================================================================
