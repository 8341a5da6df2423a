---------------------------- MODULE InterfaceProofs ----------------------------
(***************************************************************************)
(* What the terminal interface shows and reads, what becomes of settings   *)
(* that several commands edit, which account a command chooses, and what   *)
(* is chosen and in sight on the screen.                                   *)
(***************************************************************************)
EXTENDS Terminal, Settings, AccountChoice, Views, LeastNumber, FiniteSetTheorems, TLAPS

-----------------------------------------------------------------------------
(* The terminal *)

Known == Accounts \cup {Nobody}

Modes == {"browse", "dialog", "switching", "switched", "failed", "pausing", "suspended", "left"}

Dialogs == [kind: {"none", "switch", "delete"}, subject: Known]

Interfaces ==
  [accounts: SUBSET Accounts, selected: Known, active: Known, current: Tokens, resolving: Tokens,
   mode: Modes, dialog: Dialogs, refreshing: BOOLEAN, job: {"none", "doctor", "import"}]

Reads ==
  [latest: BOOLEAN, pc: {"load", "fetch", "done"}, quotas: BOOLEAN, accounts: SUBSET Accounts,
   same: BOOLEAN]

Jobs == [latest: BOOLEAN, kind: {"doctor", "import"}, pc: {"work", "done"}, ok: BOOLEAN]

TerminalTypeOK ==
  /\ disk \subseteq Accounts /\ removed \subseteq Known
  /\ session \in Tokens /\ named \in Known
  /\ tui \in Interfaces
  /\ reads \subseteq Reads /\ jobs \subseteq Jobs
  /\ worker \in {"check", "busy", "poll", "read"}

\* What was removed is in none of the lists that an answer may still bring.
Forgets ==
  /\ removed \cap disk = {}
  /\ \A r \in reads : removed \cap r.accounts = {}

\* While a command has the terminal, the goroutine is not even waiting for a key.
Silent == tui.mode = "suspended" => worker \notin {"poll", "read"}

TerminalInv == TerminalTypeOK /\ Forgets /\ RemovedStaysHidden /\ Silent

\* The account that stays selected is one of those shown.
LEMMA ClampedIsShown ==
  ASSUME NEW selected, NEW accounts \in SUBSET Accounts
  PROVE  Clamped(selected, accounts) \in accounts \cup {Nobody}
<1>1. CASE accounts # {}
  <2>1. PICK n \in accounts : \A m \in accounts : n <= m
    BY <1>1, TerminalParameters, LeastNatural
  <2>2. Smallest(accounts) \in accounts
    BY <2>1 DEF Smallest
  <2> QED
    BY <2>2 DEF Clamped
<1>2. CASE accounts = {}
  BY <1>2 DEF Clamped
<1> QED
  BY <1>1, <1>2

\* What an interface shows: its accounts, the selected one and its mode.
Showing(u, accounts, mode) ==
  /\ u \in Interfaces
  /\ u.accounts = accounts /\ u.selected \in accounts \cup {Nobody} /\ u.mode = mode

LEMMA ShowingAccounts ==
  ASSUME NEW u \in Interfaces, NEW accounts \in SUBSET Accounts
  PROVE  Showing(ShowAccounts(u, accounts), accounts, u.mode)
<1> DEFINE selected == Clamped(u.selected, accounts)
           marked == IF LocalActive(accounts, u.current) # Nobody
                       THEN LocalActive(accounts, u.current) ELSE u.active
<1>1. selected \in accounts \cup {Nobody}
  BY ClampedIsShown
<1>2. marked \in Known
  BY DEF LocalActive, Known, Interfaces
<1>3. ShowAccounts(u, accounts) =
        [u EXCEPT !.accounts = accounts, !.selected = selected, !.active = marked]
  BY DEF ShowAccounts
<1>4. ASSUME NEW t, t = [u EXCEPT !.accounts = accounts, !.selected = selected, !.active = marked]
      PROVE  Showing(t, accounts, u.mode)
  <2> HIDE DEF selected, marked
  <2>1. /\ DOMAIN t = DOMAIN u
        /\ t.accounts = accounts /\ t.selected = selected /\ t.active = marked
        /\ \A f \in DOMAIN u \ {"accounts", "selected", "active"} : t[f] = u[f]
    BY <1>4 DEF Interfaces
  <2>2. t \in Interfaces
    BY <1>1, <1>2, <1>4, <2>1 DEF Interfaces, Known
  <2> QED
    BY <1>1, <2>1, <2>2 DEF Showing, Interfaces
<1> QED
  BY <1>3, <1>4

LEMMA Hints ==
  ASSUME NEW accounts \in SUBSET Accounts, NEW t, named \in Known
  PROVE  ActiveHint(accounts, t) \in Known /\ LocalActive(accounts, t) \in Known
BY DEF ActiveHint, LocalActive, Known

LEMMA Resolving ==
  ASSUME NEW u \in Interfaces, named \in Known, u.selected \in u.accounts \cup {Nobody}
  PROVE  Showing(Resolve(u), u.accounts, u.mode)
<1> DEFINE hint == ActiveHint(u.accounts, u.current)
<1>1. hint \in Known
  BY Hints DEF Interfaces
<1>2. 0 \in Tokens /\ Nobody \in Known /\ u.current \in Tokens
  BY DEF Tokens, Known, Interfaces
<1>3. \/ Resolve(u) = [u EXCEPT !.active = hint, !.resolving = 0]
      \/ Resolve(u) = u
      \/ Resolve(u) = [u EXCEPT !.active = Nobody, !.resolving = u.current]
  BY DEF Resolve
<1> HIDE DEF hint
<1> QED
  BY <1>1, <1>2, <1>3 DEF Showing, Interfaces

LEMMA ReadsAreReads ==
  ASSUME NEW rs, rs \subseteq Reads
  PROVE  /\ Invalidated(rs) \subseteq Reads /\ \A r \in Invalidated(rs) : r.accounts = {}
         /\ Outdated(rs) \subseteq Reads
         /\ \A r \in Outdated(rs) : \E q \in rs : r.accounts = q.accounts
         /\ \A quotas \in BOOLEAN : NewRead(quotas) \in Reads /\ NewRead(quotas).accounts = {}
<1>1. ASSUME NEW r \in rs
      PROVE  LET gone == [r EXCEPT !.latest = FALSE, !.accounts = {}]
                 old == [r EXCEPT !.same = FALSE]
             IN gone \in Reads /\ gone.accounts = {} /\ old \in Reads /\ old.accounts = r.accounts
  <2>1. r \in Reads
    BY <1>1
  <2> QED
    BY <2>1 DEF Reads
<1>2. \A quotas \in BOOLEAN : NewRead(quotas) \in Reads /\ NewRead(quotas).accounts = {}
  BY DEF NewRead, Reads
<1>3. \A x \in Invalidated(rs) : \E r \in rs : x = [r EXCEPT !.latest = FALSE, !.accounts = {}]
  BY DEF Invalidated
<1>4. \A x \in Outdated(rs) : \E r \in rs : x = [r EXCEPT !.same = FALSE]
  BY DEF Outdated
<1>5. Invalidated(rs) \subseteq Reads /\ \A r \in Invalidated(rs) : r.accounts = {}
  BY <1>1, <1>3
<1>6. Outdated(rs) \subseteq Reads /\ \A r \in Outdated(rs) : \E q \in rs : r.accounts = q.accounts
  <2> SUFFICES ASSUME NEW x \in Outdated(rs)
               PROVE  x \in Reads /\ \E q \in rs : x.accounts = q.accounts
    OBVIOUS
  <2>1. PICK q \in rs : x = [q EXCEPT !.same = FALSE]
    BY <1>4
  <2>2. x \in Reads /\ x.accounts = q.accounts
    BY <1>1, <2>1
  <2> QED
    BY <2>2
<1> QED
  BY <1>2, <1>5, <1>6

LEMMA TerminalStarts == TerminalInit => TerminalInv
<1> SUFFICES ASSUME TerminalInit PROVE TerminalInv
  OBVIOUS
<1> DEFINE blank == [accounts |-> disk, selected |-> Clamped(Nobody, disk), active |-> Nobody,
                     current |-> session, resolving |-> 0, mode |-> "browse", dialog |-> NoDialog,
                     refreshing |-> TRUE, job |-> "none"]
<1>1. disk \in SUBSET Accounts /\ session \in Tokens /\ named \in Known
  BY TerminalParameters DEF TerminalInit, Tokens, Known, Nobody
<1>2. Clamped(Nobody, disk) \in disk \cup {Nobody}
  BY <1>1, ClampedIsShown
<1>3. blank \in Interfaces
  <2>1. 0 \in Tokens /\ Clamped(Nobody, disk) \in Known /\ Nobody \in Known
    BY <1>1, <1>2 DEF Tokens, Known
  <2>2. NoDialog \in Dialogs
    BY <2>1 DEF NoDialog, Dialogs
  <2>3. "browse" \in Modes
    BY DEF Modes
  <2> QED
    BY <1>1, <2>1, <2>2, <2>3 DEF Interfaces
<1>4. tui = Resolve(blank) /\ blank.accounts = disk /\ blank.mode = "browse"
  BY DEF TerminalInit
<1>5. Showing(tui, disk, "browse")
  BY <1>1, <1>2, <1>3, <1>4, Resolving
<1>6. removed = {} /\ jobs = {} /\ worker = "check"
  BY DEF TerminalInit
<1>7. reads = {NewRead(TRUE)} /\ NewRead(TRUE) \in Reads
  BY ReadsAreReads DEF TerminalInit, NewRead
<1> HIDE DEF blank
<1>8. TerminalTypeOK
  BY <1>1, <1>5, <1>6, <1>7 DEF TerminalTypeOK, Showing
<1> QED
  BY <1>5, <1>6, <1>8 DEF TerminalInv, Forgets, RemovedStaysHidden, Silent, Showing

\* A step that changes what is shown, but nothing that was removed.
LEMMA OnlyShown ==
  ASSUME TerminalInv, UNCHANGED <<disk, removed, reads, jobs, worker>>,
         session' \in Tokens, named' \in Known,
         NEW accounts, removed \cap accounts = {}, NEW mode,
         mode # "suspended" \/ worker \notin {"poll", "read"},
         Showing(tui', accounts, mode)
  PROVE  TerminalInv'
BY DEF TerminalInv, TerminalTypeOK, Forgets, RemovedStaysHidden, Silent, Showing

\* A step that changes the reads, and the interface but for what it shows.
LEMMA OnlyReads ==
  ASSUME TerminalInv, UNCHANGED <<disk, removed, session, named, jobs, worker>>,
         reads' \subseteq Reads, \A r \in reads' : removed \cap r.accounts = {},
         NEW accounts, removed \cap accounts = {}, NEW mode, mode # "suspended",
         Showing(tui', accounts, mode) \/ tui' = tui
  PROVE  TerminalInv'
BY DEF TerminalInv, TerminalTypeOK, Forgets, RemovedStaysHidden, Silent, Showing

\* What an interface becomes when a field of it changes.
LEMMA Turning ==
  ASSUME NEW u \in Interfaces, u.selected \in u.accounts \cup {Nobody}
  PROVE  /\ \A mode \in Modes : Showing([u EXCEPT !.mode = mode], u.accounts, mode)
         /\ \A b \in BOOLEAN : Showing([u EXCEPT !.refreshing = b], u.accounts, u.mode)
         /\ Showing(Closed(u), u.accounts, "browse")
         /\ \A kind \in {"none", "doctor", "import"} :
              Showing([u EXCEPT !.job = kind], u.accounts, u.mode)
         /\ \A t \in Tokens : Showing([u EXCEPT !.current = t], u.accounts, u.mode)
         /\ \A a \in Known : Showing([u EXCEPT !.active = a], u.accounts, u.mode)
         /\ \A a \in u.accounts : Showing([u EXCEPT !.selected = a], u.accounts, u.mode)
         /\ \A kind \in {"switch", "delete"} : Showing(Ask(u, kind), u.accounts, "dialog")
<1>1. \A mode \in Modes : Showing([u EXCEPT !.mode = mode], u.accounts, mode)
  BY DEF Showing, Interfaces
<1>2. \A b \in BOOLEAN : Showing([u EXCEPT !.refreshing = b], u.accounts, u.mode)
  BY DEF Showing, Interfaces
<1>3. Showing(Closed(u), u.accounts, "browse")
  <2>1. NoDialog \in Dialogs
    BY DEF NoDialog, Dialogs, Known
  <2> QED
    BY <2>1 DEF Closed, Showing, Interfaces, Modes
<1>4. \A kind \in {"none", "doctor", "import"} : Showing([u EXCEPT !.job = kind], u.accounts, u.mode)
  BY DEF Showing, Interfaces
<1>5. \A t \in Tokens : Showing([u EXCEPT !.current = t], u.accounts, u.mode)
  BY DEF Showing, Interfaces
<1>6. \A a \in Known : Showing([u EXCEPT !.active = a], u.accounts, u.mode)
  BY DEF Showing, Interfaces
<1>7. \A a \in u.accounts : Showing([u EXCEPT !.selected = a], u.accounts, u.mode)
  <2>1. u.accounts \subseteq Known
    BY DEF Interfaces, Known
  <2> QED
    BY <2>1 DEF Showing, Interfaces
<1>8. ASSUME NEW kind \in {"switch", "delete"} PROVE Showing(Ask(u, kind), u.accounts, "dialog")
  <2> DEFINE dialog == [kind |-> kind, subject |-> u.selected]
  <2>1. dialog \in Dialogs
    BY DEF Dialogs, Interfaces
  <2>2. Ask(u, kind) = [u EXCEPT !.mode = "dialog", !.dialog = dialog]
    BY DEF Ask
  <2> HIDE DEF dialog
  <2> QED
    BY <2>1, <2>2 DEF Showing, Interfaces, Modes
<1> QED
  BY <1>1, <1>2, <1>3, <1>4, <1>5, <1>6, <1>7, <1>8

LEMMA OwnersAreKnown == \A t \in Tokens : Owner(t) \in Known
BY TerminalParameters DEF Tokens, Owner, Known, Nobody

\* A write of the accounts, by whoever, that leaves the interface alone.
LEMMA WritesForget ==
  ASSUME TerminalInv, NEW accounts \in SUBSET Accounts, Write(accounts),
         reads' = Outdated(reads), jobs' \subseteq Jobs, UNCHANGED <<session, named, tui, worker>>
  PROVE  TerminalInv'
<1>1. reads' \subseteq Reads /\ \A r \in reads' : \E q \in reads : r.accounts = q.accounts
  BY ReadsAreReads DEF TerminalInv, TerminalTypeOK
<1> QED
  BY <1>1 DEF Write, TerminalInv, TerminalTypeOK, Forgets, RemovedStaysHidden, Silent

LEMMA TerminalStays == TerminalInv /\ [TerminalNext]_tuiVars => TerminalInv'
<1> SUFFICES ASSUME TerminalInv, [TerminalNext]_tuiVars PROVE TerminalInv'
  OBVIOUS
<1> USE DEF Becomes
<1>a. /\ disk \in SUBSET Accounts /\ removed \subseteq Known /\ session \in Tokens /\ named \in Known
      /\ tui \in Interfaces /\ reads \subseteq Reads /\ jobs \subseteq Jobs
      /\ tui.accounts \in SUBSET Accounts /\ tui.selected \in tui.accounts \cup {Nobody}
      /\ tui.current \in Tokens /\ tui.active \in Known
  BY DEF TerminalInv, TerminalTypeOK, RemovedStaysHidden, Interfaces
<1>b. /\ removed \cap disk = {} /\ removed \cap tui.accounts = {}
      /\ \A r \in reads : removed \cap r.accounts = {}
  BY DEF TerminalInv, Forgets, RemovedStaysHidden
<1>1. CASE Others
  <2>1. CASE ForeignAccounts
    BY <1>a, <2>1, WritesForget DEF ForeignAccounts
  <2>2. CASE ForeignSession
    BY <2>2 DEF ForeignSession, TerminalInv, TerminalTypeOK, Forgets, RemovedStaysHidden,
       Silent
  <2> QED
    BY <1>1, <2>1, <2>2 DEF Others
<1>2. CASE NameSession
  <2>1. named' \in Known
    BY <1>2, <1>a, OwnersAreKnown DEF NameSession
  <2> QED
    BY <1>2, <2>1 DEF NameSession, TerminalInv, TerminalTypeOK, Forgets, RemovedStaysHidden,
       Silent
<1>3. CASE LoadRead
  <2>1. PICK r \in reads :
          reads' = (reads \ {r}) \cup
            {[r EXCEPT !.accounts = IF r.latest THEN disk ELSE {},
                       !.pc = IF r.quotas /\ disk # {} THEN "fetch" ELSE "done"]}
    BY <1>3 DEF LoadRead
  <2> DEFINE accounts == IF r.latest THEN disk ELSE {}
             pc == IF r.quotas /\ disk # {} THEN "fetch" ELSE "done"
             read == [r EXCEPT !.accounts = accounts, !.pc = pc]
  <2>2. r \in Reads /\ accounts \in SUBSET Accounts /\ pc \in {"load", "fetch", "done"}
        /\ removed \cap accounts = {}
    BY <1>a, <1>b
  <2>3. reads' = (reads \ {r}) \cup {read}
    BY <2>1
  <2> HIDE DEF accounts, pc
  <2>4. read \in Reads /\ read.accounts = accounts
    BY <2>2 DEF Reads
  <2> HIDE DEF read
  <2>5. reads' \subseteq Reads /\ \A q \in reads' : removed \cap q.accounts = {}
    BY <1>a, <1>b, <2>2, <2>3, <2>4
  <2> QED
    BY <1>3, <1>b, <2>5 DEF LoadRead, TerminalInv, TerminalTypeOK, Forgets,
       RemovedStaysHidden, Silent
<1>4. CASE SaveRead
  <2>1. PICK r \in reads :
          \/ reads' = Outdated(reads \ {r}) \cup {[r EXCEPT !.pc = "done"]}
          \/ reads' = (reads \ {r}) \cup {[r EXCEPT !.pc = "done"]}
    BY <1>4 DEF SaveRead
  <2> DEFINE read == [r EXCEPT !.pc = "done"]
             rest == reads \ {r}
  <2>2. read \in Reads /\ read.accounts = r.accounts
    BY <1>a DEF Reads
  <2>3. rest \subseteq Reads /\ \A q \in rest : removed \cap q.accounts = {}
    BY <1>a, <1>b
  <2>4. reads' = Outdated(rest) \cup {read} \/ reads' = rest \cup {read}
    BY <2>1
  <2> HIDE DEF read, rest
  <2>5. Outdated(rest) \subseteq Reads /\ \A x \in Outdated(rest) : \E q \in rest : x.accounts = q.accounts
    BY <2>3, ReadsAreReads
  <2>6. reads' \subseteq Reads /\ \A q \in reads' : removed \cap q.accounts = {}
    BY <1>b, <2>2, <2>3, <2>4, <2>5
  <2> QED
    BY <1>4, <2>6 DEF SaveRead, TerminalInv, TerminalTypeOK, Forgets, RemovedStaysHidden,
       Silent
<1>5. CASE WorkOnJob
  <2>1. PICK j \in jobs :
       /\ j.pc = "work"
       /\ \/ /\ j.kind = "import"
             /\ \E a \in Accounts : \E accounts \in {{a}, disk \cup {a}} : Write(accounts)
             /\ reads' = Outdated(reads)
             /\ jobs' = (jobs \ {j}) \cup {[j EXCEPT !.pc = "done", !.ok = TRUE]}
          \/ /\ jobs' = (jobs \ {j}) \cup {[j EXCEPT !.pc = "done"]}
             /\ UNCHANGED <<disk, unseen, reads, removed>>
    BY <1>5 DEF WorkOnJob
  <2>2. j \in Jobs
    BY <1>a
  <2>3. [j EXCEPT !.pc = "done", !.ok = TRUE] \in Jobs /\ [j EXCEPT !.pc = "done"] \in Jobs
    BY <2>2 DEF Jobs
  <2>4. jobs' \subseteq Jobs
    BY <1>a, <2>1, <2>3
  <2>5. UNCHANGED <<session, named, tui, worker>>
    BY <1>5 DEF WorkOnJob
  <2>6. CASE /\ \E a \in Accounts : \E accounts \in {{a}, disk \cup {a}} : Write(accounts)
             /\ reads' = Outdated(reads)
    BY <1>a, <2>4, <2>5, <2>6, WritesForget
  <2>7. CASE UNCHANGED <<disk, unseen, reads, removed>>
    BY <2>4, <2>5, <2>7 DEF TerminalInv, TerminalTypeOK, Forgets, RemovedStaysHidden, Silent
  <2> QED
    BY <2>1, <2>6, <2>7
<1>6. CASE Sync
  <2>1. PICK quotas \in BOOLEAN : StartRead(quotas)
    BY <1>6 DEF Sync
  <2>2. Showing(tui', tui.accounts, tui.mode)
    BY <1>a, <2>1, Turning DEF StartRead
  <2>3. reads' \subseteq Reads /\ \A r \in reads' : r.accounts = {}
    BY <1>a, <2>1, ReadsAreReads DEF StartRead
  <2>4. tui.mode # "suspended"
    BY <1>6 DEF Sync, Looping
  <2> QED
    BY <1>6, <1>b, <2>2, <2>3, <2>4, OnlyReads DEF Sync
<1>7. CASE TakeRead
  <2>1. PICK r \in reads :
       /\ reads' = reads \ {r}
       /\ \/ r.latest /\ tui' = Resolve(ShowAccounts(Idle(tui), r.accounts))
          \/ UNCHANGED tui
    BY <1>7 DEF TakeRead
  <2>2. Showing(Idle(tui), tui.accounts, tui.mode) /\ r.accounts \in SUBSET Accounts
    BY <1>a, Turning DEF Idle, Reads
  <2>3. Showing(ShowAccounts(Idle(tui), r.accounts), r.accounts, tui.mode)
    BY <2>2, ShowingAccounts DEF Showing
  <2>4. Showing(Resolve(ShowAccounts(Idle(tui), r.accounts)), r.accounts, tui.mode)
    BY <1>a, <2>3, Resolving DEF Showing
  <2>5. tui.mode # "suspended"
    BY <1>7 DEF TakeRead, Looping
  <2>6. UNCHANGED <<disk, removed, session, named, jobs, worker>>
    BY <1>7 DEF TakeRead
  <2>7. reads' \subseteq Reads /\ \A q \in reads' : removed \cap q.accounts = {}
    BY <1>a, <1>b, <2>1
  <2>8. Showing(tui', r.accounts, tui.mode) \/ tui' = tui
    BY <2>1, <2>4
  <2> QED
    BY <1>b, <2>5, <2>6, <2>7, <2>8, OnlyReads
<1>8. CASE NoticeSession
  <2> DEFINE moved == [tui EXCEPT !.current = session]
             hint == ActiveHint(tui.accounts, session)
  <2>1. Showing(moved, tui.accounts, tui.mode)
    BY <1>a, Turning
  <2>2. hint \in Known
    BY <1>a, Hints
  <2> HIDE DEF hint
  <2>3. tui' = Resolve([moved EXCEPT !.active = hint])
    BY <1>8 DEF NoticeSession, hint
  <2> HIDE DEF moved
  <2>4. Showing([moved EXCEPT !.active = hint], tui.accounts, tui.mode)
    BY <2>1, <2>2, Turning, ZenonT(60) DEF Showing
  <2>5. Showing(tui', tui.accounts, tui.mode)
    BY <1>a, <2>3, <2>4, Resolving DEF Showing
  <2>6. tui.mode # "suspended"
    BY <1>8 DEF NoticeSession, Looping
  <2> QED
    BY <1>8, <1>a, <1>b, <2>5, <2>6, OnlyShown DEF NoticeSession
<1>9. CASE TakeAnswer
  <2>1. tui' = tui \/ \E answer \in Known : tui' = [tui EXCEPT !.active = answer, !.resolving = 0]
    BY <1>9, <1>a, OwnersAreKnown DEF TakeAnswer, Known
  <2>2. 0 \in Tokens
    BY DEF Tokens
  <2>3. Showing(tui', tui.accounts, tui.mode)
    BY <1>a, <2>1, <2>2 DEF Showing, Interfaces
  <2>4. tui.mode # "suspended"
    BY <1>9 DEF TakeAnswer, Looping
  <2> QED
    BY <1>9, <1>a, <1>b, <2>3, <2>4, OnlyShown DEF TakeAnswer
<1>10. CASE TakeJob
  <2>1. /\ jobs' \subseteq jobs
        /\ \/ tui' = Resolve([ShowAccounts([tui EXCEPT !.job = "none"], disk) EXCEPT !.current = session])
           \/ tui' = [tui EXCEPT !.job = "none"]
           \/ tui' = tui
    BY <1>10 DEF TakeJob
  <2> DEFINE over == [tui EXCEPT !.job = "none"]
             shown == ShowAccounts(over, disk)
  <2>2. Showing(over, tui.accounts, tui.mode)
    BY <1>a, Turning
  <2>3. Showing(shown, disk, tui.mode)
    BY <1>a, <2>2, ShowingAccounts DEF Showing
  <2> HIDE DEF shown
  <2>4. Showing([shown EXCEPT !.current = session], disk, tui.mode)
    <3>1. shown \in Interfaces /\ shown.accounts = disk /\ shown.mode = tui.mode
          /\ shown.selected \in shown.accounts \cup {Nobody}
      BY <2>3 DEF Showing
    <3>2. Showing([shown EXCEPT !.current = session], shown.accounts, shown.mode)
      BY <1>a, <3>1, Turning
    <3> QED
      BY <3>1, <3>2
  <2>5. Showing(Resolve([shown EXCEPT !.current = session]), disk, tui.mode)
    BY <1>a, <2>4, Resolving DEF Showing
  <2>6. Showing(tui', disk, tui.mode) \/ Showing(tui', tui.accounts, tui.mode)
    BY <1>a, <2>1, <2>2, <2>5 DEF shown, Showing
  <2>7. tui.mode # "suspended"
    BY <1>10 DEF TakeJob, Looping
  <2>8. UNCHANGED <<disk, session, named, reads, worker, removed>>
    BY <1>10 DEF TakeJob
  <2> QED
    BY <1>a, <1>b, <2>1, <2>6, <2>7, <2>8
    DEF TerminalInv, TerminalTypeOK, Forgets, RemovedStaysHidden, Silent, Showing
<1>11. CASE ApplySwitch
  <2>1. /\ session' \in {session, tui.selected} /\ named' \in {named, tui.selected}
        /\ \E mode \in {"switched", "failed"} : tui' = [tui EXCEPT !.mode = mode]
    BY <1>11 DEF ApplySwitch
  <2>2. session' \in Tokens /\ named' \in Known
    BY <1>a, <2>1 DEF Tokens, Known, Nobody
  <2>3. Showing(tui', tui.accounts, "switched") \/ Showing(tui', tui.accounts, "failed")
    BY <1>a, <2>1, Turning DEF Modes
  <2> QED
    BY <1>11, <1>b, <2>2, <2>3, OnlyShown DEF ApplySwitch
<1>12. CASE EndSwitch
  <2> DEFINE back == ShowAccounts(Closed(tui), disk)
             shown == [back EXCEPT !.current = session]
             marked == IF tui.mode = "failed" THEN ActiveHint(disk, session) ELSE tui.selected
  <2>1. Showing(Closed(tui), tui.accounts, "browse")
    BY <1>a, Turning
  <2>2. Showing(back, disk, "browse")
    BY <1>a, <2>1, ShowingAccounts DEF Showing
  <2>3. marked \in Known
    BY <1>a, Hints DEF Known
  <2>4. tui' = Resolve([shown EXCEPT !.active = marked])
    BY <1>12 DEF EndSwitch
  <2> HIDE DEF back, marked
  <2>5. Showing(shown, disk, "browse")
    <3>1. back \in Interfaces /\ back.accounts = disk /\ back.mode = "browse"
          /\ back.selected \in back.accounts \cup {Nobody}
      BY <2>2 DEF Showing
    <3>2. Showing(shown, back.accounts, back.mode)
      BY <1>a, <3>1, Turning
    <3> QED
      BY <3>1, <3>2
  <2> HIDE DEF shown
  <2>6. Showing([shown EXCEPT !.active = marked], disk, "browse")
    BY <2>3, <2>5, Turning, ZenonT(60) DEF Showing
  <2>7. Showing(tui', disk, "browse")
    BY <1>a, <2>4, <2>6, Resolving DEF Showing
  <2> QED
    BY <1>12, <1>a, <1>b, <2>7, OnlyShown DEF EndSwitch
<1>13. CASE InputIdle
  <2>1. Showing(tui', tui.accounts, "suspended") /\ worker \notin {"poll", "read"}
    BY <1>13, <1>a, Turning DEF InputIdle, Modes, Taken
  <2> QED
    BY <1>13, <1>a, <1>b, <2>1, OnlyShown DEF InputIdle
<1>14. CASE Resume
  <2> DEFINE opened == [tui EXCEPT !.mode = "browse"]
             back == ShowAccounts(opened, disk')
             shown == [back EXCEPT !.current = session']
             marked == LocalActive(disk', session')
             started == (reads' # reads)
             hint == [shown EXCEPT !.active = marked, !.refreshing = started]
  <2>1. /\ disk' \in SUBSET Accounts /\ session' \in Tokens /\ named' \in Known
        /\ removed' \subseteq removed /\ removed' \cap disk' = {}
    <3>1. CASE UNCHANGED <<disk, unseen, removed, session, named, reads>>
      BY <1>a, <1>b, <3>1
    <3>2. CASE \E a \in Accounts : Write(disk \cup {a}) /\ session' = a /\ named' = a
      BY <1>a, <1>b, <3>2 DEF Write, Tokens, Known
    <3> QED
      BY <1>14, <3>1, <3>2 DEF Resume
  <2>2. reads' \subseteq Reads /\ \A r \in reads' : removed' \cap r.accounts = {}
    <3>1. CASE reads' = reads
      BY <1>a, <1>b, <2>1, <3>1
    <3>2. CASE reads' = Outdated(reads) \cup {NewRead(TRUE)}
      <4>1. NewRead(TRUE) \in Reads /\ NewRead(TRUE).accounts = {}
        BY <1>a, ReadsAreReads
      <4>2. /\ Outdated(reads) \subseteq Reads
            /\ \A r \in Outdated(reads) : \E q \in reads : r.accounts = q.accounts
        BY <1>a, ReadsAreReads
      <4> QED
        BY <1>b, <2>1, <3>2, <4>1, <4>2
    <3> QED
      BY <1>14, <3>1, <3>2 DEF Resume
  <2>3. Showing(opened, tui.accounts, "browse")
    BY <1>a, Turning DEF Modes
  <2>4. Showing(back, disk', "browse")
    BY <2>1, <2>3, ShowingAccounts DEF Showing
  <2>5. marked \in Known /\ started \in BOOLEAN
    BY <2>1 DEF LocalActive, Known
  <2>6. tui' = Resolve(hint)
    BY <1>14 DEF Resume
  <2> HIDE DEF back, marked, started
  <2>7. Showing(shown, disk', "browse")
    <3>1. back \in Interfaces /\ back.accounts = disk' /\ back.mode = "browse"
          /\ back.selected \in back.accounts \cup {Nobody}
      BY <2>4 DEF Showing
    <3>2. Showing(shown, back.accounts, back.mode)
      BY <2>1, <3>1, Turning
    <3> QED
      BY <3>1, <3>2
  <2> HIDE DEF shown
  <2>8. Showing(hint, disk', "browse")
    BY <2>5, <2>7 DEF Showing, Interfaces
  <2> HIDE DEF hint
  <2>9. Showing(tui', disk', "browse")
    BY <1>a, <2>6, <2>8, Resolving DEF Showing
  <2>10. UNCHANGED <<jobs, worker>>
    BY <1>14 DEF Resume
  <2> QED
    BY <1>a, <2>1, <2>2, <2>9, <2>10
    DEF TerminalInv, TerminalTypeOK, Forgets, RemovedStaysHidden, Silent, Showing
<1>15. CASE Select
  <2>1. PICK a \in tui.accounts : tui' = [tui EXCEPT !.selected = a]
    BY <1>15 DEF Select
  <2>2. Showing(tui', tui.accounts, "browse")
    BY <1>15, <1>a, <2>1, Turning DEF Select, Press
  <2> QED
    BY <1>15, <1>a, <1>b, <2>2, OnlyShown DEF Select
<1>16. CASE AskSwitch
  <2>1. Showing(tui', tui.accounts, "dialog")
    BY <1>16, <1>a, Turning DEF AskSwitch
  <2> QED
    BY <1>16, <1>a, <1>b, <2>1, OnlyShown DEF AskSwitch
<1>17. CASE AskDelete
  <2>1. Showing(tui', tui.accounts, "dialog")
    BY <1>17, <1>a, Turning DEF AskDelete
  <2> QED
    BY <1>17, <1>a, <1>b, <2>1, OnlyShown DEF AskDelete
<1>18. CASE DismissDialog
  <2>1. Showing(tui', tui.accounts, "browse")
    BY <1>18, <1>a, Turning DEF DismissDialog
  <2> QED
    BY <1>18, <1>a, <1>b, <2>1, OnlyShown DEF DismissDialog
<1>c. /\ Invalidated(reads) \subseteq Reads /\ \A r \in Invalidated(reads) : r.accounts = {}
      /\ Invalidated(Outdated(reads)) \subseteq Reads
      /\ \A r \in Invalidated(Outdated(reads)) : r.accounts = {}
  <2>1. Invalidated(reads) \subseteq Reads /\ (\A r \in Invalidated(reads) : r.accounts = {})
        /\ Outdated(reads) \subseteq Reads
    BY <1>a, ReadsAreReads
  <2>2. Invalidated(Outdated(reads)) \subseteq Reads
        /\ \A r \in Invalidated(Outdated(reads)) : r.accounts = {}
    BY <2>1, ReadsAreReads
  <2> QED
    BY <2>1, <2>2
<1>d. Showing(Idle(tui), tui.accounts, tui.mode)
  BY <1>a, Turning DEF Idle
<1>e. Showing(Closed(Idle(tui)), tui.accounts, "browse")
  <2>1. Idle(tui) \in Interfaces /\ Idle(tui).accounts = tui.accounts
        /\ Idle(tui).selected \in Idle(tui).accounts \cup {Nobody}
    BY <1>d DEF Showing
  <2> QED
    BY <2>1, Turning
<1>19. CASE Delete
  <2> DEFINE accounts == disk \ {Doomed(tui)}
             shown == ShowAccounts(Closed(Idle(tui)), accounts)
             marked == ActiveHint(accounts, tui.current)
  <2>1. accounts \in SUBSET Accounts
    BY <1>a
  <2>2. Showing(shown, accounts, "browse")
    BY <1>e, <2>1, ShowingAccounts DEF Showing
  <2>3. marked \in Known
    BY <1>a, <2>1, Hints
  <2>4. /\ disk' = accounts /\ tui' = [shown EXCEPT !.active = marked]
        /\ removed' = (removed \ accounts) \cup {Doomed(tui)}
        /\ reads' = Invalidated(Outdated(reads))
        /\ UNCHANGED <<session, named, jobs, worker>>
    BY <1>19 DEF Delete
  <2>5. removed' \cap accounts = {}
    BY <2>4
  <2>6. removed' \subseteq Known
    <3>1. tui.dialog \in Dialogs /\ tui.dialog.kind = "delete"
      BY <1>19, <1>a DEF Delete, Interfaces
    <3>2. Doomed(tui) \in Known
      BY <3>1 DEF Doomed, Dialogs
    <3> QED
      BY <1>a, <2>4, <3>2
  <2> HIDE DEF shown, marked, accounts
  <2>7. Showing(tui', accounts, "browse")
    <3>1. shown \in Interfaces /\ shown.accounts = accounts /\ shown.mode = "browse"
          /\ shown.selected \in shown.accounts \cup {Nobody}
      BY <2>2 DEF Showing
    <3>2. Showing(tui', shown.accounts, shown.mode)
      BY <2>3, <2>4, <3>1, Turning
    <3> QED
      BY <3>1, <3>2
  <2> QED
    BY <1>a, <1>c, <2>1, <2>4, <2>5, <2>6, <2>7
    DEF TerminalInv, TerminalTypeOK, Forgets, RemovedStaysHidden, Silent, Showing
<1>20. CASE DeleteFails
  BY <1>20, <1>b, <1>c, <1>e, OnlyReads DEF DeleteFails
<1>21. CASE ToggleTier
  <2>1. Showing(ShowAccounts(Idle(tui), disk), disk, tui.mode)
    <3>1. Idle(tui) \in Interfaces /\ Idle(tui).mode = tui.mode
      BY <1>d DEF Showing
    <3> QED
      BY <1>a, <3>1, ShowingAccounts
  <2>2. \/ tui' = ShowAccounts(Idle(tui), disk) /\ reads' = Invalidated(Outdated(reads))
        \/ tui' = Idle(tui) /\ reads' = Invalidated(reads)
    BY <1>21 DEF ToggleTier
  <2>3. tui.mode # "suspended" /\ UNCHANGED <<disk, removed, session, named, jobs, worker>>
    BY <1>21 DEF ToggleTier, Press
  <2>4. CASE tui' = ShowAccounts(Idle(tui), disk) /\ reads' = Invalidated(Outdated(reads))
    BY <1>b, <1>c, <2>1, <2>3, <2>4, OnlyReads
  <2>5. CASE tui' = Idle(tui) /\ reads' = Invalidated(reads)
    BY <1>b, <1>c, <1>d, <2>3, <2>5, OnlyReads
  <2> QED
    BY <2>2, <2>4, <2>5
<1>22. CASE Refresh
  <2>1. Showing(tui', tui.accounts, tui.mode)
    BY <1>22, <1>a, Turning DEF Refresh, StartRead
  <2>2. reads' \subseteq Reads /\ \A r \in reads' : r.accounts = {}
    BY <1>22, <1>a, ReadsAreReads, ZenonT(60) DEF Refresh, StartRead
  <2>3. tui.mode # "suspended"
    BY <1>22 DEF Refresh, Press
  <2> QED
    BY <1>22, <1>b, <2>1, <2>2, <2>3, OnlyReads DEF Refresh
<1>23. CASE Leave
  <2>1. Showing(tui', tui.accounts, "left")
    BY <1>23, <1>a, Turning DEF Leave, Modes
  <2> QED
    BY <1>23, <1>a, <1>b, <2>1, OnlyShown DEF Leave
<1>24. CASE ConfirmSwitch
  <2>1. PICK mode \in {"browse", "switching"} : tui' = [tui EXCEPT !.mode = mode]
    BY <1>24 DEF ConfirmSwitch
  <2>2. Showing(tui', tui.accounts, mode)
    BY <1>a, <2>1, Turning DEF Modes
  <2> QED
    BY <1>24, <1>a, <1>b, <2>2, OnlyShown DEF ConfirmSwitch
<1>25. CASE StartJob("doctor") \/ StartJob("import")
  <2>1. PICK kind \in {"doctor", "import"} : StartJob(kind)
    BY <1>25
  <2> DEFINE new == [latest |-> TRUE, kind |-> kind, pc |-> "work", ok |-> FALSE]
             old == {[j EXCEPT !.latest = FALSE] : j \in jobs}
  <2>2. new \in Jobs
    BY DEF Jobs
  <2>3. \A j \in jobs : [j EXCEPT !.latest = FALSE] \in Jobs
    BY <1>a DEF Jobs
  <2>4. jobs' \subseteq Jobs
    <3>1. jobs' = old \cup {new}
      BY <2>1 DEF StartJob
    <3>2. old \subseteq Jobs
      BY <2>3
    <3> HIDE DEF new, old
    <3> QED
      BY <2>2, <3>1, <3>2
  <2>5. /\ tui' = [Idle(tui) EXCEPT !.job = kind] \/ tui' = [tui EXCEPT !.job = kind]
        /\ reads' = Invalidated(reads) \/ reads' = reads
        /\ UNCHANGED <<disk, session, named, worker, removed>>
    BY <2>1 DEF StartJob
  <2>6. Showing([Idle(tui) EXCEPT !.job = kind], tui.accounts, tui.mode)
    <3>1. Idle(tui) \in Interfaces /\ Idle(tui).accounts = tui.accounts /\ Idle(tui).mode = tui.mode
          /\ Idle(tui).selected \in Idle(tui).accounts \cup {Nobody}
      BY <1>d DEF Showing
    <3>2. Showing([Idle(tui) EXCEPT !.job = kind], Idle(tui).accounts, Idle(tui).mode)
      BY <3>1, Turning
    <3> QED
      BY <3>1, <3>2
  <2>7. Showing([tui EXCEPT !.job = kind], tui.accounts, tui.mode)
    BY <1>a, Turning
  <2>8. tui.mode # "suspended"
    BY <2>1 DEF StartJob, Press
  <2>9. Showing(tui', tui.accounts, tui.mode)
    BY <2>5, <2>6, <2>7
  <2>10. reads' \subseteq Reads /\ \A r \in reads' : removed \cap r.accounts = {}
    BY <1>a, <1>b, <1>c, <2>5
  <2> QED
    BY <1>a, <1>b, <2>4, <2>5, <2>8, <2>9, <2>10
    DEF TerminalInv, TerminalTypeOK, Forgets, RemovedStaysHidden, Silent, Showing
<1>26. CASE Suspend
  <2>1. tui' = [Idle(tui) EXCEPT !.mode = "pausing"] /\ reads' = Invalidated(reads)
    BY <1>26 DEF Suspend
  <2>2. Showing(tui', tui.accounts, "pausing")
    <3>1. Idle(tui) \in Interfaces /\ Idle(tui).accounts = tui.accounts
          /\ Idle(tui).selected \in Idle(tui).accounts \cup {Nobody}
      BY <1>d DEF Showing
    <3>2. Showing([Idle(tui) EXCEPT !.mode = "pausing"], Idle(tui).accounts, "pausing")
      BY <3>1, Turning DEF Modes
    <3> QED
      BY <2>1, <3>1, <3>2
  <2> QED
    BY <1>26, <1>b, <1>c, <2>1, <2>2, OnlyReads DEF Suspend
<1>27. CASE Keyboard
  <2>1. /\ UNCHANGED <<disk, removed, session, named, tui, reads, jobs>>
        /\ worker' \in {"check", "busy", "poll", "read"}
        /\ Paused => worker' \notin {"poll", "read"}
    BY <1>27 DEF Keyboard, WorkerLooks, WorkerPolls, WorkerFinds, WorkerReads
  <2> QED
    BY <2>1 DEF TerminalInv, TerminalTypeOK, Forgets, RemovedStaysHidden, Silent, Paused
<1>28. CASE UNCHANGED tuiVars
  BY <1>28 DEF tuiVars, TerminalInv, TerminalTypeOK, Forgets, RemovedStaysHidden, Silent
<1>29. CASE Goroutines
  BY <1>29, <1>3, <1>4, <1>5 DEF Goroutines
<1>30. CASE Events
  BY <1>30, <1>6, <1>7, <1>8, <1>9, <1>10, <1>11, <1>12, <1>13, <1>14 DEF Events
<1>31. CASE UserKeys
  BY <1>31, <1>15, <1>16, <1>17, <1>18, <1>19, <1>20, <1>21, <1>22, <1>23, <1>24, <1>25, <1>26
  DEF UserKeys
<1> QED
  BY <1>1, <1>2, <1>27, <1>28, <1>29, <1>30, <1>31 DEF TerminalNext

\* What was removed here stays out of sight and is not selected, whatever answers
\* were under way, whoever writes the accounts, and in any number of them
\* (tui.go:230-236, 831-834).
THEOREM RemovedIsNotShown == TerminalSpec => []RemovedStaysHidden
<1>1. TerminalInv => RemovedStaysHidden
  BY DEF TerminalInv
<1> QED
  BY <1>1, TerminalStarts, TerminalStays, PTL DEF TerminalSpec

\* While a command has the terminal, the interface does not take its keys.
THEOREM KeysHaveOneReader == TerminalSpec => []OneReader
<1>1. TerminalInv => OneReader
  BY DEF TerminalInv, Silent, OneReader
<1> QED
  BY <1>1, TerminalStarts, TerminalStays, PTL DEF TerminalSpec

-----------------------------------------------------------------------------
(* The settings *)

Keys10 == {"policy", "enabled", "threshold", "cooldown", "alias", "tag", "target", "split",
           "profiles", "bindings"}

Names == {"home", "work"}

\* What normalizing leaves alone.
IsNormal(s) ==
  /\ s.policy # "" /\ s.split \in -40..40
  /\ s.enabled \/ s.cooldown # 0
  /\ \A name \in Names : s.profiles[name] # ""

LEMMA DefaultKeys == DOMAIN Defaults = Keys10
BY DEF Defaults, Keys10

LEMMA DefaultFields ==
  /\ Defaults.policy = "sticky" /\ Defaults.threshold = 20 /\ Defaults.cooldown = 1800
  /\ Defaults.split = 0 /\ Defaults.bindings = <<>>
BY DEF Defaults

LEMMA DefaultSwitches == Defaults.enabled = FALSE /\ Defaults.enabled \in BOOLEAN
BY Zenon DEF Defaults

LEMMA DefaultProfiles ==
  /\ Defaults.profiles = [name \in Names |-> Defaults.profiles[name]]
  /\ \A name \in Names : Defaults.profiles[name] = "no profile"
<1>1. Defaults.profiles = [name \in Names |-> "no profile"]
  BY DEF Defaults, Names, NoProfile
<1> QED
  BY <1>1

LEMMA DefaultsAreSettings == AreSettings(Defaults) /\ IsNormal(Defaults)
<1>1. AreSettings(Defaults)
  <2>1. Defaults = [key \in DOMAIN Defaults |-> Defaults[key]]
    <3> DEFINE policy == "sticky"
               none == ""
               off == FALSE
               percent == 20
               seconds == 1800
               middle == 0
               profiles == [name \in {"home", "work"} |-> NoProfile]
               bindings == <<>>
    <3>1. Defaults = [policy |-> policy, enabled |-> off, threshold |-> percent, cooldown |-> seconds,
                      alias |-> none, tag |-> none, target |-> none, split |-> middle,
                      profiles |-> profiles, bindings |-> bindings]
      BY DEF Defaults
    <3> HIDE DEF policy, none, off, percent, seconds, middle, profiles, bindings
    <3> QED
      BY <3>1
  <2>2. Defaults.profiles = [name \in Names |-> Defaults.profiles[name]]
    BY DefaultProfiles
  <2>3. Defaults.enabled \in BOOLEAN
    BY DefaultSwitches
  <2>4. Defaults.threshold \in Int /\ Defaults.cooldown \in Int /\ Defaults.split \in Int
    BY DefaultFields
  <2> QED
    BY <2>1, <2>2, <2>3, <2>4 DEF AreSettings, Names
<1>2. IsNormal(Defaults)
  <2>1. Defaults.policy # ""
    BY DefaultFields
  <2>2. Defaults.split \in -40..40
    BY DefaultFields
  <2>3. Defaults.cooldown # 0
    BY DefaultFields
  <2>4. \A name \in Names : Defaults.profiles[name] # ""
    BY DefaultProfiles
  <2> QED
    BY <2>1, <2>2, <2>3, <2>4 DEF IsNormal
<1> QED
  BY <1>1, <1>2

LEMMA NormalizedFields ==
  ASSUME NEW s, AreSettings(s)
  PROVE  LET n == Normalized(s)
         IN /\ n = [key \in Keys10 |-> n[key]]
            /\ n.policy = IF s.policy = "" THEN "sticky" ELSE s.policy
            /\ n.enabled = s.enabled
            /\ n.threshold = IF Unset(s) THEN 20 ELSE s.threshold
            /\ n.cooldown = IF s.cooldown = 0 /\ ~s.enabled THEN 1800 ELSE s.cooldown
            /\ n.split = IF s.split \in -40..40 THEN s.split ELSE 0
            /\ n.profiles = [name \in Names |-> IF s.profiles[name] = "" THEN n.policy ELSE s.profiles[name]]
            /\ n.alias = s.alias /\ n.tag = s.tag /\ n.target = s.target /\ n.bindings = s.bindings
<1> DEFINE policy == IF s.policy = "" THEN Defaults.policy ELSE s.policy
           threshold == IF Unset(s) THEN Defaults.threshold ELSE s.threshold
           cooldown == IF s.cooldown = 0 /\ ~s.enabled THEN Defaults.cooldown ELSE s.cooldown
           split == IF s.split \in -40..40 THEN s.split ELSE 0
           profiles == [name \in DOMAIN s.profiles |->
                          IF s.profiles[name] = "" THEN policy ELSE s.profiles[name]]
<1>1. s = [key \in Keys10 |-> s[key]] /\ DOMAIN s.profiles = Names
  BY DefaultKeys DEF AreSettings, Names
<1>2. Normalized(s) = [s EXCEPT !.policy = policy, !.threshold = threshold, !.cooldown = cooldown,
                                !.split = split, !.profiles = profiles]
  BY DEF Normalized
<1> HIDE DEF policy, threshold, cooldown, split, profiles
<1> DEFINE n == Normalized(s)
<1>3. /\ n = [key \in Keys10 |-> n[key]]
      /\ n.policy = policy /\ n.threshold = threshold /\ n.cooldown = cooldown
      /\ n.split = split /\ n.profiles = profiles /\ n.enabled = s.enabled
      /\ n.alias = s.alias /\ n.tag = s.tag /\ n.target = s.target /\ n.bindings = s.bindings
  BY <1>1, <1>2 DEF Keys10
<1> HIDE DEF n
<1>4. profiles = [name \in Names |-> IF s.profiles[name] = "" THEN policy ELSE s.profiles[name]]
  BY <1>1 DEF profiles
<1>5. /\ policy = IF s.policy = "" THEN "sticky" ELSE s.policy
      /\ threshold = IF Unset(s) THEN 20 ELSE s.threshold
      /\ cooldown = IF s.cooldown = 0 /\ ~s.enabled THEN 1800 ELSE s.cooldown
      /\ split = IF s.split \in -40..40 THEN s.split ELSE 0
  BY DefaultFields DEF policy, threshold, cooldown, split
<1>6. n.profiles = [name \in Names |-> IF s.profiles[name] = "" THEN n.policy ELSE s.profiles[name]]
  BY <1>3, <1>4
<1>7. n.policy = IF s.policy = "" THEN "sticky" ELSE s.policy
  <2>1. n.policy = policy /\ policy = IF s.policy = "" THEN "sticky" ELSE s.policy
    BY <1>3, <1>5
  <2> QED
    BY <2>1, Zenon
<1>8. n.threshold = IF Unset(s) THEN 20 ELSE s.threshold
  BY <1>3, <1>5
<1>9. n.cooldown = IF s.cooldown = 0 /\ ~s.enabled THEN 1800 ELSE s.cooldown
  <2>1. n.cooldown = cooldown
    BY <1>3
  <2> QED
    BY <2>1, DefaultFields DEF cooldown
<1>10. n.split = IF s.split \in -40..40 THEN s.split ELSE 0
  BY <1>3, <1>5
<1> QED
  BY <1>3, <1>6, <1>7, <1>8, <1>9, <1>10, Zenon DEF n

\* What a file is read as can be read again.
LEMMA NormalizedIsNormal ==
  ASSUME NEW s, AreSettings(s)
  PROVE  AreSettings(Normalized(s)) /\ IsNormal(Normalized(s))
<1> DEFINE n == Normalized(s)
<1>1. s.enabled \in BOOLEAN /\ s.threshold \in Int /\ s.cooldown \in Int /\ s.split \in Int
  BY DEF AreSettings
<1>2. n = [key \in Keys10 |-> n[key]] /\ n.enabled = s.enabled
  BY NormalizedFields
<1>3. n.profiles = [name \in Names |-> IF s.profiles[name] = "" THEN n.policy ELSE s.profiles[name]]
  BY NormalizedFields
<1>4. n.policy # ""
  <2>1. n.policy = IF s.policy = "" THEN "sticky" ELSE s.policy
    BY NormalizedFields
  <2> QED
    BY <2>1
<1>5. n.threshold \in Int
  <2>1. n.threshold = IF Unset(s) THEN 20 ELSE s.threshold
    BY NormalizedFields
  <2> QED
    BY <1>1, <2>1
<1>6. n.cooldown \in Int /\ (n.enabled \/ n.cooldown # 0)
  <2>1. n.cooldown = IF s.cooldown = 0 /\ ~s.enabled THEN 1800 ELSE s.cooldown
    BY NormalizedFields
  <2> QED
    BY <1>1, <1>2, <2>1
<1>7. n.split \in -40..40 /\ n.split \in Int
  <2>1. n.split = IF s.split \in -40..40 THEN s.split ELSE 0
    BY NormalizedFields
  <2> QED
    BY <1>1, <2>1
<1> HIDE DEF n
<1>8. n.profiles = [name \in Names |-> n.profiles[name]]
      /\ \A name \in Names : n.profiles[name] # ""
  BY <1>3, <1>4
<1>9. AreSettings(n)
  BY <1>1, <1>2, <1>5, <1>6, <1>7, <1>8, DefaultKeys DEF AreSettings, Names
<1>10. IsNormal(n)
  BY <1>4, <1>6, <1>7, <1>8 DEF IsNormal
<1> QED
  BY <1>9, <1>10 DEF n

LEMMA NormalStays ==
  ASSUME NEW s, AreSettings(s), IsNormal(s) PROVE Normalized(s) = s
<1> DEFINE n == Normalized(s)
<1>1. s = [key \in Keys10 |-> s[key]] /\ s.profiles = [name \in Names |-> s.profiles[name]]
      /\ s.enabled \in BOOLEAN /\ s.cooldown \in Int
  BY DefaultKeys DEF AreSettings, Names
<1>2. /\ s.policy # "" /\ s.split \in -40..40 /\ (s.enabled \/ s.cooldown # 0)
      /\ \A name \in Names : s.profiles[name] # ""
  BY DEF IsNormal
<1>3. ~Unset(s)
  BY <1>2 DEF Unset
<1>4. n = [key \in Keys10 |-> n[key]]
  BY NormalizedFields
<1>5. n.policy = s.policy
  <2>1. n.policy = IF s.policy = "" THEN "sticky" ELSE s.policy
    BY NormalizedFields
  <2> QED
    BY <1>2, <2>1
<1>6. n.threshold = s.threshold
  <2>1. n.threshold = IF Unset(s) THEN 20 ELSE s.threshold
    BY NormalizedFields
  <2> QED
    BY <1>3, <2>1
<1>7. n.cooldown = s.cooldown
  <2>1. n.cooldown = IF s.cooldown = 0 /\ ~s.enabled THEN 1800 ELSE s.cooldown
    BY NormalizedFields
  <2>2. ~(s.cooldown = 0 /\ ~s.enabled)
    BY <1>2
  <2> QED
    BY <2>1, <2>2
<1>8. n.split = s.split
  <2>1. n.split = IF s.split \in -40..40 THEN s.split ELSE 0
    BY NormalizedFields
  <2> QED
    BY <1>2, <2>1
<1>9. n.profiles = s.profiles
  <2>1. n.profiles = [name \in Names |-> IF s.profiles[name] = "" THEN n.policy ELSE s.profiles[name]]
    BY NormalizedFields
  <2> HIDE DEF n
  <2> QED
    BY <1>1, <1>2, <2>1
<1>10. n.enabled = s.enabled /\ n.alias = s.alias /\ n.tag = s.tag /\ n.target = s.target
       /\ n.bindings = s.bindings
  BY NormalizedFields
<1> HIDE DEF n
<1>11. \A key \in Keys10 : n[key] = s[key]
  BY <1>5, <1>6, <1>7, <1>8, <1>9, <1>10 DEF Keys10
<1>12. n = s
  BY <1>1, <1>4, <1>11
<1> QED
  BY <1>12 DEF n

LEMMA ReadsBack ==
  ASSUME NEW s, AreSettings(s), ~Refused(s)
  PROVE  ~Refused(Normalized(s)) /\ Normalized(Normalized(s)) = Normalized(s)
<1> DEFINE n == Normalized(s)
<1>1. AreSettings(n) /\ IsNormal(n)
  BY NormalizedIsNormal
<1>2. Normalized(n) = n
  BY <1>1, NormalStays
<1>3. /\ n.policy \in Policies /\ ~(s.cooldown < 0) /\ s.threshold \in 0..100
      /\ \A name \in DOMAIN s.profiles : n.profiles[name] \in Policies \cup {NoProfile}
      /\ ~\E i \in DOMAIN s.bindings : s.bindings[i].profile = ""
  BY DEF Refused
<1>4. n.bindings = s.bindings /\ DOMAIN n.profiles = DOMAIN s.profiles
  <2>1. n.bindings = s.bindings
    BY NormalizedFields
  <2>2. DOMAIN n.profiles = Names /\ DOMAIN s.profiles = Names
    BY <1>1 DEF AreSettings, Names
  <2> QED
    BY <2>1, <2>2
<1>5. ~(n.cooldown < 0)
  <2>1. n.cooldown = IF s.cooldown = 0 /\ ~s.enabled THEN 1800 ELSE s.cooldown
    BY NormalizedFields
  <2>2. ~(s.cooldown < 0)
    BY <1>3
  <2> QED
    BY <2>1, <2>2
<1>6. n.threshold \in 0..100
  <2>1. n.threshold = IF Unset(s) THEN 20 ELSE s.threshold
    BY NormalizedFields
  <2>2. s.threshold \in 0..100
    BY <1>3
  <2> QED
    BY <2>1, <2>2
<1> HIDE DEF n
<1>7. ~Refused(n)
  BY <1>2, <1>3, <1>4, <1>5, <1>6 DEF Refused
<1> QED
  BY <1>2, <1>7 DEF n

\* An edit of some keys leaves the others as they were read, if it is about all
\* the alert settings when it is about one that the others depend on.
LEMMA OthersKept ==
  ASSUME NEW s, AreSettings(s), IsNormal(s), NEW t, AreSettings(t),
         NEW changed, \A key \in Keys10 \ changed : t[key] = s[key],
         changed \cap {"enabled", "cooldown"} # {} => {"cooldown", "threshold"} \subseteq changed
  PROVE  \A key \in Keys10 \ changed : Normalized(t)[key] = s[key]
<1> DEFINE n == Normalized(t)
<1>1. s.enabled \in BOOLEAN /\ s.cooldown \in Int /\ t.enabled \in BOOLEAN /\ t.cooldown \in Int
      /\ s.profiles = [name \in Names |-> s.profiles[name]]
  BY DEF AreSettings, Names
<1>2. /\ s.policy # "" /\ s.split \in -40..40 /\ (s.enabled \/ s.cooldown # 0)
      /\ \A name \in Names : s.profiles[name] # ""
  BY DEF IsNormal
<1>3. "policy" \notin changed => n.policy = s.policy
  <2>1. n.policy = IF t.policy = "" THEN "sticky" ELSE t.policy
    BY NormalizedFields
  <2>2. "policy" \notin changed => t.policy = s.policy
    BY DEF Keys10
  <2> QED
    BY <1>2, <2>1, <2>2
<1>4. "threshold" \notin changed => n.threshold = s.threshold
  <2>1. n.threshold = IF Unset(t) THEN 20 ELSE t.threshold
    BY NormalizedFields
  <2>2. "threshold" \notin changed =>
           t.threshold = s.threshold /\ t.cooldown = s.cooldown /\ t.enabled = s.enabled
    BY DEF Keys10
  <2>3. "threshold" \notin changed => ~Unset(t)
    BY <1>1, <1>2, <2>2 DEF Unset
  <2> QED
    BY <2>1, <2>2, <2>3
<1>5. "cooldown" \notin changed => n.cooldown = s.cooldown
  <2>1. n.cooldown = IF t.cooldown = 0 /\ ~t.enabled THEN 1800 ELSE t.cooldown
    BY NormalizedFields
  <2>2. "cooldown" \notin changed => t.cooldown = s.cooldown /\ t.enabled = s.enabled
    BY DEF Keys10
  <2>3. "cooldown" \notin changed => ~(t.cooldown = 0 /\ ~t.enabled)
    BY <1>2, <2>2
  <2> QED
    BY <2>1, <2>2, <2>3
<1>6. "split" \notin changed => n.split = s.split
  <2>1. n.split = IF t.split \in -40..40 THEN t.split ELSE 0
    BY NormalizedFields
  <2>2. "split" \notin changed => t.split = s.split
    BY DEF Keys10
  <2> QED
    BY <1>2, <2>1, <2>2
<1>7. "profiles" \notin changed => n.profiles = s.profiles
  <2>1. n.profiles = [name \in Names |-> IF t.profiles[name] = "" THEN n.policy ELSE t.profiles[name]]
    BY NormalizedFields
  <2>2. "profiles" \notin changed => t.profiles = s.profiles
    BY DEF Keys10
  <2> HIDE DEF n
  <2>3. ASSUME "profiles" \notin changed PROVE n.profiles = s.profiles
    <3>1. \A name \in Names : t.profiles[name] # ""
      BY <1>2, <2>2, <2>3
    <3>2. n.profiles = [name \in Names |-> t.profiles[name]]
      BY <2>1, <3>1
    <3> QED
      BY <1>1, <2>2, <2>3, <3>2
  <2> QED
    BY <2>3
<1>8. n.enabled = t.enabled /\ n.alias = t.alias /\ n.tag = t.tag /\ n.target = t.target
      /\ n.bindings = t.bindings
  BY NormalizedFields
<1> HIDE DEF n
<1>9. \A key \in Keys10 \ changed : n[key] = s[key]
  BY <1>3, <1>4, <1>5, <1>6, <1>7, <1>8 DEF Keys10
<1> QED
  BY <1>9 DEF n

\* What the form sends back fits the settings.
IsForm(form) == DOMAIN form = FormKeys /\ \A key \in FormKeys : Fits(key, form[key])

LEMMA PutKeeps ==
  ASSUME NEW s, AreSettings(s), NEW values, DOMAIN values \subseteq FormKeys \cup {"split"},
         \A key \in DOMAIN values : Fits(key, values[key])
  PROVE  /\ AreSettings(PutValues(values, s))
         /\ \A key \in Keys10 \ DOMAIN values : PutValues(values, s)[key] = s[key]
<1> DEFINE t == PutValues(values, s)
<1>1. s = [key \in Keys10 |-> s[key]] /\ DOMAIN s = Keys10
  BY DefaultKeys DEF AreSettings
<1>2. s.enabled \in BOOLEAN /\ s.threshold \in Int /\ s.cooldown \in Int /\ s.split \in Int
      /\ s.profiles = [name \in Names |-> s.profiles[name]]
  BY DEF AreSettings, Names
<1>3. t = [key \in Keys10 |-> IF key \in DOMAIN values THEN values[key] ELSE s[key]]
  BY <1>1 DEF PutValues
<1> HIDE DEF t
<1>4. t = [key \in Keys10 |-> t[key]]
  BY <1>3
<1>5. \A key \in Keys10 \ DOMAIN values : t[key] = s[key]
  BY <1>3
<1>6. \A key \in DOMAIN values : key \in Keys10 /\ t[key] = values[key]
  BY <1>3 DEF FormKeys, Keys10
<1>7. t.enabled \in BOOLEAN
  BY <1>2, <1>5, <1>6 DEF Fits, Keys10
<1>8. t.threshold \in Int /\ t.cooldown \in Int /\ t.split \in Int
  BY <1>2, <1>5, <1>6 DEF Fits, Keys10
<1>9. t.profiles = s.profiles
  BY <1>5 DEF Keys10, FormKeys
<1>10. AreSettings(t)
  BY <1>2, <1>4, <1>7, <1>8, <1>9, DefaultKeys DEF AreSettings, Names
<1> QED
  BY <1>5, <1>10 DEF t

\* A command changes the keys it is about, and leaves settings.
LEMMA EditedIsSettings ==
  ASSUME NEW s, AreSettings(s), NEW edit, IsEdit(edit),
         edit.kind \notin {"reset", "dashboard reset"},
         NEW form, edit.kind = "form" => IsForm(form)
  PROVE  /\ AreSettings(Edited(edit, form, s))
         /\ \A key \in Keys10 \ KeysOf(edit) : Edited(edit, form, s)[key] = s[key]
<1> DEFINE t == Edited(edit, form, s)
           Untouched == AreSettings(t) /\ \A key \in Keys10 \ KeysOf(edit) : t[key] = s[key]
<1> SUFFICES Untouched
  OBVIOUS
<1>a. ASSUME NEW k \in {"alias", "tag", "target", "bindings"}, k \in KeysOf(edit),
             NEW value, t = [s EXCEPT ![k] = value]
      PROVE  Untouched
  <2> HIDE DEF t
  <2>1. s = [key \in Keys10 |-> s[key]]
    BY DefaultKeys DEF AreSettings
  <2>2. t = [key \in Keys10 |-> t[key]] /\ \A key \in Keys10 \ {k} : t[key] = s[key]
    BY <1>a, <2>1
  <2>3. /\ t.enabled = s.enabled /\ t.threshold = s.threshold /\ t.cooldown = s.cooldown
        /\ t.split = s.split /\ t.profiles = s.profiles
    BY <2>2 DEF Keys10
  <2>4. AreSettings(t)
    BY <2>2, <2>3, DefaultKeys DEF AreSettings
  <2> QED
    BY <1>a, <2>2, <2>4
<1>b. ASSUME NEW name \in Names, "profiles" \in KeysOf(edit),
             NEW value, t = [s EXCEPT !.profiles[name] = value]
      PROVE  Untouched
  <2> HIDE DEF t
  <2> DEFINE profiles == [s.profiles EXCEPT ![name] = value]
  <2>1. s = [key \in Keys10 |-> s[key]] /\ s.profiles = [n \in Names |-> s.profiles[n]]
    BY DefaultKeys DEF AreSettings, Names
  <2>2. profiles = [n \in Names |-> profiles[n]]
    BY <2>1
  <2>3. t = [s EXCEPT !.profiles = profiles]
    BY <1>b
  <2> HIDE DEF profiles
  <2>4. t = [key \in Keys10 |-> t[key]] /\ \A key \in Keys10 \ {"profiles"} : t[key] = s[key]
    BY <2>1, <2>3 DEF Keys10
  <2>5. t.profiles = profiles
    BY <2>1, <2>3 DEF Keys10
  <2>6. /\ t.enabled = s.enabled /\ t.threshold = s.threshold /\ t.cooldown = s.cooldown
        /\ t.split = s.split
    BY <2>4 DEF Keys10
  <2>7. AreSettings(t)
    BY <2>2, <2>4, <2>5, <2>6, DefaultKeys DEF AreSettings, Names
  <2> QED
    BY <1>b, <2>4, <2>7
<1>1. CASE edit.kind = "put"
  <2>1. t = PutValues(edit.values, s) /\ DOMAIN edit.values \subseteq KeysOf(edit)
    BY <1>1 DEF Edited, KeysOf
  <2> QED
    BY <1>1, <2>1, PutKeeps DEF IsEdit
<1>2. CASE edit.kind = "form"
  <2>1. t = PutValues(form, s) /\ FormKeys \subseteq KeysOf(edit)
    BY <1>2 DEF Edited, KeysOf
  <2> QED
    BY <1>2, <2>1, PutKeeps DEF IsForm
<1>3. CASE edit.kind = "alias"
  <2>1. t = [s EXCEPT !["alias"] = edit.value] /\ "alias" \in KeysOf(edit)
    BY <1>3 DEF Edited, AliasSet, KeysOf
  <2> HIDE DEF t, Kept
  <2> QED
    BY <2>1, <1>a
<1>4. CASE edit.kind = "tag"
  <2>1. t = [s EXCEPT !["tag"] = edit.value] /\ "tag" \in KeysOf(edit)
    BY <1>4 DEF Edited, TagSet, KeysOf
  <2> HIDE DEF t, Kept
  <2> QED
    BY <2>1, <1>a
<1>5. CASE edit.kind = "target"
  <2>1. t = [s EXCEPT !["target"] = edit.value] /\ "target" \in KeysOf(edit)
    BY <1>5 DEF Edited, TargetSet, KeysOf
  <2> HIDE DEF t, Kept
  <2> QED
    BY <2>1, <1>a
<1>6. CASE edit.kind = "profile set"
  <2> DEFINE old == s.profiles[edit.name]
             policy == IF edit.policy # "" THEN edit.policy ELSE IF old # NoProfile THEN old ELSE s.policy
  <2>1. t = [s EXCEPT !.profiles[edit.name] = policy] /\ "profiles" \in KeysOf(edit)
    BY <1>6 DEF Edited, ProfileSet, KeysOf
  <2>2. edit.name \in Names
    BY <1>6 DEF IsEdit, Names
  <2> HIDE DEF policy
  <2> HIDE DEF t, Kept
  <2> QED
    BY <2>1, <2>2, <1>b
<1>7. CASE edit.kind = "profile remove"
  <2>1. t = [s EXCEPT !.profiles[edit.name] = NoProfile] /\ "profiles" \in KeysOf(edit)
    BY <1>7 DEF Edited, KeysOf
  <2>2. edit.name \in Names
    BY <1>7 DEF IsEdit, Names
  <2> HIDE DEF t, Kept
  <2> QED
    BY <2>1, <2>2, <1>b
<1>8. CASE edit.kind \in {"bind set", "bind remove"}
  <2>1. "bindings" \in KeysOf(edit)
    BY <1>8 DEF KeysOf
  <2>2. \E bindings : t = [s EXCEPT !["bindings"] = bindings]
    BY <1>8 DEF Edited, BindingSet, BindingRemove
  <2> HIDE DEF t, Kept
  <2> QED
    BY <2>1, <2>2, <1>a
<1> QED
  BY <1>1, <1>2, <1>3, <1>4, <1>5, <1>6, <1>7, <1>8 DEF IsEdit

IsEditor(e) == e = [at |-> e.at, copy |-> e.copy, revision |-> e.revision, form |-> e.form]

LoadsFirst(edit) == edit.kind # "dashboard reset"

\* What one process has in hand, when the file has the settings and the revision
\* of "file".  A copy whose revision is still the file's is the file.
EditorOK(e, edit, file) ==
  /\ IsEditor(e)
  /\ e.revision \in Nat /\ e.revision <= file.revision
  /\ edit.kind = "form" /\ e.at \in {"form", "loaded"} => IsForm(e.form)
  /\ e.at = "loaded" => LoadsFirst(edit)
  /\ e.at = "loaded" =>
       /\ AreSettings(e.copy) /\ IsNormal(e.copy)
       /\ e.revision = file.revision => e.copy = Normalized(file.settings)

SettingsInv ==
  /\ settingsPlan \in SettingsPlans
  /\ config = [settings |-> config.settings, revision |-> config.revision]
  /\ AreSettings(config.settings) /\ config.revision \in Nat
  /\ editors = [p \in Editors |-> editors[p]]
  /\ \A p \in Editors : EditorOK(editors[p], EditOf(p), config)

LEMMA EditsAreEdits == ASSUME SettingsInv, NEW p \in Editors PROVE IsEdit(EditOf(p))
BY SettingsParameters DEF SettingsInv, Editors, EditOf

LEMMA SettingsStart == SettingsInit => SettingsInv
<1> SUFFICES ASSUME SettingsInit PROVE SettingsInv
  OBVIOUS
<1> DEFINE first == [at |-> "start", copy |-> Defaults, revision |-> 0, form |-> Defaults]
           held == IF settingsPlan.exists THEN settingsPlan.file ELSE Defaults
           number == IF settingsPlan.exists THEN 1 ELSE 0
<1>1. settingsPlan \in SettingsPlans /\ AreSettings(held) /\ number \in Nat
  BY SettingsParameters, DefaultsAreSettings DEF SettingsInit
<1>2. config = [settings |-> held, revision |-> number] /\ editors = [p \in Editors |-> first]
  BY DEF SettingsInit
<1>3. IsEditor(first) /\ first.revision = 0 /\ first.at = "start"
  BY DEF IsEditor
<1> HIDE DEF first, held, number
<1>4. ASSUME NEW p \in Editors PROVE EditorOK(editors[p], EditOf(p), config)
  <2>1. editors[p] = first /\ config.revision = number
    BY <1>2
  <2> QED
    BY <1>1, <1>3, <2>1 DEF EditorOK
<1> QED
  BY <1>1, <1>2, <1>4 DEF SettingsInv

\* A process goes on, with the file as it was.
LEMMA EditorGoesOn ==
  ASSUME SettingsInv, UNCHANGED <<settingsPlan, config>>, NEW p \in Editors, NEW e,
         editors' = [editors EXCEPT ![p] = e], EditorOK(e, EditOf(p), config)
  PROVE  SettingsInv'
<1>1. editors' = [q \in Editors |-> IF q = p THEN e ELSE editors[q]]
  BY DEF SettingsInv
<1>2. Editors' = Editors /\ \A q \in Editors : EditOf(q)' = EditOf(q)
  BY DEF Editors, EditOf
<1>3. \A q \in Editors' : EditorOK(editors'[q], EditOf(q)', config')
  BY <1>1, <1>2 DEF SettingsInv
<1>4. editors' = [q \in Editors' |-> editors'[q]]
  BY <1>1, <1>2
<1> QED
  BY <1>3, <1>4 DEF SettingsInv

\* A process writes the file: the copies of the others are out of date.
LEMMA EditorWrites ==
  ASSUME SettingsInv, UNCHANGED settingsPlan, NEW p \in Editors,
         editors' = [editors EXCEPT ![p].at = "saved"],
         NEW s, AreSettings(s),
         config' = [settings |-> s, revision |-> config.revision + 1]
  PROVE  SettingsInv'
<1>1. Editors' = Editors /\ \A q \in Editors : EditOf(q)' = EditOf(q)
  BY DEF Editors, EditOf
<1>2. editors' = [q \in Editors |-> editors'[q]]
      /\ \A q \in Editors : editors'[q] = IF q = p THEN [editors[p] EXCEPT !.at = "saved"] ELSE editors[q]
  BY DEF SettingsInv
<1>3. config'.revision = config.revision + 1 /\ config.revision \in Nat
  BY DEF SettingsInv
<1>4. ASSUME NEW q \in Editors PROVE EditorOK(editors'[q], EditOf(q), config')
  <2>1. EditorOK(editors[q], EditOf(q), config)
    BY DEF SettingsInv
  <2>2. CASE q # p
    BY <1>2, <1>3, <2>1, <2>2 DEF EditorOK
  <2>3. CASE q = p
    <3> DEFINE e == editors[q]
               result == [e EXCEPT !.at = "saved"]
    <3>1. IsEditor(e) /\ e.revision \in Nat /\ e.revision <= config.revision
      BY <2>1 DEF EditorOK
    <3>2. IsEditor(result) /\ result.at = "saved" /\ result.revision = e.revision
      BY <3>1 DEF IsEditor
    <3>3. editors'[q] = result
      BY <1>2, <2>3
    <3> HIDE DEF result, e
    <3>4. result.at \notin {"form", "loaded"}
      BY <3>2
    <3>5. result.revision \in Nat /\ result.revision <= config'.revision
      BY <1>3, <3>1, <3>2
    <3> QED
      BY <3>2, <3>3, <3>4, <3>5 DEF EditorOK
  <2> QED
    BY <2>2, <2>3
<1> QED
  BY <1>1, <1>2, <1>3, <1>4 DEF SettingsInv

\* A save writes what was edited, if it may.
LEMMA SavesSettings ==
  ASSUME SettingsInv, NEW p \in Editors, SaveSettings(p),
         NEW edited, edited = Edited(EditOf(p), editors[p].form, editors[p].copy)
  PROVE  /\ AreSettings(edited) /\ EditOf(p).kind \notin {"reset", "dashboard reset"}
         /\ UNCHANGED settingsPlan
         /\ \/ config' = config /\ editors' = [editors EXCEPT ![p].at = "failed"]
            \/ /\ config' = [settings |-> Normalized(edited), revision |-> config.revision + 1]
               /\ editors' = [editors EXCEPT ![p].at = "saved"]
               /\ Current(p) /\ ~Refused(edited)
<1>1. IsEdit(EditOf(p)) /\ EditorOK(editors[p], EditOf(p), config) /\ editors[p].at = "loaded"
      /\ EditOf(p).kind # "reset"
  BY EditsAreEdits DEF SettingsInv, SaveSettings
<1>2. AreSettings(editors[p].copy) /\ EditOf(p).kind # "dashboard reset"
      /\ (EditOf(p).kind = "form" => IsForm(editors[p].form))
  <2>1. LoadsFirst(EditOf(p)) /\ AreSettings(editors[p].copy)
    BY <1>1 DEF EditorOK
  <2>2. EditOf(p).kind = "form" => IsForm(editors[p].form)
    BY <1>1 DEF EditorOK
  <2> QED
    BY <2>1, <2>2 DEF LoadsFirst
<1>3. AreSettings(edited)
  BY <1>1, <1>2, EditedIsSettings
<1> DEFINE result == Possible(EditOf(p), editors[p].copy) /\ Current(p) /\ Saveable(edited)
<1>4. /\ editors' = [editors EXCEPT ![p].at = IF result THEN "saved" ELSE "failed"]
      /\ config' = IF result THEN [settings |-> Normalized(edited), revision |-> config.revision + 1]
                   ELSE config
      /\ UNCHANGED settingsPlan
  BY DEF SaveSettings
<1>5. result => Current(p) /\ ~Refused(edited)
  BY DEF Saveable
<1> HIDE DEF result
<1> QED
  BY <1>1, <1>2, <1>3, <1>4, <1>5

LEMMA ResetsSettings ==
  ASSUME SettingsInv, NEW p \in Editors, ResetSettings(p)
  PROVE  /\ EditOf(p).kind \in {"reset", "dashboard reset"} /\ UNCHANGED settingsPlan
         /\ config' = [settings |-> Defaults, revision |-> config.revision + 1]
         /\ editors' = [editors EXCEPT ![p].at = "saved"]
BY DEF ResetSettings

LEMMA SettingsStay == SettingsInv /\ [SettingsNext]_settingsVars => SettingsInv'
<1> SUFFICES ASSUME SettingsInv, [SettingsNext]_settingsVars PROVE SettingsInv'
  OBVIOUS
<1>1. ASSUME NEW p \in Editors, OpenForm(p) PROVE SettingsInv'
  <2> DEFINE values == EditOf(p).values
             form == PutValues(values, [key \in FormKeys |-> InFile[key]])
             e == editors[p]
             n == [e EXCEPT !.at = "form", !.form = form]
  <2>1. /\ editors' = [editors EXCEPT ![p] = n]
        /\ e.at = "start" /\ EditOf(p).kind = "form" /\ UNCHANGED <<settingsPlan, config>>
    BY <1>1 DEF OpenForm, SettingsInv
  <2>2. IsEdit(EditOf(p)) /\ EditorOK(e, EditOf(p), config) /\ AreSettings(InFile)
    BY EditsAreEdits, NormalizedIsNormal DEF SettingsInv, InFile
  <2>3. IsForm(form)
    <3>1. DOMAIN form = FormKeys
      BY DEF PutValues
    <3>2. \A key \in FormKeys : form[key] = IF key \in DOMAIN values THEN values[key] ELSE InFile[key]
      BY DEF PutValues
    <3>3. \A key \in DOMAIN values : Fits(key, values[key])
      BY <2>1, <2>2 DEF IsEdit
    <3>4. \A key \in FormKeys : Fits(key, InFile[key])
      BY <2>2 DEF AreSettings, Fits, FormKeys
    <3> HIDE DEF form, values
    <3> QED
      BY <3>1, <3>2, <3>3, <3>4 DEF IsForm
  <2> HIDE DEF form
  <2>4. EditorOK(n, EditOf(p), config)
    <3>1. IsEditor(e) /\ e.revision \in Nat /\ e.revision <= config.revision
      BY <2>2 DEF EditorOK
    <3> DEFINE at == "form"
    <3>a. n = [e EXCEPT !.at = at, !.form = form]
      OBVIOUS
    <3> HIDE DEF at, e, n
    <3>2. IsEditor(n) /\ n.at = at /\ n.revision = e.revision /\ n.form = form
      BY <3>1, <3>a DEF IsEditor
    <3> HIDE DEF n, e
    <3>3. n.at # "loaded"
      BY <3>2 DEF at
    <3> QED
      BY <2>3, <3>1, <3>2, <3>3 DEF EditorOK
  <2> QED
    BY <2>1, <2>4, EditorGoesOn
<1>2. ASSUME NEW p \in Editors, LoadSettings(p) PROVE SettingsInv'
  <2> DEFINE e == editors[p]
             at == IF Unreadable THEN "failed" ELSE "loaded"
             copy == IF Unreadable THEN e.copy ELSE InFile
             n == [e EXCEPT !.at = at, !.copy = copy, !.revision = config.revision]
  <2>1. /\ editors' = [editors EXCEPT ![p] = n] /\ UNCHANGED <<settingsPlan, config>>
        /\ (EditOf(p).kind = "form" => e.at = "form") /\ EditOf(p).kind # "dashboard reset"
    BY <1>2 DEF LoadSettings, SettingsInv
  <2>2. EditorOK(e, EditOf(p), config) /\ AreSettings(InFile) /\ IsNormal(InFile)
        /\ config.revision \in Nat
    BY NormalizedIsNormal DEF SettingsInv, InFile
  <2>3. at = "loaded" => copy = InFile
    OBVIOUS
  <2>4. at \in {"failed", "loaded"}
    OBVIOUS
  <2> HIDE DEF at, copy
  <2>5. EditorOK(n, EditOf(p), config)
    <3>1. IsEditor(e)
      BY <2>2 DEF EditorOK
    <3> DEFINE revision == config.revision
    <3>a. n = [e EXCEPT !.at = at, !.copy = copy, !.revision = revision]
      OBVIOUS
    <3> HIDE DEF e, n, revision
    <3>b. IsEditor(n) /\ n.at = at /\ n.copy = copy /\ n.revision = revision /\ n.form = e.form
      BY <3>1, <3>a DEF IsEditor
    <3>2. IsEditor(n) /\ n.at = at /\ n.copy = copy /\ n.revision = config.revision /\ n.form = e.form
      BY <3>b DEF revision
    <3>3. EditOf(p).kind = "form" => IsForm(e.form)
      BY <2>1, <2>2 DEF EditorOK
    <3>4. LoadsFirst(EditOf(p))
      BY <2>1 DEF LoadsFirst
    <3> HIDE DEF n, e
    <3>5. n.at = "loaded" => n.copy = InFile /\ AreSettings(n.copy) /\ IsNormal(n.copy)
      BY <2>2, <2>3, <3>2
    <3>6. n.revision \in Nat /\ n.revision <= config.revision
      BY <2>2, <3>2
    <3> QED
      BY <3>2, <3>3, <3>4, <3>5, <3>6 DEF EditorOK, InFile
  <2> QED
    BY <2>1, <2>5, EditorGoesOn
<1>3. ASSUME NEW p \in Editors, SaveSettings(p) PROVE SettingsInv'
  <2> DEFINE edited == Edited(EditOf(p), editors[p].form, editors[p].copy)
             e == editors[p]
             n == [e EXCEPT !.at = "failed"]
  <2> HIDE DEF edited
  <2>1. /\ AreSettings(edited) /\ UNCHANGED settingsPlan
        /\ \/ config' = config /\ editors' = [editors EXCEPT ![p].at = "failed"]
           \/ /\ config' = [settings |-> Normalized(edited), revision |-> config.revision + 1]
              /\ editors' = [editors EXCEPT ![p].at = "saved"]
    BY <1>3, SavesSettings DEF edited
  <2>2. CASE config' = config /\ editors' = [editors EXCEPT ![p].at = "failed"]
    <3>1. editors' = [editors EXCEPT ![p] = n]
      BY <2>2 DEF SettingsInv
    <3>2. EditorOK(n, EditOf(p), config)
      <4>1. IsEditor(e) /\ e.revision \in Nat /\ e.revision <= config.revision
        BY DEF EditorOK, SettingsInv
      <4>2. IsEditor(n) /\ n.at = "failed" /\ n.revision = e.revision
        BY <4>1 DEF IsEditor
      <4> HIDE DEF n, e
      <4> QED
        BY <4>1, <4>2 DEF EditorOK
    <3> QED
      BY <2>1, <2>2, <3>1, <3>2, EditorGoesOn
  <2>3. CASE /\ config' = [settings |-> Normalized(edited), revision |-> config.revision + 1]
             /\ editors' = [editors EXCEPT ![p].at = "saved"]
    <3>1. AreSettings(Normalized(edited))
      BY <2>1, NormalizedIsNormal
    <3> QED
      BY <2>1, <2>3, <3>1, EditorWrites
  <2> QED
    BY <2>1, <2>2, <2>3
<1>4. ASSUME NEW p \in Editors, ResetSettings(p) PROVE SettingsInv'
  BY <1>4, ResetsSettings, EditorWrites, DefaultsAreSettings
<1>5. CASE UNCHANGED settingsVars
  BY <1>5 DEF settingsVars, SettingsInv, Editors, EditOf
<1> QED
  BY <1>1, <1>2, <1>3, <1>4, <1>5 DEF SettingsNext

LEMMA AlertsTogether ==
  ASSUME NEW edit, KeysOf(edit) \cap {"enabled", "cooldown"} # {}
  PROVE  {"cooldown", "threshold"} \subseteq KeysOf(edit)
<1> DEFINE given == CASE edit.kind = "put" -> DOMAIN edit.values
                      [] edit.kind = "form" -> FormKeys
                      [] edit.kind \in {"alias", "tag", "target"} -> {edit.kind}
                      [] edit.kind \in {"profile set", "profile remove"} -> {"profiles"}
                      [] edit.kind \in {"bind set", "bind remove"} -> {"bindings"}
                      [] OTHER -> DOMAIN Defaults
<1>1. KeysOf(edit) =
        given \cup (IF given \cap {"enabled", "cooldown"} # {} THEN {"cooldown", "threshold"} ELSE {})
  BY DEF KeysOf
<1> HIDE DEF given
<1> QED
  BY <1>1

\* One step never undoes what another process saved.
LEMMA SaveKeepsOthers ==
  ASSUME SettingsInv, [SettingsNext]_settingsVars, NEW p \in Editors, Saves(p),
         NEW key \in DOMAIN Defaults \ KeysOf(EditOf(p))
  PROVE  config'.settings[key] = InFile[key]
<1>1. key \in Keys10 /\ key \notin KeysOf(EditOf(p))
  BY DefaultKeys
<1>2. PICK q \in Editors : OpenForm(q) \/ LoadSettings(q) \/ SaveSettings(q) \/ ResetSettings(q)
  BY DEF Saves, settingsVars, SettingsNext
<1>3. p = q
  <2>1. p # q => editors'[p] = editors[p]
    BY <1>2 DEF SettingsInv, OpenForm, LoadSettings, SaveSettings, ResetSettings
  <2> QED
    BY <2>1 DEF Saves
<1>4. CASE OpenForm(p) \/ LoadSettings(p)
  <2>1. editors'[p].at # "saved"
    <3>1. IsEditor(editors[p])
      BY DEF SettingsInv, EditorOK
    <3>2. editors'[p].at \in {"form", "failed", "loaded"}
      <4> DEFINE form == PutValues(EditOf(p).values, [k \in FormKeys |-> InFile[k]])
                 copy == IF Unreadable THEN editors[p].copy ELSE InFile
                 at == IF Unreadable THEN "failed" ELSE "loaded"
      <4>1. editors = [x \in Editors |-> editors[x]]
        BY DEF SettingsInv
      <4>2. \/ editors' = [editors EXCEPT ![p].at = "form", ![p].form = form]
            \/ editors' = [editors EXCEPT ![p].at = at, ![p].copy = copy, ![p].revision = config.revision]
        BY <1>4 DEF OpenForm, LoadSettings
      <4>3. at \in {"failed", "loaded"}
        OBVIOUS
      <4> HIDE DEF form, copy, at
      <4>4. editors'[p].at \in {"form", at}
        BY <3>1, <4>1, <4>2 DEF IsEditor
      <4> QED
        BY <4>3, <4>4
    <3> QED
      BY <3>2
  <2> QED
    BY <2>1 DEF Saves
<1>5. CASE ResetSettings(p)
  <2>1. EditOf(p).kind \in {"reset", "dashboard reset"}
    BY <1>5, ResetsSettings
  <2>2. KeysOf(EditOf(p)) = Keys10
    <3> DEFINE edit == EditOf(p)
    <3>1. edit.kind \in {"reset", "dashboard reset"}
      BY <2>1
    <3> HIDE DEF edit
    <3>2. KeysOf(edit) = Keys10
      BY <3>1, DefaultKeys DEF KeysOf, Keys10
    <3> QED
      BY <3>2 DEF edit
  <2> QED
    BY <1>1, <2>2
<1>6. CASE SaveSettings(p)
  <2> DEFINE s == editors[p].copy
             t == Edited(EditOf(p), editors[p].form, s)
  <2>1. EditorOK(editors[p], EditOf(p), config) /\ editors[p].at = "loaded" /\ IsEdit(EditOf(p))
    BY <1>6, EditsAreEdits DEF SettingsInv, SaveSettings
  <2>2. AreSettings(s) /\ IsNormal(s)
    BY <2>1 DEF EditorOK
  <2>3. EditOf(p).kind = "form" => IsForm(editors[p].form)
    BY <2>1 DEF EditorOK
  <2>4. EditOf(p).kind \notin {"reset", "dashboard reset"} /\ AreSettings(t)
    BY <1>6, SavesSettings
  <2>5. \A k \in Keys10 \ KeysOf(EditOf(p)) : t[k] = s[k]
    <3> DEFINE edit == EditOf(p)
               form == editors[p].form
    <3>1. /\ AreSettings(s) /\ IsEdit(edit) /\ edit.kind \notin {"reset", "dashboard reset"}
          /\ (edit.kind = "form" => IsForm(form))
      BY <2>1, <2>2, <2>3, <2>4
    <3>2. t = Edited(edit, form, s)
      OBVIOUS
    <3> HIDE DEF edit, form, s, t
    <3>3. \A k \in Keys10 \ KeysOf(edit) : t[k] = s[k]
      BY <3>1, <3>2, EditedIsSettings
    <3> QED
      BY <3>3 DEF edit
  <2>6. \A k \in Keys10 \ KeysOf(EditOf(p)) : Normalized(t)[k] = s[k]
    <3> DEFINE changed == KeysOf(EditOf(p))
    <3>1. changed \cap {"enabled", "cooldown"} # {} => {"cooldown", "threshold"} \subseteq changed
      BY AlertsTogether
    <3> HIDE DEF t, s, changed
    <3>2. \A k \in Keys10 \ changed : t[k] = s[k]
      BY <2>5 DEF changed
    <3>3. \A k \in Keys10 \ changed : Normalized(t)[k] = s[k]
      BY <2>2, <2>4, <3>1, <3>2, OthersKept, ZenonT(60)
    <3> QED
      BY <3>3 DEF changed
  <2>7. \/ config' = config /\ editors' = [editors EXCEPT ![p].at = "failed"]
        \/ /\ config' = [settings |-> Normalized(t), revision |-> config.revision + 1]
           /\ Current(p)
    BY <1>6, SavesSettings
  <2>8. ~(editors' = [editors EXCEPT ![p].at = "failed"])
    <3>1. IsEditor(editors[p]) /\ editors = [x \in Editors |-> editors[x]]
      BY <2>1 DEF EditorOK, SettingsInv
    <3>2. editors' = [editors EXCEPT ![p].at = "failed"] => editors'[p].at = "failed"
      BY <3>1 DEF IsEditor
    <3> QED
      BY <3>2 DEF Saves
  <2>9. config'.settings = Normalized(t) /\ Current(p)
    <3> HIDE DEF t
    <3> QED
      BY <2>7, <2>8
  <2>10. s = InFile
    BY <2>1, <2>9 DEF EditorOK, Current, InFile
  <2> HIDE DEF s, t
  <2> QED
    BY <1>1, <2>6, <2>9, <2>10
<1> QED
  BY <1>2, <1>3, <1>4, <1>5, <1>6

\* Whatever commands and forms run at once, each for any of its arguments and on
\* any file: what one command saved stays until a command about the same setting,
\* or a reset, changes it (settings.go:260).
THEOREM SavedEditsStay == SettingsSpec => OtherEditsStay
<1>1. SettingsInv /\ [SettingsNext]_settingsVars =>
        [\A p \in Editors : Saves(p) =>
           \A key \in DOMAIN Defaults \ KeysOf(EditOf(p)) : config'.settings[key] = InFile[key]]_settingsVars
  BY SaveKeepsOthers
<1> QED
  BY <1>1, SettingsStart, SettingsStay, PTL DEF SettingsSpec, OtherEditsStay

\* Whatever is saved can be read again, and is read as it was saved.
THEOREM SettingsReadBack == SettingsSpec => SavedReadsBack
<1>1. SettingsInv /\ [SettingsNext]_settingsVars =>
        [config' # config =>
           ~Refused(config'.settings) /\ Normalized(config'.settings) = config'.settings]_settingsVars
  <2> SUFFICES ASSUME SettingsInv, SettingsNext, config' # config
               PROVE  ~Refused(config'.settings) /\ Normalized(config'.settings) = config'.settings
    BY DEF settingsVars
  <2>1. PICK p \in Editors : OpenForm(p) \/ LoadSettings(p) \/ SaveSettings(p) \/ ResetSettings(p)
    BY DEF SettingsNext
  <2>2. SaveSettings(p) \/ ResetSettings(p)
    BY <2>1 DEF OpenForm, LoadSettings
  <2>3. CASE SaveSettings(p)
    <3> DEFINE t == Edited(EditOf(p), editors[p].form, editors[p].copy)
    <3>1. AreSettings(t) /\ ~Refused(t)
          /\ config' = [settings |-> Normalized(t), revision |-> config.revision + 1]
      BY <2>3, SavesSettings
    <3> HIDE DEF t
    <3>2. config'.settings = Normalized(t)
      BY <3>1
    <3> QED
      BY <3>1, <3>2, ReadsBack
  <2>4. CASE ResetSettings(p)
    <3>1. config'.settings = Defaults
      <4> DEFINE revision == config.revision + 1
      <4>1. config' = [settings |-> Defaults, revision |-> revision]
        BY <2>4, ResetsSettings
      <4> HIDE DEF revision
      <4> QED
        BY <4>1
    <3>2. Normalized(Defaults) = Defaults
      BY DefaultsAreSettings, NormalStays
    <3>3. ~Refused(Defaults)
      <4>1. Defaults.policy \in Policies
        BY DefaultFields DEF Policies
      <4>2. \A name \in DOMAIN Defaults.profiles : Defaults.profiles[name] \in Policies \cup {NoProfile}
        BY DefaultProfiles DEF NoProfile
      <4>3. DOMAIN Defaults.bindings = {}
        BY DefaultFields
      <4> QED
        BY <3>2, <4>1, <4>2, <4>3, DefaultFields DEF Refused
    <3> QED
      BY <3>1, <3>2, <3>3
  <2> QED
    BY <2>2, <2>3, <2>4
<1> QED
  BY <1>1, SettingsStart, SettingsStay, PTL DEF SettingsSpec, SavedReadsBack

\* Of two folders that hold a third one, the one with the shorter path holds the other.
LEMMA ShorterHoldsLonger ==
  ASSUME NEW F, NEW s \in Seq(F), NEW t \in Seq(F), NEW dir \in Seq(F),
         IsPrefix(s, dir), IsPrefix(t, dir), Len(s) <= Len(t)
  PROVE  IsPrefix(s, t)
<1>1. Len(s) \in Nat /\ Len(t) \in Nat /\ Len(dir) \in Nat /\ Len(s) <= Len(dir) /\ Len(t) <= Len(dir)
  BY DEF IsPrefix
<1>2. \A i \in 1..Len(s) : SubSeq(s, 1, Len(s))[i] = s[i] /\ SubSeq(dir, 1, Len(s))[i] = dir[i]
  BY <1>1
<1>3. \A i \in 1..Len(t) : SubSeq(t, 1, Len(t))[i] = t[i] /\ SubSeq(dir, 1, Len(t))[i] = dir[i]
  BY <1>1
<1>4. SubSeq(s, 1, Len(s)) = SubSeq(dir, 1, Len(s)) /\ SubSeq(t, 1, Len(t)) = SubSeq(dir, 1, Len(t))
  BY DEF IsPrefix
<1>5. \A i \in 1..Len(s) : s[i] = dir[i]
  BY <1>2, <1>4
<1>6. \A i \in 1..Len(t) : t[i] = dir[i]
  BY <1>3, <1>4
<1>7. \A i \in 1..Len(s) : s[i] = t[i]
  BY <1>1, <1>5, <1>6
<1> DEFINE a == SubSeq(s, 1, Len(s))
           b == SubSeq(t, 1, Len(s))
<1>8. /\ a = [i \in 1..Len(s) |-> a[i]] /\ b = [i \in 1..Len(s) |-> b[i]]
      /\ \A i \in 1..Len(s) : a[i] = s[i] /\ b[i] = t[i]
  BY <1>1
<1>9. a = b
  <2> HIDE DEF a, b
  <2> QED
    BY <1>7, <1>8
<1> QED
  BY <1>9 DEF IsPrefix

\* The loop of resolveBinding, step by step.
LEMMA BindingLoopIs ==
  ASSUME NEW bindings, NEW dir, Len(bindings) \in Nat
  PROVE  \E best : /\ ResolveBinding(bindings, dir) = best[Len(bindings)]
                   /\ best[0] = NoBinding
                   /\ \A n \in 1..Len(bindings) :
                        best[n] = IF Nearer(bindings[n], best[n - 1], dir) THEN bindings[n] ELSE best[n - 1]
<1> DEFINE N == Len(bindings)
           Body(f, D) == [n \in D |-> IF n = 0 THEN NoBinding
                                      ELSE IF Nearer(bindings[n], f[n - 1], dir) THEN bindings[n]
                                      ELSE f[n - 1]]
           best == CHOOSE f : f = Body(f, 0..N)
           good == {n \in 0..N : \E f : f = Body(f, 0..n)}
<1>1. ResolveBinding(bindings, dir) = best[N]
  BY DEF ResolveBinding
<1>2. 0 \in good
  <2>1. [n \in 0..0 |-> NoBinding] = Body([n \in 0..0 |-> NoBinding], 0..0)
    OBVIOUS
  <2> HIDE DEF Body
  <2> QED
    BY <2>1
<1>3. ASSUME NEW m \in 1..N, m - 1 \in good PROVE m \in good
  <2>1. PICK f : f = Body(f, 0..(m - 1))
    BY <1>3
  <2> DEFINE last == IF Nearer(bindings[m], f[m - 1], dir) THEN bindings[m] ELSE f[m - 1]
             g == [n \in 0..m |-> IF n < m THEN f[n] ELSE last]
  <2>2. ASSUME NEW n \in 0..m PROVE g[n] = Body(g, 0..m)[n]
    <3>1. m \in Nat /\ n \in Nat
      OBVIOUS
    <3>2. CASE n = m
      <4>1. g[n] = last /\ g[n - 1] = f[n - 1]
        BY <3>1, <3>2
      <4> QED
        BY <3>1, <3>2, <4>1
    <3>3. CASE n < m
      <4>1. n \in 0..(m - 1)
        BY <3>1, <3>3
      <4>2. g[n] = f[n] /\ (n > 0 => g[n - 1] = f[n - 1])
        BY <3>1, <3>3
      <4>3. f[n] = Body(f, 0..(m - 1))[n]
        BY <2>1
      <4> HIDE DEF g
      <4> QED
        BY <3>1, <4>1, <4>2, <4>3
    <3> QED
      BY <3>1, <3>2, <3>3
  <2>3. g = Body(g, 0..m)
    <3>1. g = [n \in 0..m |-> g[n]]
      OBVIOUS
    <3> HIDE DEF g
    <3> QED
      BY <2>2, <3>1
  <2> HIDE DEF g, Body
  <2> QED
    BY <2>3
<1>4. best = Body(best, 0..N)
  <2>1. N \in good
    <3> HIDE DEF good, N
    <3>1. \A n \in 1..N : n - 1 \in good => n \in good
      BY <1>3
    <3>2. N \in Nat
      BY DEF N
    <3>3. 0..N \subseteq good
      BY <1>2, <3>1, <3>2, CountingUp
    <3> QED
      BY <3>2, <3>3
  <2>2. \E f : f = Body(f, 0..N)
    BY <2>1
  <2> HIDE DEF Body
  <2> QED
    BY <2>2
<1> HIDE DEF best, good
<1>5. best[0] = NoBinding
  <2>1. best[0] = Body(best, 0..N)[0]
    BY <1>4
  <2> QED
    BY <2>1
<1>6. ASSUME NEW n \in 1..N
      PROVE  best[n] = IF Nearer(bindings[n], best[n - 1], dir) THEN bindings[n] ELSE best[n - 1]
  <2>1. n \in 0..N /\ n # 0
    OBVIOUS
  <2>2. best[n] = Body(best, 0..N)[n]
    <3> HIDE DEF Body
    <3> QED
      BY <1>4
  <2> QED
    BY <2>1, <2>2
<1> QED
  BY <1>1, <1>5, <1>6

\* The loop keeps the longest path that holds the directory, and of two that hold
\* it the shorter one holds the longer.
LEMMA LoopFindsNearest ==
  ASSUME NEW Folders, NEW B, \A b \in B : b.path \in Seq(Folders) /\ b # NoBinding,
         NEW bindings \in Seq(B), NEW dir \in Seq(Folders)
  PROVE  IsNearest(ResolveBinding(bindings, dir), bindings, dir)
<1> DEFINE N == Len(bindings)
           Holds(b) == IsPrefix(b.path, dir)
           Nearest(best, n) ==
             IF best = NoBinding THEN \A i \in 1..n : ~Holds(bindings[i])
             ELSE /\ \E i \in 1..n : best = bindings[i]
                  /\ Holds(best)
                  /\ \A i \in 1..n : Holds(bindings[i]) => Len(bindings[i].path) <= Len(best.path)
<1>1. N \in Nat /\ DOMAIN bindings = 1..N
  OBVIOUS
<1>2. ASSUME NEW i \in 1..N
      PROVE  bindings[i].path \in Seq(Folders) /\ Len(bindings[i].path) \in Nat /\ bindings[i] # NoBinding
  <2> DEFINE b == bindings[i]
  <2>1. b \in B
    BY <1>1
  <2> HIDE DEF b
  <2>2. b.path \in Seq(Folders) /\ b # NoBinding
    BY <2>1
  <2>3. Len(b.path) \in Nat
    BY <2>2
  <2> QED
    BY <2>2, <2>3 DEF b
<1>3. PICK best : /\ ResolveBinding(bindings, dir) = best[N]
                  /\ best[0] = NoBinding
                  /\ \A n \in 1..N :
                       best[n] = IF Nearer(bindings[n], best[n - 1], dir) THEN bindings[n] ELSE best[n - 1]
  <2>1. Len(bindings) \in Nat
    BY <1>1
  <2> QED
    BY ONLY <2>1, BindingLoopIs
<1> DEFINE good == {n \in 0..N : Nearest(best[n], n)}
<1>4. 0 \in good
  BY <1>1, <1>3
<1> HIDE DEF Holds
<1>5. ASSUME NEW n \in 1..N, n - 1 \in good PROVE n \in good
  <2> DEFINE x == bindings[n]
             before == best[n - 1]
  <2>1. n \in Nat \ {0} /\ n \in 0..N
    BY <1>1
  <2>2. Nearest(before, n - 1)
    <3> HIDE DEF Nearest
    <3> QED
      BY <1>5
  <2>3. \A i \in 1..n : i = n \/ i \in 1..(n - 1)
    BY <2>1
  <2>4. /\ x # NoBinding /\ Len(x.path) \in Nat
        /\ \A i \in 1..(n - 1) : i \in 1..N /\ Len(bindings[i].path) \in Nat
    BY <1>1, <1>2, <2>1
  <2>5. CASE Nearer(x, before, dir)
    <3>1. best[n] = x /\ Holds(x)
      BY <1>3, <2>5 DEF Nearer, Holds
    <3>2. ASSUME NEW i \in 1..(n - 1), Holds(bindings[i]) PROVE Len(bindings[i].path) <= Len(x.path)
      <4>1. before # NoBinding /\ Len(bindings[i].path) <= Len(before.path)
        BY <2>2, <3>2
      <4>2. Len(x.path) > Len(before.path)
        BY <2>5, <4>1 DEF Nearer
      <4>3. Len(before.path) \in Nat
        BY <2>2, <2>4, <4>1
      <4>4. Len(bindings[i].path) \in Nat /\ Len(x.path) \in Nat
        BY <2>4
      <4> HIDE DEF x, before, Nearest
      <4> QED
        BY ONLY <4>1, <4>2, <4>3, <4>4, SMTT(30)
    <3>3. Nearest(x, n)
      <4>1. \A i \in 1..n : Holds(bindings[i]) => Len(bindings[i].path) <= Len(x.path)
        BY <2>3, <2>4, <3>2
      <4>2. \E i \in 1..n : x = bindings[i]
        BY <2>1
      <4> HIDE DEF x
      <4> QED
        BY <2>4, <3>1, <4>1, <4>2
    <3> HIDE DEF Nearest, x
    <3> QED
      BY <2>1, <3>1, <3>3
  <2>6. CASE ~Nearer(x, before, dir)
    <3>1. best[n] = before
      BY <1>3, <2>6
    <3>2. Holds(x) => before # NoBinding /\ ~(Len(x.path) > Len(before.path))
      BY <2>6 DEF Nearer, Holds
    <3>3. Nearest(before, n)
      <4>1. CASE before = NoBinding
        BY <2>2, <2>3, <3>2, <4>1
      <4>2. CASE before # NoBinding
        <5>1. /\ \E i \in 1..(n - 1) : before = bindings[i]
              /\ Holds(before)
              /\ \A i \in 1..(n - 1) : Holds(bindings[i]) => Len(bindings[i].path) <= Len(before.path)
          BY <2>2, <4>2
        <5>2. Len(before.path) \in Nat
          BY <2>4, <5>1
        <5>3. Holds(x) => Len(x.path) <= Len(before.path)
          <6>1. Len(x.path) \in Nat
            BY <2>4
          <6> HIDE DEF x, before
          <6> QED
            BY ONLY <3>2, <5>2, <6>1
        <5>4. \A i \in 1..n : Holds(bindings[i]) => Len(bindings[i].path) <= Len(before.path)
          BY <2>3, <5>1, <5>3
        <5>5. \E i \in 1..n : before = bindings[i]
          <6>1. PICK i \in 1..(n - 1) : before = bindings[i]
            BY <5>1
          <6>2. i \in 1..n
            BY <2>1
          <6> HIDE DEF before
          <6> QED
            BY <6>1, <6>2
        <5> HIDE DEF before
        <5> QED
          BY <4>2, <5>1, <5>4, <5>5
      <4> QED
        BY <4>1, <4>2
    <3> HIDE DEF Nearest, before
    <3> QED
      BY <2>1, <3>1, <3>3
  <2> QED
    BY <2>5, <2>6
<1>6. Nearest(best[N], N)
  <2>1. N \in good
    <3> HIDE DEF good, N
    <3>1. \A n \in 1..N : n - 1 \in good => n \in good
      BY <1>5
    <3>2. 0..N \subseteq good
      BY <1>1, <1>4, <3>1, CountingUp
    <3> QED
      BY <1>1, <3>2
  <2> HIDE DEF Nearest
  <2> QED
    BY <2>1
<1>7. \A b : b \in ToSet(bindings) <=> \E i \in 1..N : b = bindings[i]
  BY DEF ToSet
<1> DEFINE found == best[N]
<1>8. CASE found = NoBinding
  <2>1. \A i \in 1..N : ~Holds(bindings[i])
    BY <1>6, <1>8
  <2> HIDE DEF N, found
  <2> QED
    BY <1>3, <1>7, <1>8, <2>1 DEF IsNearest, Holds, found
<1>9. CASE found # NoBinding
  <2>1. /\ \E i \in 1..N : found = bindings[i]
        /\ Holds(found)
        /\ \A i \in 1..N : Holds(bindings[i]) => Len(bindings[i].path) <= Len(found.path)
    BY <1>6, <1>9
  <2> HIDE DEF N, found
  <2>2. found \in ToSet(bindings) /\ found.path \in Seq(Folders)
    BY <1>2, <1>7, <2>1
  <2>3. ASSUME NEW b \in ToSet(bindings), Holds(b) PROVE IsPrefix(b.path, found.path)
    <3>1. PICK i \in 1..N : b = bindings[i]
      BY <1>7
    <3>2. b.path \in Seq(Folders) /\ Len(b.path) <= Len(found.path)
      BY <1>2, <2>1, <2>3, <3>1
    <3> QED
      BY <2>1, <2>2, <2>3, <3>2, ShorterHoldsLonger DEF Holds
  <2>4. ResolveBinding(bindings, dir) = found
    BY <1>3 DEF found
  <2> QED
    BY <1>9, <2>1, <2>2, <2>3, <2>4 DEF IsNearest, Holds
<1> QED
  BY <1>8, <1>9

LEMMA NoBindingHasNoProfile == NoBinding.profile = ""
BY DEF NoBinding

\* Whatever the bindings and in whatever order they were made, a folder uses the
\* one of the nearest folder above it or of itself (run.go:126).
THEOREM NearestBindingIsUsed ==
  ASSUME NEW Folders, NEW Bindings, NEW bindings \in Seq(Bindings), NEW dir \in Seq(Folders),
         \A b \in Bindings : b.path \in Seq(Folders) /\ b.profile # ""
  PROVE  IsNearest(ResolveBinding(bindings, dir), bindings, dir)
<1>1. ASSUME NEW b \in Bindings PROVE b.path \in Seq(Folders) /\ b # NoBinding
  <2>1. b.path \in Seq(Folders) /\ b.profile # ""
    OBVIOUS
  <2> QED
    BY ONLY <2>1, NoBindingHasNoProfile
<1> QED
  BY <1>1, LoopFindsNearest

-----------------------------------------------------------------------------
(* Choosing an account *)

\* Accounts as a command has them: whoever is listed is known.
AreAccounts(copy) ==
  /\ copy = [order |-> copy.order, info |-> copy.info, revision |-> copy.revision]
  /\ Listed(copy.order)
  /\ copy.info = [e \in DOMAIN copy.info |-> copy.info[e]]
  /\ ToSet(copy.order) \subseteq DOMAIN copy.info
  /\ \A e \in DOMAIN copy.info : IsAccount(copy.info[e])

IsChooser(c) ==
  /\ c = [at |-> c.at, copy |-> c.copy, failed |-> c.failed, offered |-> c.offered, choice |-> c.choice]
  /\ AreAccounts(c.copy)

\* What could not be read is forgotten when recommend or run now chooses.
Forgetting(c) ==
  /\ c.at # "again"
  /\ c.at \in {"start", "reading"} => c.failed = {}
  /\ c.at \in {"start", "reading", "choosing"} => c.choice = NoAccount
  /\ c.at = "choosing" =>
       \A e \in c.failed : e \in DOMAIN c.copy.info /\ c.copy.info[e].age # "fresh"

ChoosesForSure(p) == CommandOf(p).kind \in {"recommend", "run"}

ChooserOK(p) == IsChooser(choosers[p]) /\ (ChoosesForSure(p) => Forgetting(choosers[p]))

ChoiceInv ==
  /\ choicePlan \in ChoicePlans
  /\ AreAccounts(saved)
  /\ choosers = [p \in Processes |-> choosers[p]]
  /\ \A p \in Processes : ChooserOK(p)

LEMMA CommandsAreKnown ==
  ASSUME ChoiceInv, NEW p \in Processes
  PROVE  /\ CommandOf(p).kind \in {"next", "recommend", "run", "list"} \cup TargetKinds
         /\ CommandOf(p).kind = "run" => CommandOf(p).mode \in {"recommend", "auto", "prompt"}
         /\ "target" \in DOMAIN CommandOf(p) => CommandOf(p).kind \in TargetKinds
BY ChoiceParameters DEF ChoiceInv, Processes, CommandOf

LEMMA ChoiceStarts == ChoiceInit => ChoiceInv
<1> SUFFICES ASSUME ChoiceInit PROVE ChoiceInv
  OBVIOUS
<1>1. choicePlan \in ChoicePlans /\ saved = [order |-> choicePlan.order, info |-> choicePlan.info, revision |-> 1]
  BY DEF ChoiceInit
<1>2. AreAccounts(saved)
  BY <1>1, ChoiceParameters DEF AreAccounts
<1>3. choosers = [p \in Processes |->
       [at |-> "start", copy |-> saved, failed |-> {}, offered |-> NoAccount, choice |-> NoAccount]]
  BY DEF ChoiceInit
<1>4. ASSUME NEW p \in Processes PROVE ChooserOK(p)
  BY <1>2, <1>3 DEF ChooserOK, IsChooser, Forgetting
<1>5. choosers = [p \in Processes |-> choosers[p]]
  BY <1>3
<1> QED
  BY <1>1, <1>2, <1>4, <1>5 DEF ChoiceInv

\* One command goes on, and the accounts that are saved are accounts.
LEMMA GoesOn ==
  ASSUME ChoiceInv, NEW p \in Processes, NEW step, GoOn(p, step), UNCHANGED choicePlan,
         AreAccounts(saved)', IsChooser(step), ChoosesForSure(p) => Forgetting(step)
  PROVE  ChoiceInv'
<1>1. Processes' = Processes /\ \A q : ChoosesForSure(q)' = ChoosesForSure(q)
  BY DEF Processes, ChoosesForSure, CommandOf
<1>2. choosers' = [choosers EXCEPT ![p] = step] /\ choosers = [q \in Processes |-> choosers[q]]
  BY DEF GoOn, ChoiceInv
<1>3. /\ choosers' = [q \in Processes |-> choosers'[q]] /\ choosers'[p] = step
      /\ \A q \in Processes \ {p} : choosers'[q] = choosers[q]
  BY <1>2
<1>4. ASSUME NEW q \in Processes PROVE ChooserOK(q)'
  <2>1. CASE q = p
    BY <1>1, <1>3, <2>1 DEF ChooserOK
  <2>2. CASE q # p
    BY <1>1, <1>3, <2>2 DEF ChooserOK, ChoiceInv
  <2> QED
    BY <2>1, <2>2
<1> QED
  BY <1>1, <1>3, <1>4 DEF ChoiceInv

Chooser(at, copy, failed, offered, choice) ==
  [at |-> at, copy |-> copy, failed |-> failed, offered |-> offered, choice |-> choice]

Copy(order, info, revision) == [order |-> order, info |-> info, revision |-> revision]

\* The accounts of a copy get other entries, and are written.
LEMMA OtherInfo ==
  ASSUME NEW copy, AreAccounts(copy), NEW info, info = [e \in DOMAIN info |-> info[e]],
         ToSet(copy.order) \subseteq DOMAIN info, \A e \in DOMAIN info : IsAccount(info[e]),
         NEW other, other = [copy EXCEPT !.info = info]
  PROVE  AreAccounts(other) /\ other.info = info /\ other.order = copy.order
<1>1. DOMAIN copy = {"order", "info", "revision"}
  BY DEF AreAccounts
<1>2. other = Copy(copy.order, info, copy.revision)
  BY <1>1 DEF Copy
<1> QED
  BY <1>2 DEF AreAccounts, Copy

LEMMA OtherRevision ==
  ASSUME NEW copy, AreAccounts(copy), NEW revision, NEW other, other = [copy EXCEPT !.revision = revision]
  PROVE  AreAccounts(other) /\ other.info = copy.info /\ other.order = copy.order
<1>1. DOMAIN copy = {"order", "info", "revision"}
  BY DEF AreAccounts
<1>2. other = Copy(copy.order, copy.info, revision)
  BY <1>1 DEF Copy
<1> QED
  BY <1>2 DEF AreAccounts, Copy

LEMMA WrittenIsTheSame ==
  ASSUME NEW copy, AreAccounts(copy)
  PROVE  /\ AreAccounts(Written(copy))
         /\ Written(copy).info = copy.info /\ Written(copy).order = copy.order
BY OtherRevision DEF Written

Account(pools, now, age, verify, limits, hashed) ==
  [pools |-> pools, now |-> now, age |-> age, verify |-> verify, limits |-> limits, hashed |-> hashed]

AccountFields == {"pools", "now", "age", "verify", "limits", "hashed"}

LEMMA RecordIsAccount ==
  ASSUME NEW pools, ArePercentages(pools), NEW now, ArePercentages(now),
         NEW age, NEW verify, NEW limits, NEW hashed
  PROVE  IsAccount(Account(pools, now, age, verify, limits, hashed))
BY DEF IsAccount, Account

LEMMA NothingIsPercentages == ArePercentages(<<>>)
BY DEF ArePercentages

LEMMA ReadIsAccount ==
  ASSUME NEW account, IsAccount(account), NEW outcome \in {"read", "failed", "refused"}
  PROVE  IsAccount(Reading(account, outcome))
<1>1. DOMAIN account = AccountFields /\ ArePercentages(account.pools) /\ ArePercentages(account.now)
  BY DEF IsAccount, AccountFields
<1>2. ASSUME NEW t, t = [account EXCEPT !.pools = account.now, !.age = "fresh", !.verify = FALSE]
      PROVE  t = Account(account.now, account.now, "fresh", FALSE, account.limits, account.hashed)
  BY <1>1, <1>2 DEF AccountFields, Account
<1>3. ASSUME NEW t, t = [account EXCEPT !.verify = TRUE]
      PROVE  t = Account(account.pools, account.now, account.age, TRUE, account.limits, account.hashed)
  BY <1>1, <1>3 DEF AccountFields, Account
<1>4. CASE outcome = "read"
  <2>1. Reading(account, outcome) = [account EXCEPT !.pools = account.now, !.age = "fresh", !.verify = FALSE]
    BY <1>4 DEF Reading
  <2>2. Reading(account, outcome) = Account(account.now, account.now, "fresh", FALSE, account.limits, account.hashed)
    BY <1>2, <2>1
  <2> QED
    BY <1>1, <2>2, RecordIsAccount
<1>5. CASE outcome = "refused"
  <2>1. Reading(account, outcome) = [account EXCEPT !.verify = TRUE]
    BY <1>5 DEF Reading
  <2>2. Reading(account, outcome) = Account(account.pools, account.now, account.age, TRUE, account.limits, account.hashed)
    BY <1>3, <2>1
  <2> QED
    BY <1>1, <2>2, RecordIsAccount
<1>6. CASE outcome = "failed"
  BY <1>6 DEF Reading
<1> QED
  BY <1>4, <1>5, <1>6

LEMMA ForgottenIsForgotten ==
  ASSUME NEW copy, AreAccounts(copy), NEW emails
  PROVE  /\ AreAccounts(Forgotten(copy, emails))
         /\ Forgotten(copy, emails).order = copy.order
         /\ \A e \in emails \cap DOMAIN copy.info :
              e \in DOMAIN Forgotten(copy, emails).info /\ Forgotten(copy, emails).info[e].age # "fresh"
<1> DEFINE none(e) == [copy.info[e] EXCEPT !.pools = <<>>, !.age = "none"]
           info == [e \in DOMAIN copy.info |-> IF e \in emails THEN none(e) ELSE copy.info[e]]
<1>1. ASSUME NEW e \in DOMAIN copy.info PROVE IsAccount(none(e)) /\ none(e).age = "none"
  <2> DEFINE account == copy.info[e]
  <2>1. IsAccount(account)
    BY DEF AreAccounts
  <2> HIDE DEF account
  <2>2. DOMAIN account = AccountFields /\ ArePercentages(account.now)
    BY <2>1 DEF IsAccount, AccountFields
  <2>3. ASSUME NEW t, t = [account EXCEPT !.pools = <<>>, !.age = "none"]
        PROVE  t = Account(<<>>, account.now, "none", account.verify, account.limits, account.hashed)
    BY <2>2, <2>3 DEF AccountFields, Account
  <2>4. none(e) = Account(<<>>, account.now, "none", account.verify, account.limits, account.hashed)
    BY <2>3 DEF account
  <2> HIDE DEF none
  <2>5. none(e).age = "none"
    BY <2>4 DEF Account
  <2> QED
    BY <2>2, <2>4, <2>5, NothingIsPercentages, RecordIsAccount
<1>2. Forgotten(copy, emails) = [copy EXCEPT !.info = info]
  BY DEF Forgotten
<1> HIDE DEF none
<1>3. /\ info = [e \in DOMAIN info |-> info[e]] /\ DOMAIN info = DOMAIN copy.info
      /\ \A e \in DOMAIN info : IsAccount(info[e])
      /\ \A e \in emails \cap DOMAIN info : info[e].age = "none"
  BY <1>1 DEF AreAccounts
<1>4. ToSet(copy.order) \subseteq DOMAIN info
  BY <1>3 DEF AreAccounts
<1> HIDE DEF info
<1>5. /\ AreAccounts(Forgotten(copy, emails)) /\ Forgotten(copy, emails).info = info
      /\ Forgotten(copy, emails).order = copy.order
  BY <1>2, <1>3, <1>4, OtherInfo
<1> QED
  BY <1>3, <1>5

LEMMA LoadGoesOn == ASSUME ChoiceInv, NEW p \in Processes, LoadAccounts(p) PROVE ChoiceInv'
<1> DEFINE c == choosers[p]
           command == CommandOf(p)
           target == IF "target" \in DOMAIN command THEN ResolveTarget(command.target, saved.order) ELSE NoAccount
           at == CASE saved.order = <<>> -> "failed"
              [] command.kind \in {"next", "run"} -> "reading"
              [] command.kind \in {"recommend", "list"} ->
                   IF command.reads /\ choosers[p].at = "start" THEN "reading" ELSE "choosing"
              [] target = NoAccount -> "failed"
              [] command.kind = "remove" -> "asking"
              [] command.kind = "limit" -> "saving"
              [] command.kind = "switch" -> "applying"
           step == AfterLoad(p, saved)
<1>1. GoOn(p, step) /\ UNCHANGED <<choicePlan, saved>> /\ c.at \in {"start", "again"}
  BY DEF LoadAccounts
<1>2. /\ IsChooser(c) /\ AreAccounts(saved) /\ (ChoosesForSure(p) => Forgetting(c))
      /\ c = Chooser(c.at, c.copy, c.failed, c.offered, c.choice)
  BY DEF ChoiceInv, ChooserOK, IsChooser, Chooser
<1>3. ChoosesForSure(p) => target = NoAccount /\ at \in {"failed", "reading", "choosing"}
  BY CommandsAreKnown DEF ChoosesForSure, TargetKinds
<1>4. step = [c EXCEPT !.at = at, !.copy = saved, !.choice = target]
  BY DEF AfterLoad
<1> HIDE DEF c, command, target, at, step
<1>5. step = Chooser(at, saved, c.failed, c.offered, target)
  <2>1. DOMAIN c = {"at", "copy", "failed", "offered", "choice"}
    BY <1>2 DEF Chooser
  <2> QED
    BY <1>4, <2>1 DEF Chooser
<1>6. IsChooser(step)
  BY <1>2, <1>5 DEF IsChooser, Chooser
<1>7. ASSUME ChoosesForSure(p) PROVE Forgetting(step)
  BY <1>1, <1>2, <1>3, <1>5, <1>7 DEF Forgetting, Chooser
<1>8. AreAccounts(saved)'
  BY <1>1, <1>2 DEF AreAccounts
<1> QED
  BY <1>1, <1>6, <1>7, <1>8, GoesOn

LEMMA ReadGoesOn == ASSUME ChoiceInv, NEW p \in Processes, ReadQuotas(p) PROVE ChoiceInv'
<1> DEFINE c == choosers[p]
           kind == CommandOf(p).kind
           next == IF kind = "list" THEN "again" ELSE "choosing"
           outcomes == [ToSet(c.copy.order) -> {"read", "failed", "refused"}]
           info(outcome) == [e \in DOMAIN outcome |-> Reading(c.copy.info[e], outcome[e])]
           failed(outcome) == {e \in DOMAIN outcome : outcome[e] # "read"}
           changed(outcome) == \E e \in DOMAIN outcome : outcome[e] # "failed"
           read(outcome) == [c.copy EXCEPT !.info = info(outcome)]
           copy(outcome) == IF changed(outcome) THEN Written(read(outcome)) ELSE c.copy
           kept(outcome) == IF ForgetsFailures(kind) THEN Forgotten(copy(outcome), failed(outcome))
                            ELSE copy(outcome)
<1>1. c.at = "reading" /\ UNCHANGED choicePlan
  BY DEF ReadQuotas
<1>2. PICK outcome \in outcomes :
        IF changed(outcome) /\ ~SavesOver(c.copy)
          THEN /\ GoOn(p, [c EXCEPT !.at = IF kind = "list" THEN next ELSE "failed", !.copy.info = info(outcome)])
               /\ UNCHANGED saved
          ELSE /\ GoOn(p, [c EXCEPT !.at = next, !.failed = failed(outcome), !.copy = kept(outcome)])
               /\ saved' = IF changed(outcome) THEN copy(outcome) ELSE saved
  BY DEF ReadQuotas
<1>3. /\ IsChooser(c) /\ AreAccounts(c.copy) /\ AreAccounts(saved) /\ (ChoosesForSure(p) => Forgetting(c))
      /\ c = Chooser(c.at, c.copy, c.failed, c.offered, c.choice)
  BY DEF ChoiceInv, ChooserOK, IsChooser, Chooser
<1>4. DOMAIN c = {"at", "copy", "failed", "offered", "choice"}
  BY <1>3 DEF Chooser
<1>5. /\ ChoosesForSure(p) => ForgetsFailures(kind) /\ next = "choosing"
      /\ kind # "list" => next = "choosing"
      /\ ChoosesForSure(p) => kind # "list"
  BY DEF ChoosesForSure, ForgetsFailures
<1>6. DOMAIN outcome = ToSet(c.copy.order) /\ \A e \in DOMAIN outcome : outcome[e] \in {"read", "failed", "refused"}
  BY <1>2
<1> HIDE DEF c, kind, next, changed, failed
<1>7. /\ info(outcome) = [e \in DOMAIN info(outcome) |-> info(outcome)[e]]
      /\ DOMAIN info(outcome) = ToSet(c.copy.order)
      /\ \A e \in DOMAIN info(outcome) : IsAccount(info(outcome)[e])
  <2>1. \A e \in DOMAIN outcome : IsAccount(c.copy.info[e])
    BY <1>3, <1>6 DEF AreAccounts
  <2>2. \A e \in DOMAIN outcome : IsAccount(Reading(c.copy.info[e], outcome[e]))
    BY <1>6, <2>1, ReadIsAccount
  <2> QED
    BY <1>6, <2>2
<1> HIDE DEF info
<1>8. AreAccounts(read(outcome)) /\ read(outcome).order = c.copy.order
  BY <1>3, <1>7, OtherInfo
<1>9. read(outcome) = [c.copy EXCEPT !.info = info(outcome)]
  OBVIOUS
<1> HIDE DEF read
<1>10. AreAccounts(copy(outcome)) /\ copy(outcome).order = c.copy.order
  BY <1>3, <1>8, WrittenIsTheSame
<1> HIDE DEF copy
<1>11. /\ AreAccounts(kept(outcome))
       /\ ForgetsFailures(kind) => \A e \in failed(outcome) :
            e \in DOMAIN kept(outcome).info /\ kept(outcome).info[e].age # "fresh"
  <2>1. failed(outcome) \subseteq DOMAIN copy(outcome).info
    BY <1>6, <1>10 DEF failed, AreAccounts
  <2>2. CASE ForgetsFailures(kind)
    BY <1>10, <2>1, <2>2, ForgottenIsForgotten
  <2>3. CASE ~ForgetsFailures(kind)
    BY <1>10, <2>3
  <2> QED
    BY <2>2, <2>3
<1> HIDE DEF kept
<1>12. CASE changed(outcome) /\ ~SavesOver(c.copy)
  <2> DEFINE at == IF kind = "list" THEN next ELSE "failed"
             step == [c EXCEPT !.at = at, !.copy.info = info(outcome)]
  <2>1. step = [c EXCEPT !.at = at, !.copy = read(outcome)]
    BY <1>9
  <2>2. ChoosesForSure(p) => at = "failed"
    BY <1>5
  <2>3. GoOn(p, step) /\ UNCHANGED saved
    BY <1>2, <1>12
  <2> HIDE DEF at, step
  <2>4. step = Chooser(at, read(outcome), c.failed, c.offered, c.choice)
    BY <1>4, <2>1 DEF Chooser
  <2>5. IsChooser(step) /\ (ChoosesForSure(p) => Forgetting(step))
    BY <1>8, <2>2, <2>4 DEF IsChooser, Chooser, Forgetting
  <2>6. AreAccounts(saved)'
    BY <1>3, <2>3 DEF AreAccounts
  <2> QED
    BY <1>1, <2>3, <2>5, <2>6, GoesOn
<1>13. CASE ~(changed(outcome) /\ ~SavesOver(c.copy))
  <2> DEFINE step == [c EXCEPT !.at = next, !.failed = failed(outcome), !.copy = kept(outcome)]
  <2>1. GoOn(p, step) /\ saved' \in {saved, copy(outcome)}
    BY <1>2, <1>13
  <2>2. step = Chooser(next, kept(outcome), failed(outcome), c.offered, c.choice)
    <3>1. ASSUME NEW t, NEW f, NEW k, t = [c EXCEPT !.at = next, !.failed = f, !.copy = k]
          PROVE  t = Chooser(next, k, f, c.offered, c.choice)
      BY <1>4, <3>1 DEF Chooser
    <3> QED
      BY <3>1
  <2> HIDE DEF step
  <2>3. ChoosesForSure(p) => c.choice = NoAccount
    BY <1>1, <1>3 DEF Forgetting
  <2>4. IsChooser(step) /\ (ChoosesForSure(p) => Forgetting(step))
    BY <1>5, <1>11, <2>2, <2>3 DEF IsChooser, Chooser, Forgetting
  <2>5. AreAccounts(saved)'
    BY <1>3, <1>10, <2>1 DEF AreAccounts
  <2> QED
    BY <1>1, <2>1, <2>4, <2>5, GoesOn
<1> QED
  BY <1>12, <1>13

\* One command goes on without its accounts.
LEMMA OnlyGoesOn ==
  ASSUME ChoiceInv, NEW p \in Processes, NEW at, GoOn(p, [choosers[p] EXCEPT !.at = at]),
         UNCHANGED <<choicePlan, saved>>,
         ChoosesForSure(p) => at \notin {"start", "again", "reading", "choosing"}
  PROVE  ChoiceInv'
<1> DEFINE c == choosers[p]
           step == [c EXCEPT !.at = at]
<1>1. /\ IsChooser(c) /\ AreAccounts(saved) /\ c = Chooser(c.at, c.copy, c.failed, c.offered, c.choice)
  BY DEF ChoiceInv, ChooserOK, IsChooser, Chooser
<1>2. GoOn(p, step)
  OBVIOUS
<1> HIDE DEF c
<1>3. step = Chooser(at, c.copy, c.failed, c.offered, c.choice)
  <2>1. DOMAIN c = {"at", "copy", "failed", "offered", "choice"}
    BY <1>1 DEF Chooser
  <2> QED
    BY <2>1 DEF Chooser
<1> HIDE DEF step
<1>4. IsChooser(step) /\ (ChoosesForSure(p) => Forgetting(step))
  BY <1>1, <1>3 DEF IsChooser, Chooser, Forgetting
<1>5. AreAccounts(saved)'
  BY <1>1 DEF AreAccounts
<1> QED
  BY <1>2, <1>4, <1>5, GoesOn

LEMMA AnswerGoesOn == ASSUME ChoiceInv, NEW p \in Processes, AnswerPrompt(p) PROVE ChoiceInv'
<1>1. PICK yes \in BOOLEAN :
        GoOn(p, [choosers[p] EXCEPT !.at =
          IF ~yes THEN "done" ELSE IF CommandOf(p).kind = "run" THEN "reloading" ELSE "saving"])
  BY DEF AnswerPrompt
<1> DEFINE at == IF ~yes THEN "done" ELSE IF CommandOf(p).kind = "run" THEN "reloading" ELSE "saving"
<1>2. at \notin {"start", "again", "reading", "choosing"}
  OBVIOUS
<1>3. GoOn(p, [choosers[p] EXCEPT !.at = at]) /\ UNCHANGED <<choicePlan, saved>>
  BY <1>1 DEF AnswerPrompt
<1> HIDE DEF at
<1> QED
  BY <1>2, <1>3, OnlyGoesOn

LEMMA ApplyGoesOn == ASSUME ChoiceInv, NEW p \in Processes, ApplyChoice(p) PROVE ChoiceInv'
<1>1. PICK applied \in BOOLEAN :
        GoOn(p, [choosers[p] EXCEPT !.at = IF applied THEN "applied" ELSE "failed"])
  BY DEF ApplyChoice
<1> DEFINE at == IF applied THEN "applied" ELSE "failed"
<1>2. at \notin {"start", "again", "reading", "choosing"}
  OBVIOUS
<1>3. GoOn(p, [choosers[p] EXCEPT !.at = at]) /\ UNCHANGED <<choicePlan, saved>>
  BY <1>1 DEF ApplyChoice
<1> HIDE DEF at
<1> QED
  BY <1>2, <1>3, OnlyGoesOn

LEMMA ReloadGoesOn == ASSUME ChoiceInv, NEW p \in Processes, ReloadAccounts(p) PROVE ChoiceInv'
<1> DEFINE c == choosers[p]
           found == ResolveTarget(c.choice, saved.order)
           at == IF found = NoAccount THEN "failed" ELSE "applying"
           step == [c EXCEPT !.copy = saved, !.choice = found, !.at = at]
<1>1. /\ IsChooser(c) /\ AreAccounts(saved) /\ c = Chooser(c.at, c.copy, c.failed, c.offered, c.choice)
  BY DEF ChoiceInv, ChooserOK, IsChooser, Chooser
<1>2. GoOn(p, step) /\ UNCHANGED <<choicePlan, saved>>
  BY DEF ReloadAccounts
<1>3. at \in {"failed", "applying"}
  OBVIOUS
<1> HIDE DEF c, found, at
<1>4. step = Chooser(at, saved, c.failed, c.offered, found)
  <2>1. DOMAIN c = {"at", "copy", "failed", "offered", "choice"}
    BY <1>1 DEF Chooser
  <2>2. ASSUME NEW t, t = step PROVE t = Chooser(at, saved, c.failed, c.offered, found)
    BY <2>1, <2>2 DEF Chooser
  <2> QED
    BY <2>2
<1> HIDE DEF step
<1>5. IsChooser(step) /\ Forgetting(step)
  BY <1>1, <1>3, <1>4 DEF IsChooser, Chooser, Forgetting
<1>6. AreAccounts(saved)'
  BY <1>1, <1>2 DEF AreAccounts
<1> QED
  BY <1>2, <1>5, <1>6, GoesOn

LEMMA HashedIsTheSame ==
  ASSUME NEW copy, AreAccounts(copy), active \in ToSet(copy.order)
  PROVE  /\ AreAccounts(Hashed(copy)) /\ DOMAIN Hashed(copy).info = DOMAIN copy.info
         /\ \A e \in DOMAIN copy.info : Hashed(copy).info[e].age = copy.info[e].age
<1> DEFINE account == copy.info[active]
           hashed == [account EXCEPT !.hashed = TRUE]
           info == [copy.info EXCEPT ![active] = hashed]
<1>1. active \in DOMAIN copy.info /\ IsAccount(account)
  BY DEF AreAccounts
<1>2. Hashed(copy) = [copy EXCEPT !.info = info]
  BY DEF Hashed
<1> HIDE DEF account
<1>3. IsAccount(hashed) /\ hashed.age = account.age
  <2>1. DOMAIN account = AccountFields /\ ArePercentages(account.pools) /\ ArePercentages(account.now)
    BY <1>1 DEF IsAccount, AccountFields
  <2>2. ASSUME NEW t, t = hashed
        PROVE  t = Account(account.pools, account.now, account.age, account.verify, account.limits, TRUE)
    BY <2>1, <2>2 DEF AccountFields, Account
  <2> HIDE DEF hashed
  <2>3. hashed.age = account.age
    BY <2>2 DEF Account
  <2> QED
    BY <2>1, <2>2, <2>3, RecordIsAccount
<1> HIDE DEF hashed
<1>4. /\ info = [e \in DOMAIN info |-> info[e]] /\ DOMAIN info = DOMAIN copy.info
      /\ \A e \in DOMAIN info : IsAccount(info[e]) /\ info[e].age = copy.info[e].age
  <2>1. copy.info = [e \in DOMAIN copy.info |-> copy.info[e]] /\ \A e \in DOMAIN copy.info : IsAccount(copy.info[e])
    BY DEF AreAccounts
  <2>2. /\ DOMAIN info = DOMAIN copy.info /\ info[active] = hashed
        /\ \A e \in DOMAIN info : e # active => info[e] = copy.info[e]
    BY <1>1, <2>1
  <2>3. info = [e \in DOMAIN info |-> info[e]]
    BY <2>1
  <2> HIDE DEF info
  <2> QED
    BY <1>3, <2>1, <2>2, <2>3 DEF account
<1> HIDE DEF info
<1>5. ToSet(copy.order) \subseteq DOMAIN info
  BY <1>4 DEF AreAccounts
<1>6. AreAccounts(Hashed(copy)) /\ Hashed(copy).info = info
  BY <1>2, <1>4, <1>5, OtherInfo
<1> QED
  BY <1>4, <1>6

LEMMA ChoiceGoesOn == ASSUME ChoiceInv, NEW p \in Processes, ChooseAccount(p) PROVE ChoiceInv'
<1> DEFINE c == choosers[p]
           copy == IF Backfills(c.copy)
                     THEN IF SavesOver(c.copy) THEN Written(Hashed(c.copy)) ELSE Hashed(c.copy)
                     ELSE c.copy
           choice == Choice(p, copy, Recognized(copy))
           at == AfterChoice(p, choice)
           step == [c EXCEPT !.at = at, !.copy = copy, !.offered = choice, !.choice = choice]
<1>1. /\ IsChooser(c) /\ AreAccounts(saved) /\ AreAccounts(c.copy)
      /\ c = Chooser(c.at, c.copy, c.failed, c.offered, c.choice)
  BY DEF ChoiceInv, ChooserOK, IsChooser, Chooser
<1>2. GoOn(p, step) /\ saved' \in {saved, copy} /\ UNCHANGED choicePlan
  BY DEF ChooseAccount
<1>3. ChoosesForSure(p) => at \notin {"start", "again", "reading", "choosing"}
  <2> HIDE DEF choice
  <2>1. CASE CommandOf(p).kind = "recommend"
    BY <2>1 DEF AfterChoice
  <2>2. CASE CommandOf(p).kind = "run"
    BY <2>2, CommandsAreKnown DEF AfterChoice
  <2> QED
    BY <2>1, <2>2 DEF ChoosesForSure
<1>4. AreAccounts(copy)
  <2>1. CASE Backfills(c.copy)
    <3>1. active \in ToSet(c.copy.order)
      <4>1. Recognized(c.copy) # NoAccount
        BY <2>1 DEF Backfills
      <4> QED
        BY <4>1 DEF Recognized
    <3>2. AreAccounts(Hashed(c.copy))
      BY <1>1, <3>1, HashedIsTheSame
    <3> QED
      BY <2>1, <3>2, WrittenIsTheSame
  <2>2. CASE ~Backfills(c.copy)
    BY <1>1, <2>2
  <2> QED
    BY <2>1, <2>2
<1> HIDE DEF c, copy, choice, at
<1>5. step = Chooser(at, copy, c.failed, choice, choice)
  <2>1. DOMAIN c = {"at", "copy", "failed", "offered", "choice"}
    BY <1>1 DEF Chooser
  <2>2. ASSUME NEW t, t = step PROVE t = Chooser(at, copy, c.failed, choice, choice)
    BY <2>1, <2>2 DEF Chooser
  <2> QED
    BY <2>2
<1> HIDE DEF step
<1>6. IsChooser(step) /\ (ChoosesForSure(p) => Forgetting(step))
  BY <1>3, <1>4, <1>5 DEF IsChooser, Chooser, Forgetting
<1>7. AreAccounts(saved)'
  BY <1>1, <1>2, <1>4 DEF AreAccounts
<1> QED
  BY <1>2, <1>6, <1>7, GoesOn

\* Removing one of accounts that are listed once removes it.
LEMMA OthersAreListed ==
  ASSUME NEW order, Listed(order), NEW email
  PROVE  LET rest == RemoveAt(order, Position(order, email))
         IN Listed(rest) /\ ToSet(rest) \subseteq ToSet(order) \ {email}
<1> DEFINE i == Position(order, email)
           rest == RemoveAt(order, i)
<1>1. order \in Seq(ToSet(order)) /\ \A j, k \in 1..Len(order) : order[j] = order[k] => j = k
  BY DEF Listed
<1>2. CASE email \in ToSet(order)
  <2>1. i \in 1..Len(order) /\ order[i] = email
    <3>1. \E j \in DOMAIN order : order[j] = email
      BY <1>2 DEF ToSet
    <3>2. i \in DOMAIN order /\ order[i] = email
      BY <1>2, <3>1 DEF Position
    <3> QED
      BY <1>1, <3>2
  <2> HIDE DEF i
  <2>2. /\ rest \in Seq(ToSet(order)) /\ Len(rest) = Len(order) - 1
        /\ \A j \in 1..Len(rest) : rest[j] = order[IF j < i THEN j ELSE j + 1]
    <3> DEFINE S == ToSet(order)
    <3> HIDE DEF S
    <3>1. order \in Seq(S) /\ i \in 1..Len(order)
      BY <1>1, <2>1 DEF S
    <3>2. rest = SubSeq(order, 1, i - 1) \o SubSeq(order, i + 1, Len(order))
      BY DEF RemoveAt
    <3> DEFINE left == SubSeq(order, 1, i - 1)
               right == SubSeq(order, i + 1, Len(order))
    <3>3. left \in Seq(S) /\ Len(left) = i - 1 /\ \A j \in 1..(i - 1) : left[j] = order[j]
      BY <3>1
    <3>4. right \in Seq(S) /\ Len(right) = Len(order) - i /\ \A j \in 1..(Len(order) - i) : right[j] = order[j + i]
      BY <3>1
    <3>5. rest = left \o right
      BY <3>2
    <3> HIDE DEF rest, left, right
    <3>6. /\ rest \in Seq(S) /\ Len(rest) = Len(order) - 1
          /\ \A j \in 1..Len(rest) : rest[j] = IF j < i THEN left[j] ELSE right[j - (i - 1)]
      BY <3>1, <3>3, <3>4, <3>5
    <3>7. ASSUME NEW j \in 1..Len(rest)
          PROVE  rest[j] = order[IF j < i THEN j ELSE j + 1]
      <4>1. Len(order) \in Nat /\ i \in 1..Len(order) /\ j \in 1..(Len(order) - 1)
        BY <3>1, <3>6
      <4>2. rest[j] = IF j < i THEN left[j] ELSE right[j - (i - 1)]
        BY <3>6
      <4>3. CASE j < i
        <5>1. j \in 1..(i - 1)
          BY <4>1, <4>3
        <5> QED
          BY <3>3, <4>2, <4>3, <5>1
      <4>4. CASE ~(j < i)
        <5>1. j - (i - 1) \in 1..(Len(order) - i) /\ (j - (i - 1)) + i = j + 1
          BY <4>1, <4>4
        <5> QED
          BY <3>4, <4>2, <4>4, <5>1
      <4> QED
        BY <4>3, <4>4
    <3> QED
      BY <3>6, <3>7 DEF S
  <2> HIDE DEF rest
  <2>3. \A j \in 1..Len(rest) : /\ (IF j < i THEN j ELSE j + 1) \in 1..Len(order)
                                 /\ (IF j < i THEN j ELSE j + 1) # i
    BY <1>1, <2>1, <2>2
  <2>4. \A j, k \in 1..Len(rest) : rest[j] = rest[k] => j = k
    BY <1>1, <2>1, <2>2, <2>3
  <2>5. \A j \in 1..Len(rest) : rest[j] # email /\ rest[j] \in ToSet(order)
    BY <1>1, <2>1, <2>2, <2>3
  <2>6. DOMAIN rest = 1..Len(rest) /\ rest \in Seq(ToSet(rest))
    BY <2>2 DEF ToSet
  <2>7. Listed(rest)
    BY <2>4, <2>6 DEF Listed
  <2>8. ToSet(rest) \subseteq ToSet(order) \ {email}
    BY <2>5, <2>6 DEF ToSet
  <2> QED
    BY <2>7, <2>8 DEF rest, i
<1>3. CASE email \notin ToSet(order)
  <2>1. rest = SubSeq(order, 1, 0 - 1) \o SubSeq(order, 0 + 1, Len(order))
    BY <1>3 DEF RemoveAt, Position
  <2>2. rest = order
    BY <1>1, <2>1
  <2> QED
    BY <1>3, <2>2
<1> QED
  BY <1>2, <1>3

LEMMA RemovedAreAccounts ==
  ASSUME NEW copy, AreAccounts(copy), NEW email
  PROVE  AreAccounts(Removed(copy, email))
<1> DEFINE order == RemoveAt(copy.order, Position(copy.order, email))
           info == [e \in DOMAIN copy.info \ {email} |-> copy.info[e]]
<1>1. DOMAIN copy = {"order", "info", "revision"} /\ Listed(copy.order)
  BY DEF AreAccounts
<1>2. Listed(order) /\ ToSet(order) \subseteq ToSet(copy.order) \ {email}
  BY <1>1, OthersAreListed
<1>3. /\ info = [e \in DOMAIN info |-> info[e]]
      /\ \A e \in DOMAIN info : IsAccount(info[e])
      /\ ToSet(copy.order) \ {email} \subseteq DOMAIN info
  BY DEF AreAccounts
<1>4. Removed(copy, email) = [copy EXCEPT !.order = order, !.info = info]
  BY DEF Removed
<1> HIDE DEF order, info
<1>5. ASSUME NEW t, t = [copy EXCEPT !.order = order, !.info = info]
      PROVE  t = Copy(order, info, copy.revision)
  BY <1>1, <1>5 DEF Copy
<1>6. Removed(copy, email) = Copy(order, info, copy.revision)
  BY <1>4, <1>5
<1> QED
  BY <1>2, <1>3, <1>6 DEF AreAccounts, Copy

LEMMA LimitedAreAccounts ==
  ASSUME NEW copy, AreAccounts(copy), NEW email, NEW limits
  PROVE  AreAccounts([copy EXCEPT !.info[email].limits = limits])
<1> DEFINE account == copy.info[email]
           limited == [account EXCEPT !.limits = limits]
           info == [copy.info EXCEPT ![email] = limited]
           other == [copy EXCEPT !.info[email].limits = limits]
<1>1. other = [copy EXCEPT !.info = info]
  OBVIOUS
<1>2. copy.info = [e \in DOMAIN copy.info |-> copy.info[e]] /\ \A e \in DOMAIN copy.info : IsAccount(copy.info[e])
  BY DEF AreAccounts
<1>3. email \in DOMAIN copy.info => IsAccount(account)
  BY <1>2
<1> HIDE DEF account
<1>4. IsAccount(account) => IsAccount(limited)
  <2> SUFFICES ASSUME IsAccount(account) PROVE IsAccount(limited)
    OBVIOUS
  <2>1. DOMAIN account = AccountFields /\ ArePercentages(account.pools) /\ ArePercentages(account.now)
    BY DEF IsAccount, AccountFields
  <2>2. ASSUME NEW t, t = limited
        PROVE  t = Account(account.pools, account.now, account.age, account.verify, limits, account.hashed)
    BY <2>1, <2>2 DEF AccountFields, Account
  <2> HIDE DEF limited
  <2> QED
    BY <2>1, <2>2, RecordIsAccount
<1> HIDE DEF limited
<1>5. /\ info = [e \in DOMAIN info |-> info[e]] /\ DOMAIN info = DOMAIN copy.info
      /\ \A e \in DOMAIN info : IsAccount(info[e])
  <2>1. /\ DOMAIN info = DOMAIN copy.info /\ (email \in DOMAIN copy.info => info[email] = limited)
        /\ \A e \in DOMAIN info : e # email => info[e] = copy.info[e]
    BY <1>2
  <2>2. info = [e \in DOMAIN info |-> info[e]]
    BY <1>2
  <2> HIDE DEF info
  <2> QED
    BY <1>2, <1>3, <1>4, <2>1, <2>2
<1> HIDE DEF info
<1>6. ToSet(copy.order) \subseteq DOMAIN info
  BY <1>5 DEF AreAccounts
<1> HIDE DEF other
<1>7. AreAccounts(other)
  BY <1>1, <1>5, <1>6, OtherInfo
<1> QED
  BY <1>7 DEF other

LEMMA SaveGoesOn == ASSUME ChoiceInv, NEW p \in Processes, SaveAccounts(p) PROVE ChoiceInv'
<1> DEFINE c == choosers[p]
           family == CommandOf(p).family
           limits == IF CommandOf(p).clear THEN c.copy.info[c.choice].limits \ {family}
                     ELSE c.copy.info[c.choice].limits \cup {family}
           copy == IF CommandOf(p).kind = "remove" THEN Removed(c.copy, c.choice)
                   ELSE [c.copy EXCEPT !.info[c.choice].limits = limits]
           at == IF SavesOver(c.copy) THEN "done" ELSE "failed"
<1>1. GoOn(p, [c EXCEPT !.at = at]) /\ saved' = (IF SavesOver(c.copy) THEN Written(copy) ELSE saved)
      /\ UNCHANGED choicePlan
  BY DEF SaveAccounts
<1>2. AreAccounts(saved) /\ AreAccounts(c.copy) /\ c = Chooser(c.at, c.copy, c.failed, c.offered, c.choice)
      /\ IsChooser(c)
  BY DEF ChoiceInv, ChooserOK, IsChooser, Chooser
<1>3. at \in {"done", "failed"}
  OBVIOUS
<1> HIDE DEF c, limits, at
<1>4. AreAccounts(copy)
  BY <1>2, RemovedAreAccounts, LimitedAreAccounts
<1> HIDE DEF copy
<1>5. AreAccounts(saved')
  BY <1>1, <1>2, <1>4, WrittenIsTheSame
<1>6. AreAccounts(saved)'
  BY <1>5 DEF AreAccounts
<1> DEFINE step == [c EXCEPT !.at = at]
<1>7. step = Chooser(at, c.copy, c.failed, c.offered, c.choice)
  <2>1. DOMAIN c = {"at", "copy", "failed", "offered", "choice"}
    BY <1>2 DEF Chooser
  <2> QED
    BY <2>1 DEF Chooser
<1>8. GoOn(p, step)
  BY <1>1 DEF c
<1> HIDE DEF step
<1>9. IsChooser(step) /\ Forgetting(step)
  BY <1>2, <1>3, <1>7 DEF IsChooser, Chooser, Forgetting
<1> QED
  BY <1>1, <1>6, <1>8, <1>9, GoesOn

LEMMA ChoiceStays == ASSUME ChoiceInv, [ChoiceNext]_choiceVars PROVE ChoiceInv'
<1>1. CASE UNCHANGED choiceVars
  BY <1>1 DEF choiceVars, ChoiceInv, ChooserOK, ChoosesForSure, CommandOf, Processes, AreAccounts
<1>2. CASE ChoiceNext
  BY <1>2, LoadGoesOn, ReadGoesOn, ChoiceGoesOn, AnswerGoesOn, ReloadGoesOn, ApplyGoesOn, SaveGoesOn
     DEF ChoiceNext
<1> QED
  BY <1>1, <1>2

\* What is recommended is ready, so its quota was read.
LEMMA RecommendedIsFresh ==
  ASSUME NEW r, Recommended(r) # NoAccount
  PROVE  r.info[Recommended(r)].age = "fresh"
BY DEF Recommended, IsReady, Ready

LEMMA ChosenWasRead ==
  ASSUME ChoiceInv, ChoiceNext, NEW p \in Processes, Chooses(p, {"recommend", "run"}), Acts(p)
  PROVE  choosers'[p].choice \notin choosers[p].failed
<1> DEFINE c == choosers[p]
           copy == IF Backfills(c.copy)
                     THEN IF SavesOver(c.copy) THEN Written(Hashed(c.copy)) ELSE Hashed(c.copy)
                     ELSE c.copy
           choice == Choice(p, copy, Recognized(copy))
<1>1. /\ IsChooser(c) /\ AreAccounts(c.copy) /\ Forgetting(c)
      /\ c.at = "choosing" /\ choosers'[p].choice # NoAccount
      /\ choosers = [q \in Processes |-> choosers[q]]
  BY DEF ChoiceInv, ChooserOK, IsChooser, Chooses, ChoosesForSure
<1>2. ChooseAccount(p)
  <2>1. PICK q \in Processes :
          LoadAccounts(q) \/ ReadQuotas(q) \/ ChooseAccount(q) \/ AnswerPrompt(q)
            \/ ReloadAccounts(q) \/ ApplyChoice(q) \/ SaveAccounts(q)
    BY DEF ChoiceNext
  <2>2. \E step : GoOn(q, step)
    BY <2>1 DEF LoadAccounts, ReadQuotas, ChooseAccount, AnswerPrompt, ReloadAccounts, ApplyChoice, SaveAccounts
  <2>3. q # p => choosers'[p] = choosers[p]
    BY <1>1, <2>2 DEF GoOn
  <2>4. q = p
    BY <1>1, <2>3 DEF Forgetting
  <2> QED
    BY <1>1, <2>1, <2>4 DEF LoadAccounts, ReadQuotas, AnswerPrompt, ReloadAccounts, ApplyChoice, SaveAccounts
<1>3. choosers'[p].choice = choice
  <2> DEFINE at == AfterChoice(p, choice)
             step == [c EXCEPT !.at = at, !.copy = copy, !.offered = choice, !.choice = choice]
  <2>1. GoOn(p, step)
    BY <1>2 DEF ChooseAccount
  <2>2. choosers'[p] = step
    BY <1>1, <2>1 DEF GoOn
  <2>3. DOMAIN c = {"at", "copy", "failed", "offered", "choice"}
    BY <1>1 DEF IsChooser
  <2> HIDE DEF c, copy, choice, at
  <2>4. step.choice = choice
    BY <2>3
  <2> QED
    BY <2>2, <2>4
<1>4. \A e \in DOMAIN c.copy.info : copy.info[e].age = c.copy.info[e].age
  <2>1. CASE Backfills(c.copy)
    <3>1. active \in ToSet(c.copy.order)
      <4>1. Recognized(c.copy) # NoAccount
        BY <2>1 DEF Backfills
      <4> QED
        BY <4>1 DEF Recognized
    <3>2. /\ AreAccounts(Hashed(c.copy))
          /\ \A e \in DOMAIN c.copy.info : Hashed(c.copy).info[e].age = c.copy.info[e].age
      BY <1>1, <3>1, HashedIsTheSame
    <3>3. copy.info = Hashed(c.copy).info
      BY <2>1, <3>2, WrittenIsTheSame
    <3> QED
      BY <3>2, <3>3
  <2>2. CASE ~Backfills(c.copy)
    BY <2>2
  <2> QED
    BY <2>1, <2>2
<1>5. PICK r : choice = Recommended(r) /\ r.info = copy.info
  <2> HIDE DEF copy
  <2> DEFINE command == CommandOf(p)
             here == Ranking(copy, command.profiled, command.family, choicePlan.policy, Recognized(copy))
             bound == Ranking(copy, TRUE, NoFamily, choicePlan.policy, Recognized(copy))
  <2>1. here.info = copy.info /\ bound.info = copy.info
    BY DEF Ranking
  <2>2. choice = Recommended(here) \/ choice = Recommended(bound)
    BY DEF Choice, Chooses, Acts
  <2> HIDE DEF here, bound
  <2> QED
    BY <2>1, <2>2
<1> HIDE DEF copy, choice, c
<1>6. copy.info[choice].age = "fresh"
  BY <1>1, <1>3, <1>5, RecommendedIsFresh
<1>7. choice \notin c.failed
  BY <1>1, <1>4, <1>6 DEF Forgetting
<1> QED
  BY <1>3, <1>7 DEF c

\* "Failed refreshes cannot authorize a switch" (README.md:345): whatever other
\* commands save meanwhile, and for any accounts and quotas, recommend --apply and
\* run now never choose an account whose quota they could not read just now.
THEOREM FailedReadsAreNotChosen == ChoiceSpec => FailedReadsNeverChosen
<1>1. ChoiceInv /\ [ChoiceNext]_choiceVars =>
        [\A p \in Processes : Chooses(p, {"recommend", "run"}) /\ Acts(p) =>
           choosers'[p].choice \notin choosers[p].failed]_choiceVars
  BY ChosenWasRead
<1> QED
  BY <1>1, ChoiceStarts, ChoiceStays, PTL DEF ChoiceSpec, FailedReadsNeverChosen

-----------------------------------------------------------------------------
(* Choosing the next account *)

\* Of things in a list, some of them have a first one in a total order.
LEMMA FirstOfSome ==
  ASSUME NEW list, list \in Seq(ToSet(list)), NEW S, S \subseteq ToSet(list), S # {}, NEW R,
         \A a, b \in S : a # b => <<a, b>> \in R \/ <<b, a>> \in R,
         \A a, b, c \in S : <<a, b>> \in R /\ <<b, c>> \in R => <<a, c>> \in R
  PROVE  \E a \in S : \A b \in S \ {a} : <<a, b>> \in R
<1> DEFINE N == Len(list)
           Part(n) == {list[i] : i \in 1..n} \cap S
           First(n) == \E a \in Part(n) : \A b \in Part(n) \ {a} : <<a, b>> \in R
           good == {n \in 0..N : Part(n) = {} \/ First(n)}
<1>1. N \in Nat /\ \A x : x \in ToSet(list) <=> \E i \in 1..N : x = list[i]
  BY DEF ToSet
<1>2. 0 \in good
  <2>1. Part(0) = {}
    OBVIOUS
  <2> HIDE DEF Part
  <2> QED
    BY <1>1, <2>1
<1>3. ASSUME NEW n \in 1..N, n - 1 \in good PROVE n \in good
  <2> DEFINE x == list[n]
  <2>1. Part(n) = Part(n - 1) \cup ({x} \cap S)
    <3>1. n \in Nat \ {0}
      BY <1>1
    <3>2. 1..n = 1..(n - 1) \cup {n}
      BY <3>1
    <3>3. {list[i] : i \in 1..n} = {list[i] : i \in 1..(n - 1)} \cup {x}
      BY <3>2
    <3> QED
      BY <3>3
  <2>2. n \in 0..N /\ (Part(n - 1) = {} \/ First(n - 1))
    <3> HIDE DEF First
    <3>1. Part(n - 1) = {} \/ First(n - 1)
      BY <1>3
    <3> QED
      BY <1>1, <3>1
  <2>3. Part(n - 1) \subseteq S
    OBVIOUS
  <2> HIDE DEF x, Part
  <2>4. CASE x \notin S
    BY <2>1, <2>2, <2>4
  <2>5. CASE x \in S /\ Part(n - 1) = {}
    BY <2>1, <2>2, <2>5
  <2>6. CASE x \in S /\ Part(n - 1) # {}
    <3>1. PICK a \in Part(n - 1) : \A b \in Part(n - 1) \ {a} : <<a, b>> \in R
      BY <2>2, <2>6
    <3>2. CASE x = a \/ <<a, x>> \in R
      <4>1. \A b \in Part(n) \ {a} : <<a, b>> \in R
        BY <2>1, <3>1, <3>2
      <4> QED
        BY <2>1, <2>2, <3>1, <4>1
    <3>3. CASE x # a /\ <<x, a>> \in R
      <4>1. ASSUME NEW b \in Part(n) \ {x} PROVE <<x, b>> \in R
        <5>1. b \in Part(n - 1) /\ b \in S /\ a \in S
          BY <2>1, <2>3, <3>1
        <5>2. b = a \/ <<a, b>> \in R
          BY <3>1, <5>1
        <5> QED
          BY <2>6, <3>3, <5>1, <5>2
      <4> QED
        BY <2>1, <2>2, <2>6, <4>1
    <3> QED
      BY <2>3, <2>6, <3>1, <3>2, <3>3
  <2> QED
    BY <2>4, <2>5, <2>6
<1>4. N \in good
  <2> HIDE DEF good, N
  <2>1. \A n \in 1..N : n - 1 \in good => n \in good
    BY <1>3
  <2>2. 0..N \subseteq good
    BY <1>1, <1>2, <2>1, CountingUp
  <2> QED
    BY <1>1, <2>2
<1>5. Part(N) = S
  BY <1>1
<1> HIDE DEF Part, N
<1> QED
  BY <1>4, <1>5

LEMMA PositionIs ==
  ASSUME NEW order, Listed(order), NEW e
  PROVE  /\ Len(order) \in Nat /\ Position(order, e) \in 0..Len(order)
         /\ e \in ToSet(order) => Position(order, e) \in 1..Len(order) /\ order[Position(order, e)] = e
<1>1. order \in Seq(ToSet(order)) /\ DOMAIN order = 1..Len(order) /\ Len(order) \in Nat
  BY DEF Listed
<1>2. CASE e \in ToSet(order)
  <2> DEFINE i == CHOOSE i \in DOMAIN order : order[i] = e
  <2>1. \E j \in DOMAIN order : order[j] = e
    BY <1>2 DEF ToSet
  <2>2. i \in DOMAIN order /\ order[i] = e
    BY <2>1
  <2>3. Position(order, e) = i
    BY <1>2 DEF Position
  <2> QED
    BY <1>1, <2>2, <2>3
<1>3. CASE e \notin ToSet(order)
  BY <1>1, <1>3 DEF Position
<1> QED
  BY <1>1, <1>2, <1>3

LEMMA InList ==
  ASSUME NEW A, NEW list \in Seq(A), NEW x \in ToSet(list) PROVE x \in A
BY DEF ToSet

LEMMA WindowsArePercentages ==
  ASSUME NEW account, IsAccount(account), NEW family
  PROVE  /\ WindowsOf(account, family) \subseteq 0..100
         /\ WindowsOf(account, family) # {} => Remaining(account, family) \in 0..100
<1> DEFINE windows == WindowsOf(account, family)
<1>1. windows \subseteq 0..100
  <2>1. ASSUME NEW x \in windows PROVE x \in 0..100
    <3>1. PICK pool \in DOMAIN account.pools : x \in ToSet(account.pools[pool])
      BY <2>1 DEF WindowsOf
    <3>2. account.pools[pool] \in Seq(0..100)
      BY <3>1 DEF IsAccount, ArePercentages
    <3> QED
      BY <3>1, <3>2, InList
  <2> QED
    BY <2>1
<1> HIDE DEF windows
<1>2. ASSUME windows # {} PROVE Min(windows) \in windows
  <2>1. windows \subseteq Nat
    BY <1>1
  <2>2. PICK n \in windows : \A m \in windows : n <= m
    BY <1>2, <2>1, LeastNatural
  <2> QED
    BY <2>2 DEF Min
<1> QED
  BY <1>1, <1>2 DEF windows, Remaining

\* The ranking next chooses from.
Plain(r) ==
  /\ Listed(r.order) /\ r.candidates = ToSet(r.order) /\ r.reserves = {}
  /\ \A e \in ToSet(r.order) : IsAccount(r.info[e])
  /\ r.policy \in {"balanced", "round-robin"}

LEMMA ScoreIsNumber ==
  ASSUME NEW r, Plain(r), NEW e \in ToSet(r.order)
  PROVE  Score(r, e) \in Int
<1> DEFINE windows == WindowsOf(r.info[e], r.family)
           remaining == Remaining(r.info[e], r.family)
           known == IF windows = {} THEN 0 ELSE remaining
           left == IF r.info[e].verify THEN known - 1000 ELSE known
           steps == StepsAfter(r, e)
<1>1. left \in Int
  <2>1. windows # {} => remaining \in 0..100
    BY WindowsArePercentages DEF Plain
  <2> HIDE DEF windows, remaining
  <2>2. known \in Int
    BY <2>1
  <2> HIDE DEF known
  <2> QED
    BY <2>2
<1>2. Len(r.order) \in Nat /\ steps \in Int
  <2>1. /\ Len(r.order) \in Nat /\ Position(r.order, e) \in 1..Len(r.order)
        /\ Position(r.order, r.current) \in 0..Len(r.order)
    BY PositionIs DEF Plain
  <2> QED
    BY <2>1 DEF StepsAfter
<1>3. Score(r, e) = IF r.policy = "round-robin" THEN Len(r.order) - steps ELSE left
  BY DEF Score, Plain
<1> HIDE DEF left, steps
<1> QED
  BY <1>1, <1>2, <1>3

\* Ready accounts come first, then the higher score, then the earlier place.
Better(r, a, b) ==
  IF IsReady(r, a) <=> IsReady(r, b)
    THEN \/ Score(r, a) > Score(r, b)
         \/ Score(r, a) = Score(r, b) /\ Position(r.order, a) < Position(r.order, b)
    ELSE IsReady(r, a)

LEMMA BeforeIsBetter ==
  ASSUME NEW r, Plain(r), NEW a \in ToSet(r.order), NEW b \in ToSet(r.order), a # b
  PROVE  Before(r, a, b) <=> Better(r, a, b)
<1> DEFINE key(e) == <<IF IsReady(r, e) THEN 0 ELSE 1, IF e \in r.reserves THEN 1 ELSE 0,
                       -Score(r, e), Position(r.order, e)>>
           first == CHOOSE i \in 1..4 : key(a)[i] # key(b)[i] /\ \A j \in 1..(i - 1) : key(a)[j] = key(b)[j]
<1>1. Before(r, a, b) <=> key(a)[first] < key(b)[first]
  BY DEF Before
<1>2. Score(r, a) \in Int /\ Score(r, b) \in Int
  BY ScoreIsNumber
<1>3. /\ Position(r.order, a) \in Nat /\ Position(r.order, b) \in Nat
      /\ Position(r.order, a) # Position(r.order, b)
  <2>1. /\ Len(r.order) \in Nat
        /\ Position(r.order, a) \in 1..Len(r.order) /\ r.order[Position(r.order, a)] = a
        /\ Position(r.order, b) \in 1..Len(r.order) /\ r.order[Position(r.order, b)] = b
    BY PositionIs DEF Plain
  <2> QED
    BY <2>1
<1>4. \A e : /\ key(e)[1] = IF IsReady(r, e) THEN 0 ELSE 1
             /\ key(e)[2] = 0 /\ key(e)[3] = -Score(r, e) /\ key(e)[4] = Position(r.order, e)
  BY DEF Plain
<1> HIDE DEF key
<1> DEFINE Differ(i) == key(a)[i] # key(b)[i] /\ \A j \in 1..(i - 1) : key(a)[j] = key(b)[j]
<1>5. ASSUME NEW i \in 1..4, Differ(i) PROVE first = i
  <2>1. \A k \in 1..4 : Differ(k) => k = i
    <3> SUFFICES ASSUME NEW k \in 1..4, Differ(k), k # i PROVE FALSE
      OBVIOUS
    <3>1. k < i \/ i < k
      OBVIOUS
    <3>2. k < i => k \in 1..(i - 1)
      OBVIOUS
    <3>3. i < k => i \in 1..(k - 1)
      OBVIOUS
    <3> QED
      BY <1>5, <3>1, <3>2, <3>3
  <2>2. first = CHOOSE k \in 1..4 : Differ(k)
    OBVIOUS
  <2> HIDE DEF first, Differ
  <2> QED
    BY <1>5, <2>1, <2>2
<1>6. CASE ~(IsReady(r, a) <=> IsReady(r, b))
  <2>1. Differ(1)
    BY <1>4, <1>6
  <2>2. first = 1
    BY <1>5, <2>1
  <2> HIDE DEF first
  <2>3. Before(r, a, b) <=> key(a)[1] < key(b)[1]
    BY <1>1, <2>2
  <2> QED
    BY <2>3, <1>4, <1>6 DEF Better
<1>7. CASE (IsReady(r, a) <=> IsReady(r, b)) /\ Score(r, a) # Score(r, b)
  <2>1. Differ(3)
    <3>1. \A j \in 1..2 : j = 1 \/ j = 2
      OBVIOUS
    <3>2. key(a)[3] # key(b)[3]
      BY <1>2, <1>4, <1>7
    <3>3. key(a)[1] = key(b)[1] /\ key(a)[2] = key(b)[2]
      BY <1>4, <1>7
    <3> QED
      BY <3>1, <3>2, <3>3
  <2>2. first = 3
    BY <1>5, <2>1
  <2> HIDE DEF first
  <2>3. Before(r, a, b) <=> key(a)[3] < key(b)[3]
    BY <1>1, <2>2
  <2> QED
    BY <2>3, <1>2, <1>4, <1>7 DEF Better
<1>8. CASE (IsReady(r, a) <=> IsReady(r, b)) /\ Score(r, a) = Score(r, b)
  <2>1. Differ(4)
    <3>1. \A j \in 1..3 : j = 1 \/ j = 2 \/ j = 3
      OBVIOUS
    <3>2. key(a)[4] # key(b)[4]
      BY <1>3, <1>4
    <3>3. key(a)[1] = key(b)[1] /\ key(a)[2] = key(b)[2] /\ key(a)[3] = key(b)[3]
      BY <1>4, <1>8
    <3> QED
      BY <3>1, <3>2, <3>3
  <2>2. first = 4
    BY <1>5, <2>1
  <2> HIDE DEF first
  <2>3. Before(r, a, b) <=> key(a)[4] < key(b)[4]
    BY <1>1, <2>2
  <2> QED
    BY <2>3, <1>2, <1>4, <1>8 DEF Better
<1> QED
  BY <1>6, <1>7, <1>8

\* Some account of every set of them is the foremost.
LEMMA ForemostIs ==
  ASSUME NEW r, Plain(r), NEW S, S \subseteq ToSet(r.order), S # {}
  PROVE  /\ Foremost(r, S) \in S
         /\ \A other \in S \ {Foremost(r, S)} : Better(r, Foremost(r, S), other)
<1> DEFINE R == {pair \in S \X S : Better(r, pair[1], pair[2])}
<1>1. \A a, b \in S : <<a, b>> \in R <=> Better(r, a, b)
  OBVIOUS
<1>2. ASSUME NEW a \in S
      PROVE  Score(r, a) \in Int /\ Position(r.order, a) \in Nat /\ r.order[Position(r.order, a)] = a
  <2>1. /\ a \in ToSet(r.order) /\ Len(r.order) \in Nat
        /\ Position(r.order, a) \in 1..Len(r.order) /\ r.order[Position(r.order, a)] = a
    BY PositionIs DEF Plain
  <2> QED
    BY <2>1, ScoreIsNumber
<1>3. ASSUME NEW a \in S, NEW b \in S, a # b PROVE <<a, b>> \in R \/ <<b, a>> \in R
  <2>1. Better(r, a, b) \/ Better(r, b, a)
    BY <1>2, <1>3 DEF Better
  <2> QED
    BY <1>1, <2>1
<1>4. ASSUME NEW a \in S, NEW b \in S, NEW c \in S, <<a, b>> \in R, <<b, c>> \in R PROVE <<a, c>> \in R
  <2>1. Better(r, a, b) /\ Better(r, b, c)
    BY <1>1, <1>4
  <2>2. Better(r, a, c)
    BY <1>2, <2>1 DEF Better
  <2> QED
    BY <1>1, <2>2
<1> HIDE DEF R
<1>5. \E a \in S : \A b \in S \ {a} : <<a, b>> \in R
  <2>1. r.order \in Seq(ToSet(r.order))
    BY DEF Plain, Listed
  <2>2. \A a, b \in S : a # b => <<a, b>> \in R \/ <<b, a>> \in R
    BY <1>3
  <2>3. \A a, b, c \in S : <<a, b>> \in R /\ <<b, c>> \in R => <<a, c>> \in R
    BY <1>4
  <2> DEFINE order == r.order
  <2> HIDE DEF order
  <2>4. order \in Seq(ToSet(order)) /\ S \subseteq ToSet(order)
    BY <2>1 DEF order
  <2> QED
    BY <2>2, <2>3, <2>4, FirstOfSome
<1>6. \A a, b \in S : a # b => (Before(r, a, b) <=> Better(r, a, b))
  BY BeforeIsBetter
<1>7. \E a \in S : \A other \in S \ {a} : Before(r, a, other)
  BY <1>1, <1>5, <1>6
<1>8. Foremost(r, S) \in S /\ \A other \in S \ {Foremost(r, S)} : Before(r, Foremost(r, S), other)
  BY <1>7 DEF Foremost
<1> QED
  BY <1>6, <1>8
\* How next ranks: the ranking it chooses from, and the accounts it may choose.
RankingOfNext(copy, current) ==
  Ranking(copy, FALSE, NoFamily,
    IF choicePlan.policy = "sticky" THEN "round-robin" ELSE choicePlan.policy, current)

ReadyIn(copy) == {e \in ToSet(copy.order) : Ready(copy.info[e], choicePlan.prefer)}

LEMMA NextRanksPlainly ==
  ASSUME NEW copy, AreAccounts(copy), NEW current,
         choicePlan.policy \in {"sticky", "balanced", "round-robin"}
  PROVE  LET r == RankingOfNext(copy, current)
         IN /\ Plain(r) /\ r.order = copy.order /\ r.current = current
            /\ choicePlan.policy # "balanced" => r.policy = "round-robin"
            /\ \A e : IsReady(r, e) <=> Ready(copy.info[e], choicePlan.prefer)
<1> DEFINE policy == IF choicePlan.policy = "sticky" THEN "round-robin" ELSE choicePlan.policy
           r == RankingOfNext(copy, current)
<1>1. policy \in {"balanced", "round-robin"} /\ (choicePlan.policy # "balanced" => policy = "round-robin")
  OBVIOUS
<1> HIDE DEF policy
<1>2. /\ r.order = copy.order /\ r.info = copy.info /\ r.family = choicePlan.prefer /\ r.policy = policy
      /\ r.reserves = {} /\ r.candidates = ToSet(copy.order) /\ r.current = current
  <2>1. r = Ranking(copy, FALSE, NoFamily, policy, current)
    BY DEF RankingOfNext, policy
  <2> HIDE DEF r
  <2> QED
    BY <2>1 DEF Ranking
<1> HIDE DEF r
<1>3. Plain(r)
  BY <1>1, <1>2 DEF Plain, AreAccounts
<1>4. \A e : IsReady(r, e) <=> Ready(copy.info[e], choicePlan.prefer)
  BY <1>2 DEF IsReady
<1> QED
  BY <1>1, <1>2, <1>3, <1>4 DEF r

\* next chooses the foremost of the other ready accounts, or the one that is ready.
LEMMA NextIsReady ==
  ASSUME NEW copy, AreAccounts(copy), NEW current, ReadyIn(copy) # {},
         choicePlan.policy \in {"sticky", "balanced", "round-robin"}
  PROVE  LET r == RankingOfNext(copy, current)
             others == ReadyIn(copy) \ {current}
             next == NextChoice(copy, current, NoFamily)
         IN /\ next \in ReadyIn(copy)
            /\ others # {} => next \in others /\ \A x \in others \ {next} : Better(r, next, x)
<1> DEFINE r == RankingOfNext(copy, current)
           others == ReadyIn(copy) \ {current}
           next == NextChoice(copy, current, NoFamily)
<1>1. next = NextEligible(r)
  BY DEF NextChoice, RankingOfNext
<1>2. /\ Plain(r) /\ r.order = copy.order /\ r.current = current
      /\ \A e : IsReady(r, e) <=> Ready(copy.info[e], choicePlan.prefer)
  BY NextRanksPlainly
<1> HIDE DEF r, next
<1>3. others = {e \in r.candidates \ {r.current} : IsReady(r, e)} /\ r.candidates = ToSet(copy.order)
  BY <1>2 DEF Plain, ReadyIn
<1>4. others \subseteq ToSet(r.order) /\ ReadyIn(copy) \subseteq ToSet(r.order)
  BY <1>2 DEF ReadyIn
<1>5. CASE others # {}
  <2>1. next = Foremost(r, others)
    BY <1>1, <1>3, <1>5 DEF NextEligible
  <2> HIDE DEF others
  <2>2. next \in others /\ \A x \in others \ {next} : Better(r, next, x)
    BY <1>2, <1>4, <1>5, <2>1, ForemostIs
  <2> QED
    BY <2>2 DEF others, r, next
<1>6. CASE others = {}
  <2>1. current \in ReadyIn(copy) /\ ReadyIn(copy) = {current}
    BY <1>6
  <2> DEFINE first == Foremost(r, r.candidates)
  <2>2. next = Recommended(r)
    BY <1>1, <1>3, <1>6 DEF NextEligible
  <2>3. r.candidates # {} /\ r.candidates = ToSet(r.order) /\ current \in r.candidates /\ IsReady(r, current)
    BY <1>2, <1>3, <2>1 DEF ReadyIn
  <2>4. first \in r.candidates /\ \A x \in r.candidates \ {first} : Better(r, first, x)
    BY <1>2, <2>3, ForemostIs
  <2> HIDE DEF first
  <2>5. IsReady(r, first)
    BY <2>3, <2>4 DEF Better
  <2>6. next = first
    BY <2>2, <2>3, <2>5 DEF Recommended, first
  <2>7. first \in ReadyIn(copy)
    BY <1>2, <1>3, <2>4, <2>5 DEF ReadyIn
  <2> QED
    BY <1>6, <2>6, <2>7 DEF r, next
<1> QED
  BY <1>5, <1>6

\* The rotation: how many places after "from" the place "to" comes.
Places(from, to, n) == IF to > from THEN to - from - 1 ELSE to - from - 1 + n

LEMMA RotationIs ==
  ASSUME NEW n \in Nat, NEW from \in 0..n, NEW to \in 1..n
  PROVE  /\ (to - from - 1 + n) % n = Places(from, to, n)
         /\ Places(from, to, n) \in 0..(n - 1)
<1> DEFINE p == to - from - 1
<1>1. n > 0 /\ p \in Int /\ p < n /\ p + n >= 0
  OBVIOUS
<1>2. CASE to > from
  <2>1. p \in 0..(n - 1) /\ n \in Nat \ {0}
    BY <1>2
  <2> HIDE DEF p
  <2>2. (p + n) % n = p
    BY <2>1
  <2> QED
    BY <1>2, <2>1, <2>2 DEF Places, p
<1>3. CASE ~(to > from)
  <2>1. p + n \in 0..(n - 1) /\ n \in Nat \ {0}
    BY <1>3
  <2> DEFINE q == p + n
  <2> HIDE DEF q
  <2>2. q % n = q
    BY <2>1 DEF q
  <2> QED
    BY <1>3, <2>1, <2>2 DEF Places, q
<1> QED
  BY <1>2, <1>3

\* Whoever comes later in the rotation is met before the rotation starts over.
LEMMA RotationGoesOn ==
  ASSUME NEW n \in Nat, NEW start \in 0..n, NEW at \in 1..n, NEW to \in 1..n
  PROVE  Places(at, to, n) = IF Places(start, to, n) > Places(start, at, n)
                               THEN Places(start, to, n) - Places(start, at, n) - 1
                               ELSE Places(start, to, n) - Places(start, at, n) - 1 + n
BY DEF Places
\* Unless the policy is balanced, next goes to the nearest ready account.
LEMMA NextIsNearest ==
  ASSUME NEW copy, AreAccounts(copy), NEW current, ReadyIn(copy) # {},
         choicePlan.policy \in {"sticky", "round-robin"}, NEW x \in ReadyIn(copy)
  PROVE  LET next == NextChoice(copy, current, NoFamily)
             n == Len(copy.order)
             from == Position(copy.order, current)
         IN Places(from, Position(copy.order, next), n) <= Places(from, Position(copy.order, x), n)
<1> DEFINE r == RankingOfNext(copy, current)
           others == ReadyIn(copy) \ {current}
           next == NextChoice(copy, current, NoFamily)
           n == Len(copy.order)
           place(e) == Position(copy.order, e)
           from == place(current)
           far(e) == Places(from, place(e), n)
<1>1. /\ Plain(r) /\ r.order = copy.order /\ r.current = current /\ r.policy = "round-robin"
      /\ \A e : IsReady(r, e) <=> Ready(copy.info[e], choicePlan.prefer)
  BY NextRanksPlainly
<1>2. /\ next \in ReadyIn(copy)
      /\ others # {} => next \in others /\ \A y \in others \ {next} : Better(r, next, y)
  BY NextIsReady
<1>3. Listed(copy.order) /\ ReadyIn(copy) \subseteq ToSet(copy.order)
  BY DEF AreAccounts, ReadyIn
<1> HIDE DEF r, next
<1>4. n \in Nat /\ from \in 0..n
  BY <1>3, PositionIs
<1>5. ASSUME NEW e \in ReadyIn(copy) PROVE place(e) \in 1..n /\ far(e) \in 0..(n - 1)
  <2>1. place(e) \in 1..n
    BY <1>3, PositionIs
  <2> HIDE DEF n, from, place
  <2> QED
    BY <1>4, <2>1, RotationIs
<1>6. ASSUME NEW e \in ReadyIn(copy) PROVE Score(r, e) = n - far(e) /\ IsReady(r, e)
  <2>1. place(e) \in 1..n
    BY <1>5
  <2>2. Score(r, e) = n - ((place(e) - from - 1 + n) % n)
    BY <1>1 DEF Score, StepsAfter
  <2> HIDE DEF n, from, place
  <2>3. (place(e) - from - 1 + n) % n = far(e)
    BY <1>4, <2>1, RotationIs
  <2> QED
    BY <1>1, <2>2, <2>3 DEF ReadyIn
<1>7. CASE x = next
  <2>1. far(x) \in Int
    BY <1>5
  <2> HIDE DEF far
  <2> QED
    BY <1>7, <2>1 DEF far, next
<1>8. CASE x # next /\ x # current
  <2>1. Better(r, next, x)
    BY <1>2, <1>8
  <2>2. /\ far(x) \in Int /\ far(next) \in Int
        /\ Score(r, x) = n - far(x) /\ Score(r, next) = n - far(next)
        /\ IsReady(r, x) /\ IsReady(r, next)
    BY <1>2, <1>5, <1>6
  <2> HIDE DEF far, n
  <2>3. far(next) <= far(x)
    BY <1>4, <2>1, <2>2 DEF Better
  <2> QED
    BY <2>3 DEF far, next, n
<1>9. CASE x # next /\ x = current
  <2>1. far(x) = n - 1
    <3>1. place(x) = from /\ place(x) \in 1..n
      BY <1>5, <1>9
    <3> HIDE DEF n, from, place
    <3> QED
      BY <1>4, <3>1 DEF Places
  <2>2. far(next) \in 0..(n - 1)
    BY <1>2, <1>5
  <2> HIDE DEF far, n
  <2>3. far(next) <= far(x)
    BY <1>4, <2>1, <2>2
  <2> QED
    BY <2>3 DEF far, next, n
<1> QED
  BY <1>7, <1>8, <1>9

\* Every account of the tour is the one that next comes to from the one before.
LEMMA TourIs ==
  ASSUME NEW copy, NEW email, NEW times \in Nat \ {0}
  PROVE  LET tour == Tour(copy, email, times)
         IN /\ DOMAIN tour = 1..times
            /\ tour[1] = NextChoice(copy, email, NoFamily)
            /\ \A n \in 2..times : tour[n] = NextChoice(copy, tour[n - 1], NoFamily)
<1> DEFINE after(e) == NextChoice(copy, e, NoFamily)
           Body(f, D) == [n \in D |-> IF n = 0 THEN email ELSE after(f[n - 1])]
           at == CHOOSE f : f = Body(f, 0..times)
           good == {n \in 0..times : \E f : f = Body(f, 0..n)}
           tour == Tour(copy, email, times)
<1>1. tour = [n \in 1..times |-> at[n]]
  BY DEF Tour
<1> HIDE DEF after, tour
<1>2. 0 \in good
  <2>1. [n \in 0..0 |-> email] = Body([n \in 0..0 |-> email], 0..0)
    OBVIOUS
  <2> HIDE DEF Body
  <2> QED
    BY <2>1
<1>3. ASSUME NEW m \in 1..times, m - 1 \in good PROVE m \in good
  <2>1. PICK f : f = Body(f, 0..(m - 1))
    BY <1>3
  <2> DEFINE last == after(f[m - 1])
             g == [n \in 0..m |-> IF n < m THEN f[n] ELSE last]
  <2>2. ASSUME NEW n \in 0..m PROVE g[n] = Body(g, 0..m)[n]
    <3>1. m \in Nat /\ n \in Nat
      OBVIOUS
    <3>2. CASE n = m
      <4>1. g[n] = last /\ g[m - 1] = f[m - 1]
        BY <3>1, <3>2
      <4> QED
        BY <3>1, <3>2, <4>1
    <3>3. CASE n < m
      <4>1. n \in 0..(m - 1)
        BY <3>1, <3>3
      <4>2. g[n] = f[n] /\ (n > 0 => g[n - 1] = f[n - 1])
        BY <3>1, <3>3
      <4>3. f[n] = Body(f, 0..(m - 1))[n]
        BY <2>1
      <4> HIDE DEF g
      <4> QED
        BY <3>1, <4>1, <4>2, <4>3
    <3> QED
      BY <3>1, <3>2, <3>3
  <2>3. g = Body(g, 0..m)
    <3>1. g = [n \in 0..m |-> g[n]]
      OBVIOUS
    <3> HIDE DEF g
    <3> QED
      BY <2>2, <3>1
  <2> HIDE DEF g, Body
  <2> QED
    BY <2>3
<1>4. at = Body(at, 0..times)
  <2>1. times \in good
    <3> HIDE DEF good
    <3>1. \A n \in 1..times : n - 1 \in good => n \in good
      BY <1>3
    <3>2. 0..times \subseteq good
      BY <1>2, <3>1, CountingUp
    <3> QED
      BY <3>2
  <2>2. \E f : f = Body(f, 0..times)
    BY <2>1
  <2> HIDE DEF Body
  <2> QED
    BY <2>2
<1> HIDE DEF at, good
<1>5. at[0] = email /\ \A n \in 1..times : at[n] = after(at[n - 1])
  <2>1. at[0] = Body(at, 0..times)[0]
    BY <1>4
  <2>2. ASSUME NEW n \in 1..times PROVE at[n] = after(at[n - 1])
    <3>1. at[n] = Body(at, 0..times)[n] /\ n \in 0..times /\ n # 0
      BY <1>4
    <3> QED
      BY <3>1
  <2> QED
    BY <2>1, <2>2
<1>6. DOMAIN tour = 1..times /\ \A n \in 1..times : tour[n] = at[n]
  BY <1>1
<1>7. tour[1] = after(email)
  BY <1>5, <1>6
<1>8. ASSUME NEW n \in 2..times PROVE tour[n] = after(tour[n - 1])
  <2>1. n \in 1..times /\ n - 1 \in 1..times
    OBVIOUS
  <2> QED
    BY <1>5, <1>6, <2>1
<1> QED
  BY <1>6, <1>7, <1>8 DEF after, tour

LEMMA ListsAreFinite ==
  ASSUME NEW list, list \in Seq(ToSet(list)) PROVE IsFiniteSet(ToSet(list))
<1>1. Len(list) \in Nat /\ DOMAIN list = 1..Len(list)
  OBVIOUS
<1>2. IsFiniteSet(1..Len(list))
  BY <1>1, FS_Interval
<1>3. list \in [1..Len(list) -> ToSet(list)]
  BY <1>1
<1>4. \A x \in ToSet(list) : \E i \in 1..Len(list) : list[i] = x
  BY <1>1 DEF ToSet
<1>5. list \in Surjection(1..Len(list), ToSet(list))
  BY <1>3, <1>4 DEF Surjection
<1> QED
  BY <1>2, <1>5, FS_Surjection

\* The tour of as many steps as there are ready accounts visits them all: what
\* it has visited are always the ready accounts that the rotation meets first.
LEMMA TourVisitsAll ==
  ASSUME NEW copy, AreAccounts(copy), NEW email, ReadyIn(copy) # {},
         choicePlan.policy \in {"sticky", "round-robin"}
  PROVE  ToSet(Tour(copy, email, Cardinality(ReadyIn(copy)))) = ReadyIn(copy)
<1> DEFINE ready == ReadyIn(copy)
           times == Cardinality(ready)
           tour == Tour(copy, email, times)
           after(e) == NextChoice(copy, e, NoFamily)
           n == Len(copy.order)
           place(e) == Position(copy.order, e)
           far(e) == Places(place(email), place(e), n)
           Visited(m) == {tour[i] : i \in 1..m}
           First(m) == /\ Visited(m) \subseteq ready /\ Cardinality(Visited(m)) = m
                       /\ \A x \in Visited(m) : far(x) <= far(tour[m])
                       /\ \A x \in ready \ Visited(m) : far(x) > far(tour[m])
           good == {m \in 0..times : m > 0 => First(m)}
<1>1. Listed(copy.order) /\ ready \subseteq ToSet(copy.order)
  BY DEF AreAccounts, ReadyIn
<1>2. IsFiniteSet(ready) /\ times \in Nat \ {0}
  <2>1. IsFiniteSet(ToSet(copy.order))
    BY <1>1, ListsAreFinite DEF Listed
  <2>2. IsFiniteSet(ready)
    BY <1>1, <2>1, FS_Subset
  <2> QED
    BY <2>2, FS_CardinalityType, FS_EmptySet
<1>3. n \in Nat /\ place(email) \in 0..n
  BY <1>1, PositionIs
<1>4. ASSUME NEW x \in ready PROVE place(x) \in 1..n /\ copy.order[place(x)] = x
  BY <1>1, PositionIs
<1>5. ASSUME NEW x \in ready PROVE far(x) \in 0..(n - 1)
  <2>1. place(x) \in 1..n
    BY <1>4
  <2> HIDE DEF n, place
  <2> QED
    BY <1>3, <2>1, RotationIs
<1>6. ASSUME NEW x \in ready, NEW y \in ready, far(x) = far(y) PROVE x = y
  <2>1. place(x) \in 1..n /\ place(y) \in 1..n /\ copy.order[place(x)] = x /\ copy.order[place(y)] = y
    BY <1>4
  <2>2. place(x) = place(y)
    <3> HIDE DEF n, place
    <3> QED
      BY <1>3, <1>6, <2>1 DEF Places
  <2> QED
    BY <2>1, <2>2
<1>7. /\ DOMAIN tour = 1..times /\ tour[1] = after(email)
      /\ \A m \in 2..times : tour[m] = after(tour[m - 1])
  <2> HIDE DEF times
  <2> QED
    BY <1>2, TourIs
<1>8. \A e : after(e) \in ready
  BY NextIsReady
<1>9. ASSUME NEW x \in ready PROVE far(after(email)) <= far(x)
  BY NextIsNearest
<1>10. ASSUME NEW e \in ready, NEW x \in ready, far(x) > far(e)
       PROVE  far(e) < far(after(e)) /\ far(after(e)) <= far(x)
  <2> DEFINE ahead(y) == Places(place(e), place(y), n)
             next == after(e)
  <2>1. next \in ready /\ ahead(next) <= ahead(x)
    BY <1>8, NextIsNearest
  <2>2. place(e) \in 1..n /\ place(x) \in 1..n /\ place(next) \in 1..n
    BY <1>4, <2>1
  <2> HIDE DEF next, n, place
  <2>3. /\ ahead(x) = IF far(x) > far(e) THEN far(x) - far(e) - 1 ELSE far(x) - far(e) - 1 + n
        /\ ahead(next) = IF far(next) > far(e) THEN far(next) - far(e) - 1 ELSE far(next) - far(e) - 1 + n
    BY <1>3, <2>2, RotationGoesOn
  <2>4. far(x) \in 0..(n - 1) /\ far(e) \in 0..(n - 1) /\ far(next) \in 0..(n - 1)
    BY <1>5, <2>1
  <2> HIDE DEF far, ahead
  <2>5. far(e) < far(next) /\ far(next) <= far(x)
    BY <1>3, <1>10, <2>1, <2>3, <2>4
  <2> QED
    BY <2>5 DEF next
<1> HIDE DEF ready, times, tour, after, n, far
<1>11. 0 \in good
  BY <1>2
<1>12. ASSUME NEW m \in 1..times, m - 1 \in good PROVE m \in good
  <2> DEFINE x == tour[m]
             before == Visited(m - 1)
  <2>1. m \in Nat \ {0} /\ m - 1 \in Nat /\ m \in 0..times /\ m <= times
    BY <1>2
  <2>2. Visited(m) = before \cup {x}
    <3>1. 1..m = 1..(m - 1) \cup {m}
      BY <2>1
    <3> QED
      BY <3>1
  <2>3. CASE m = 1
    <3>1. x = after(email) /\ before = {}
      BY <1>7, <2>3
    <3>2. Visited(m) = {x} /\ x \in ready
      BY <1>8, <2>2, <3>1
    <3>3. Cardinality({x}) = 1
      BY FS_Singleton
    <3>4. \A y \in ready : far(x) <= far(y)
      BY <1>9, <3>1
    <3>5. far(x) <= far(x)
      BY <3>2, <3>4
    <3>6. ASSUME NEW y \in ready \ {x} PROVE far(y) > far(x)
      <4>1. far(y) # far(x) /\ far(x) <= far(y) /\ far(x) \in Int /\ far(y) \in Int
        BY <1>3, <1>5, <1>6, <3>2, <3>4
      <4> QED
        BY <4>1
    <3> HIDE DEF x, Visited
    <3>7. First(m)
      BY <2>3, <3>2, <3>3, <3>5, <3>6 DEF x
    <3> HIDE DEF First
    <3> QED
      BY <2>1, <3>7
  <2>4. CASE m > 1
    <3> DEFINE e == tour[m - 1]
    <3>1. First(m - 1)
      <4> HIDE DEF First
      <4> QED
        BY <1>12, <2>1, <2>4
    <3>2. /\ before \subseteq ready /\ Cardinality(before) = m - 1
          /\ \A y \in before : far(y) <= far(e)
          /\ \A y \in ready \ before : far(y) > far(e)
      BY <3>1
    <3>3. e \in before /\ e \in ready
      <4>1. m - 1 \in 1..(m - 1)
        BY <2>1, <2>4
      <4>2. e \in before
        BY <4>1
      <4> QED
        BY <3>2, <4>2
    <3>4. x = after(e)
      <4>1. m \in 2..times
        BY <2>1, <2>4
      <4> QED
        BY <1>7, <4>1
    <3> HIDE DEF e, x, before, Visited, First
    <3>5. ready \ before # {}
      BY <1>2, <2>1, <3>2 DEF times
    <3>6. ASSUME NEW y \in ready \ before PROVE far(e) < far(x) /\ far(x) <= far(y)
      BY <1>10, <3>2, <3>3, <3>4
    <3>7. x \in ready
      BY <1>8, <3>4
    <3>8. far(e) < far(x) /\ far(e) \in Int /\ far(x) \in Int
      BY <1>3, <1>5, <3>3, <3>5, <3>6, <3>7
    <3>9. x \notin before
      <4>1. x \in before => far(x) <= far(e)
        BY <3>2
      <4> QED
        BY <3>8, <4>1
    <3>10. IsFiniteSet(before)
      BY <1>2, <3>2, FS_Subset
    <3>11. Cardinality(Visited(m)) = m
      <4>1. Cardinality(before \cup {x}) = Cardinality(before) + 1
        BY <3>9, <3>10, FS_AddElement
      <4> QED
        BY <2>1, <2>2, <3>2, <4>1
    <3>12. ASSUME NEW y \in Visited(m) PROVE far(y) <= far(x)
      <4>1. CASE y = x
        BY <3>8, <4>1
      <4>2. CASE y \in before
        <5>1. far(y) <= far(e) /\ far(y) \in Int
          BY <1>3, <1>5, <3>2, <4>2
        <5> QED
          BY <3>8, <5>1
      <4> QED
        BY <2>2, <4>1, <4>2
    <3>13. ASSUME NEW y \in ready \ Visited(m) PROVE far(y) > far(x)
      <4>1. y \in ready \ before /\ y # x
        BY <2>2
      <4>2. far(x) <= far(y) /\ far(x) # far(y) /\ far(y) \in Int
        BY <1>3, <1>5, <1>6, <3>6, <3>7, <4>1
      <4> QED
        BY <3>8, <4>2
    <3>14. Visited(m) \subseteq ready
      BY <2>2, <3>2, <3>7
    <3>15. First(m)
      BY <3>11, <3>12, <3>13, <3>14 DEF First, x
    <3> QED
      BY <2>1, <3>15
  <2> QED
    BY <2>1, <2>3, <2>4
<1>13. First(times)
  <2>1. times \in good
    <3> HIDE DEF good
    <3>1. \A m \in 1..times : m - 1 \in good => m \in good
      BY <1>12
    <3>2. 0..times \subseteq good
      BY <1>2, <1>11, <3>1, CountingUp
    <3> QED
      BY <1>2, <3>2
  <2> HIDE DEF First
  <2> QED
    BY <1>2, <2>1
<1>14. Visited(times) = ready
  <2>1. Visited(times) \subseteq ready /\ Cardinality(Visited(times)) = Cardinality(ready)
    BY <1>13 DEF times
  <2> HIDE DEF Visited
  <2> QED
    BY <1>2, <2>1, FS_Subset
<1>15. ToSet(tour) = Visited(times)
  BY <1>7 DEF ToSet
<1> QED
  BY <1>14, <1>15 DEF ready, times, tour

\* Repeating next comes to every ready account.
THEOREM NextVisitsAll == ChoiceSpec => []NextGoesOn
<1>1. ChoiceInv => NextGoesOn
  <2> SUFFICES ASSUME ChoiceInv PROVE NextGoesOn
    OBVIOUS
  <2> DEFINE ready == {e \in ToSet(saved.order) : Ready(saved.info[e], choicePlan.prefer)}
  <2>1. AreAccounts(saved) /\ choicePlan.policy \in {"sticky", "balanced", "round-robin"}
    BY ChoiceParameters DEF ChoiceInv
  <2>2. ready = ReadyIn(saved)
    BY DEF ReadyIn
  <2> HIDE DEF ready
  <2>3. ASSUME NEW e, ready \ {e} # {} PROVE NextChoice(saved, e, NoFamily) \in ready \ {e}
    BY <2>1, <2>2, <2>3, NextIsReady
  <2>4. ASSUME NEW e, ready # {}, choicePlan.policy # "balanced"
        PROVE  ToSet(Tour(saved, e, Cardinality(ready))) = ready
    BY <2>1, <2>2, <2>4, TourVisitsAll
  <2> QED
    BY <2>3, <2>4 DEF NextGoesOn, ready
<1>2. ChoiceInv /\ [ChoiceNext]_choiceVars => ChoiceInv'
  BY ChoiceStays
<1> QED
  BY <1>1, <1>2, ChoiceStarts, PTL DEF ChoiceSpec

-----------------------------------------------------------------------------
(* The views *)

\* What is kept of a list is what of it is in the set.
LEMMA KeptIs ==
  ASSUME NEW A, NEW list \in Seq(A), NEW S
  PROVE  Kept(list, S) \in Seq(A) /\ ToSet(Kept(list, S)) = ToSet(list) \cap S
<1> DEFINE N == Len(list)
           Body(f, D) == [i \in D |-> IF i = 0 THEN <<>>
                                      ELSE IF list[i] \in S THEN Append(f[i - 1], list[i])
                                      ELSE f[i - 1]]
           kept == CHOOSE f : f = Body(f, 0..N)
           good == {n \in 0..N : \E f : f = Body(f, 0..n)}
<1>1. N \in Nat
  OBVIOUS
<1>2. 0 \in good
  <2>1. [i \in 0..0 |-> <<>>] = Body([i \in 0..0 |-> <<>>], 0..0)
    OBVIOUS
  <2> HIDE DEF Body
  <2> QED
    BY <1>1, <2>1
<1>3. ASSUME NEW n \in 1..N, n - 1 \in good PROVE n \in good
  <2>1. PICK f : f = Body(f, 0..(n - 1))
    BY <1>3
  <2> DEFINE last == IF list[n] \in S THEN Append(f[n - 1], list[n]) ELSE f[n - 1]
             g == [i \in 0..n |-> IF i < n THEN f[i] ELSE last]
  <2>2. ASSUME NEW i \in 0..n PROVE g[i] = Body(g, 0..n)[i]
    <3>1. n \in Nat /\ i \in Nat
      OBVIOUS
    <3>2. CASE i = n
      <4>1. g[i] = last /\ g[n - 1] = f[n - 1]
        BY <3>1, <3>2
      <4> QED
        BY <3>1, <3>2, <4>1
    <3>3. CASE i < n
      <4>1. i \in 0..(n - 1)
        BY <3>1, <3>3
      <4>2. g[i] = f[i] /\ (i > 0 => g[i - 1] = f[i - 1])
        BY <3>1, <3>3
      <4>3. f[i] = Body(f, 0..(n - 1))[i]
        BY <2>1
      <4> HIDE DEF g
      <4> QED
        BY <3>1, <4>1, <4>2, <4>3
    <3> QED
      BY <3>1, <3>2, <3>3
  <2>3. g = Body(g, 0..n)
    <3>1. g = [i \in 0..n |-> g[i]]
      OBVIOUS
    <3> HIDE DEF g
    <3> QED
      BY <2>2, <3>1
  <2> HIDE DEF g, Body
  <2> QED
    BY <1>1, <2>3
<1>4. kept = Body(kept, 0..N)
  <2>1. N \in good
    <3> HIDE DEF good, N
    <3>1. \A n \in 1..N : n - 1 \in good => n \in good
      BY <1>3
    <3>2. 0..N \subseteq good
      BY <1>1, <1>2, <3>1, CountingUp
    <3> QED
      BY <1>1, <3>2
  <2>2. \E f : f = Body(f, 0..N)
    BY <2>1
  <2> HIDE DEF Body
  <2> QED
    BY <2>2
<1>5. Kept(list, S) = kept[N]
  BY DEF Kept
<1> HIDE DEF kept, good
<1> DEFINE found == {n \in 0..N : kept[n] \in Seq(A) /\ ToSet(kept[n]) = {list[i] : i \in 1..n} \cap S}
<1>6. 0 \in found
  <2>1. kept[0] = <<>> /\ 0 \in 0..N
    BY <1>1, <1>4
  <2>2. <<>> \in Seq(A) /\ ToSet(<<>>) = {}
    BY DEF ToSet
  <2>3. {list[i] : i \in 1..0} = {}
    OBVIOUS
  <2> QED
    BY <2>1, <2>2, <2>3
<1>7. ASSUME NEW n \in 1..N, n - 1 \in found PROVE n \in found
  <2> DEFINE before == kept[n - 1]
             x == list[n]
             T == {list[i] : i \in 1..(n - 1)}
             U == {list[i] : i \in 1..n}
  <2>1. kept[n] = IF x \in S THEN Append(before, x) ELSE before
    <3>1. n \in 0..N /\ n # 0
      BY <1>1
    <3>2. kept[n] = Body(kept, 0..N)[n]
      BY <1>4
    <3> QED
      BY <3>1, <3>2
  <2>2. before \in Seq(A) /\ ToSet(before) = T \cap S
    BY <1>7
  <2>3. U = T \cup {x}
    BY <1>1
  <2>4. x \in A
    BY <1>1
  <2> HIDE DEF before, x, T, U
  <2>5. Append(before, x) \in Seq(A) /\ ToSet(Append(before, x)) = ToSet(before) \cup {x}
    <3> DEFINE longer == Append(before, x)
    <3>1. before \in Seq(A) /\ Len(before) \in Nat
      BY <2>2
    <3>2. /\ longer \in Seq(A) /\ DOMAIN longer = 1..(Len(before) + 1) /\ DOMAIN before = 1..Len(before)
          /\ \A i \in 1..Len(before) : longer[i] = before[i]
          /\ longer[Len(before) + 1] = x
      BY <2>4, <3>1
    <3> HIDE DEF longer
    <3>3. ToSet(longer) = ToSet(before) \cup {x}
      BY <3>1, <3>2 DEF ToSet
    <3> QED
      BY <3>2, <3>3 DEF longer
  <2>6. kept[n] \in Seq(A) /\ ToSet(kept[n]) = U \cap S
    BY <2>1, <2>2, <2>3, <2>5
  <2> QED
    BY <1>1, <2>6 DEF U
<1>8. N \in found
  <2> HIDE DEF found, N
  <2>1. \A n \in 1..N : n - 1 \in found => n \in found
    BY <1>7
  <2>2. 0..N \subseteq found
    BY <1>1, <1>6, <2>1, CountingUp
  <2> QED
    BY <1>1, <2>2
<1>9. ToSet(list) = {list[i] : i \in 1..N}
  BY DEF ToSet
<1> QED
  BY <1>5, <1>8, <1>9

LEMMA TwoNumbers ==
  ASSUME NEW a \in Int, NEW b \in Int
  PROVE  /\ Max({a, b}) = IF a >= b THEN a ELSE b
         /\ Min({a, b}) = IF a <= b THEN a ELSE b
BY DEF Max, Min

LEMMA AroundStaysIn ==
  ASSUME NEW index \in Int, NEW delta \in Int, NEW n \in Nat \ {0}
  PROVE  Around(index, delta, n) \in 0..(n - 1)
BY DEF Around

LEMMA IndexIsThere ==
  ASSUME NEW A, NEW list \in Seq(A), NEW item
  PROVE  /\ IndexIn(list, item) \in 0..Len(list)
         /\ item \in ToSet(list) => IndexIn(list, item) # 0 /\ list[IndexIn(list, item)] = item
         /\ \A i \in 1..Len(list) : list[i] = item => IndexIn(list, item) <= i
<1>1. CASE item \in ToSet(list)
  <2> DEFINE I == {i \in 1..Len(list) : list[i] = item}
  <2>1. I \subseteq Nat /\ I # {}
    BY <1>1 DEF ToSet
  <2>2. IndexIn(list, item) = IF I # {} THEN Min(I) ELSE 0
    BY <1>1 DEF IndexIn, SelectInSeq
  <2> HIDE DEF I
  <2>3. Min(I) \in I /\ \A i \in I : Min(I) <= i
    BY <2>1, LeastNatural DEF Min
  <2> QED
    BY <2>1, <2>2, <2>3 DEF I
<1>2. CASE item \notin ToSet(list)
  <2>1. \A i \in 1..Len(list) : list[i] # item
    BY <1>2 DEF ToSet
  <2> QED
    BY <1>2, <2>1 DEF IndexIn
<1> QED
  BY <1>1, <1>2

Emails == ToSet(viewPlan.order)

ListOf(order, search, attention) ==
  Kept(order, FoundBy(search, ToSet(order)) \ attention)
    \o Kept(order, FoundBy(search, ToSet(order)) \cap attention)

ItemsOf(query) ==
  IF query = 0 THEN viewPlan.palette
  ELSE Kept(viewPlan.palette, IF query = 1 THEN viewPlan.sought ELSE {})

ScreenFields ==
  {"view", "mode", "drawn", "order", "attention", "chosen", "search", "previous", "before", "origin",
   "names", "nameIndex", "events", "eventIndex", "dialog", "form", "query", "item", "lines", "height",
   "list"}

IsIndex(index, n) == index \in Nat /\ (index = 0 \/ index < n)

\* A screen, apart from the selected account.
Screen(u) ==
  /\ DOMAIN u = ScreenFields
  /\ u.order \in Seq(Emails) /\ u.search \in Nat /\ u.previous \in Nat
  /\ u.lines \in {1, 2} /\ u.height \in Nat
  /\ u.names \in Seq(ToSet(viewPlan.everyName)) /\ IsIndex(u.nameIndex, Len(u.names))
  /\ u.events \in Nat /\ IsIndex(u.eventIndex, u.events)
  /\ DOMAIN u.dialog = {"kind", "subject", "index"}
  /\ u.mode = "dialog" => u.dialog.index \in 0..(IF u.dialog.kind = "help" THEN 0 ELSE 1)
  /\ u.mode = "palette" => IsIndex(u.item, Len(ItemsOf(u.query)))
  /\ u.mode = "search" => u.previous = u.origin.search /\ u.before = u.origin.chosen
  /\ DOMAIN u.list = {"offset", "total", "height", "follow", "loose"}
  /\ u.list.offset \in Nat /\ u.list.total \in Nat /\ u.list.height \in Nat

IsSelected(chosen, emails) == IF emails = <<>> THEN chosen = None ELSE chosen \in ToSet(emails)

Shown(u) == Screen(u) /\ IsSelected(u.chosen, ListOf(u.order, u.search, u.attention))

LEMMA ListsOfScreen ==
  ASSUME NEW u
  PROVE  VisibleEmails(u) = ListOf(u.order, u.search, u.attention) /\ Items(u) = ItemsOf(u.query)
BY DEF VisibleEmails, InOrder, ToLookAfter, ListOf, Items, ItemsOf

LEMMA SetOfBoth ==
  ASSUME NEW A, NEW a \in Seq(A), NEW b \in Seq(A)
  PROVE  a \o b \in Seq(A) /\ ToSet(a \o b) = ToSet(a) \cup ToSet(b)
<1> DEFINE c == a \o b
<1>1. /\ c \in Seq(A) /\ Len(c) = Len(a) + Len(b) /\ Len(a) \in Nat /\ Len(b) \in Nat
      /\ DOMAIN c = 1..Len(c) /\ DOMAIN a = 1..Len(a) /\ DOMAIN b = 1..Len(b)
      /\ \A i \in 1..Len(c) : c[i] = IF i <= Len(a) THEN a[i] ELSE b[i - Len(a)]
  OBVIOUS
<1> HIDE DEF c
<1>2. ToSet(c) \subseteq ToSet(a) \cup ToSet(b)
  <2>1. ASSUME NEW i \in 1..Len(c) PROVE c[i] \in ToSet(a) \cup ToSet(b)
    <3>1. i <= Len(a) => i \in 1..Len(a)
      BY <1>1
    <3>2. ~(i <= Len(a)) => i - Len(a) \in 1..Len(b)
      BY <1>1
    <3> QED
      BY <1>1, <3>1, <3>2 DEF ToSet
  <2> QED
    BY <1>1, <2>1 DEF ToSet
<1>3. ToSet(a) \subseteq ToSet(c)
  <2>1. \A i \in 1..Len(a) : i \in 1..Len(c) /\ c[i] = a[i]
    BY <1>1
  <2> QED
    BY <1>1, <2>1 DEF ToSet
<1>4. ToSet(b) \subseteq ToSet(c)
  <2>1. \A i \in 1..Len(b) : i + Len(a) \in 1..Len(c) /\ c[i + Len(a)] = b[i]
    BY <1>1
  <2> QED
    BY <1>1, <2>1 DEF ToSet
<1> QED
  BY <1>1, <1>2, <1>3, <1>4 DEF c

LEMMA ListOfIs ==
  ASSUME NEW order \in Seq(Emails), NEW search, NEW attention
  PROVE  /\ ListOf(order, search, attention) \in Seq(Emails)
         /\ ToSet(ListOf(order, search, attention)) = FoundBy(search, ToSet(order))
<1> DEFINE found == FoundBy(search, ToSet(order))
           first == Kept(order, found \ attention)
           second == Kept(order, found \cap attention)
<1>1. /\ first \in Seq(Emails) /\ ToSet(first) = ToSet(order) \cap (found \ attention)
      /\ second \in Seq(Emails) /\ ToSet(second) = ToSet(order) \cap (found \cap attention)
  BY KeptIs
<1>2. found \subseteq ToSet(order)
  BY DEF FoundBy
<1>3. ListOf(order, search, attention) = first \o second
  BY DEF ListOf
<1> HIDE DEF found, first, second
<1>4. first \o second \in Seq(Emails) /\ ToSet(first \o second) = ToSet(first) \cup ToSet(second)
  BY <1>1, SetOfBoth
<1> QED
  BY <1>1, <1>2, <1>3, <1>4 DEF found

LEMMA InSet ==
  ASSUME NEW A, NEW list \in Seq(A), NEW i \in 1..Len(list) PROVE list[i] \in ToSet(list)
BY DEF ToSet

LEMMA ItemsAreListed ==
  ASSUME NEW query, viewPlan \in ViewPlans
  PROVE  ItemsOf(query) \in Seq(ToSet(viewPlan.palette))
<1>1. viewPlan.palette \in Seq(ToSet(viewPlan.palette))
  BY ViewParameters
<1> QED
  BY <1>1, KeptIs DEF ItemsOf

\* clampSelection leaves a screen on which what is selected is there.
LEMMA Clamps ==
  ASSUME NEW u, Screen(u)
  PROVE  /\ Shown(ClampSelection(u))
         /\ \A f \in ScreenFields \ {"chosen"} : ClampSelection(u)[f] = u[f]
         /\ u.chosen \in ToSet(ListOf(u.order, u.search, u.attention)) => ClampSelection(u) = u
<1> DEFINE emails == ListOf(u.order, u.search, u.attention)
           first == IF emails = <<>> THEN None ELSE emails[1]
<1>1. ClampSelection(u) = IF u.chosen \in ToSet(emails) THEN u ELSE [u EXCEPT !.chosen = first]
  BY ListsOfScreen DEF ClampSelection
<1>2. emails \in Seq(Emails)
  BY ListOfIs DEF Screen
<1>3. IsSelected(first, emails)
  BY <1>2, InSet DEF IsSelected
<1>4. CASE u.chosen \in ToSet(emails)
  <2>1. ClampSelection(u) = u
    BY <1>1, <1>4
  <2>2. emails # <<>>
    BY <1>4 DEF ToSet
  <2> QED
    BY <1>4, <2>1, <2>2 DEF Shown, IsSelected
<1>5. CASE u.chosen \notin ToSet(emails)
  <2>1. ASSUME NEW t, t = [u EXCEPT !.chosen = first]
        PROVE  Shown(t) /\ \A f \in ScreenFields \ {"chosen"} : t[f] = u[f]
    <3>1. t.chosen = first /\ DOMAIN t = ScreenFields /\ \A f \in ScreenFields \ {"chosen"} : t[f] = u[f]
      <4> HIDE DEF first
      <4> QED
        BY <2>1 DEF Screen, ScreenFields
    <3>2. Screen(t)
      BY <3>1 DEF Screen, ScreenFields
    <3>3. ListOf(t.order, t.search, t.attention) = emails
      BY <3>1 DEF ScreenFields
    <3> QED
      BY <1>3, <3>1, <3>2, <3>3 DEF Shown
  <2> QED
    BY <1>1, <1>5, <2>1
<1> QED
  BY <1>4, <1>5

\* Selecting another account that is there.
LEMMA Selects ==
  ASSUME NEW u, Shown(u), NEW e, IsSelected(e, ListOf(u.order, u.search, u.attention))
  PROVE  Shown([u EXCEPT !.chosen = e])
<1> DEFINE t == [u EXCEPT !.chosen = e]
<1>1. t.chosen = e /\ DOMAIN t = ScreenFields /\ \A f \in ScreenFields \ {"chosen"} : t[f] = u[f]
  BY DEF Shown, Screen, ScreenFields
<1> HIDE DEF t
<1>2. Screen(t) /\ ListOf(t.order, t.search, t.attention) = ListOf(u.order, u.search, u.attention)
  BY <1>1 DEF Shown, Screen, ScreenFields
<1>3. Shown(t)
  BY <1>1, <1>2 DEF Shown
<1> QED
  BY <1>3 DEF t

LEMMA IndexesAreShown ==
  ASSUME NEW u, Shown(u)
  PROVE  /\ \A i : IsIndex(i, Len(u.names)) => Shown([u EXCEPT !.nameIndex = i])
         /\ \A i : IsIndex(i, u.events) => Shown([u EXCEPT !.eventIndex = i])
<1>1. ASSUME NEW i, IsIndex(i, Len(u.names)), NEW t, t = [u EXCEPT !.nameIndex = i] PROVE Shown(t)
  BY <1>1 DEF Shown, Screen, ScreenFields
<1>2. ASSUME NEW i, IsIndex(i, u.events), NEW t, t = [u EXCEPT !.eventIndex = i] PROVE Shown(t)
  BY <1>2 DEF Shown, Screen, ScreenFields
<1> QED
  BY <1>1, <1>2

LEMMA MovesSelection ==
  ASSUME NEW u, Shown(u), NEW delta \in Int PROVE Shown(MoveSelection(u, delta))
<1> DEFINE emails == VisibleEmails(u)
           index == Max({IndexIn(emails, u.chosen) - 1, 0})
           e == emails[Around(index, delta, Len(emails)) + 1]
<1>1. MoveSelection(u, delta) = IF emails = <<>> THEN u ELSE [u EXCEPT !.chosen = e]
  BY DEF MoveSelection
<1>2. emails \in Seq(Emails)
  BY ListsOfScreen, ListOfIs DEF Shown, Screen
<1>3. CASE emails # <<>>
  <2>1. Len(emails) \in Nat \ {0}
    BY <1>2, <1>3
  <2>2. index \in Int
    <3>1. IndexIn(emails, u.chosen) \in 0..Len(emails)
      BY <1>2, IndexIsThere
    <3> HIDE DEF emails
    <3> QED
      BY <2>1, <3>1, TwoNumbers
  <2>5. emails = ListOf(u.order, u.search, u.attention)
    BY ListsOfScreen
  <2> HIDE DEF emails, index
  <2>3. Around(index, delta, Len(emails)) \in 0..(Len(emails) - 1)
    BY <2>1, <2>2, AroundStaysIn
  <2>4. IsSelected(e, emails)
    BY <1>2, <1>3, <2>1, <2>3, InSet DEF IsSelected
  <2> QED
    BY <1>1, <1>3, <2>4, <2>5, Selects
<1> QED
  BY <1>1, <1>3

LEMMA MovesInView ==
  ASSUME NEW u, Shown(u), NEW delta \in Int PROVE Shown(MoveInView(u, delta))
<1>1. CASE u.view = "profiles"
  <2> DEFINE n == Len(u.names)
             i == Around(u.nameIndex, delta, n)
  <2>1. MoveInView(u, delta) = IF u.names = <<>> THEN u ELSE [u EXCEPT !.nameIndex = i]
    BY <1>1 DEF MoveInView
  <2>2. CASE u.names # <<>>
    <3>1. n \in Nat \ {0} /\ u.nameIndex \in Nat
      BY <2>2 DEF Shown, Screen, IsIndex
    <3> HIDE DEF n
    <3>2. IsIndex(i, n)
      BY <3>1, AroundStaysIn DEF IsIndex
    <3> QED
      BY <2>1, <2>2, <3>2, IndexesAreShown DEF n
  <2> QED
    BY <2>1, <2>2
<1>2. CASE u.view = "history"
  <2> DEFINE n == u.events
             i == Around(u.eventIndex, delta, n)
  <2>1. MoveInView(u, delta) = IF n = 0 THEN u ELSE [u EXCEPT !.eventIndex = i]
    BY <1>2 DEF MoveInView
  <2>2. CASE n # 0
    <3>1. n \in Nat \ {0} /\ u.eventIndex \in Nat
      BY <2>2 DEF Shown, Screen, IsIndex
    <3> HIDE DEF n
    <3>2. IsIndex(i, n)
      BY <3>1, AroundStaysIn DEF IsIndex
    <3> QED
      BY <2>1, <2>2, <3>2, IndexesAreShown DEF n
  <2> QED
    BY <2>1, <2>2
<1>3. CASE u.view \notin {"profiles", "history"}
  <2>1. MoveInView(u, delta) = MoveSelection(u, delta)
    BY <1>3 DEF MoveInView
  <2> QED
    BY <2>1, MovesSelection
<1> QED
  BY <1>1, <1>2, <1>3

LEMMA LastIndexIsOne ==
  ASSUME NEW n \in Nat
  PROVE  /\ IsIndex(Max({0, n - 1}), n)
         /\ \A index \in Nat : IsIndex(ClampedIndex(index, n), n)
<1>1. Max({0, n - 1}) = IF n = 0 THEN 0 ELSE n - 1
  BY TwoNumbers
<1> DEFINE top == Max({0, n - 1})
<1>2. top \in Nat
  BY <1>1
<1>3. ASSUME NEW index \in Nat PROVE IsIndex(ClampedIndex(index, n), n)
  <2>1. ClampedIndex(index, n) = IF index <= top THEN index ELSE top
    <3> HIDE DEF top
    <3>1. Min({index, top}) = IF index <= top THEN index ELSE top
      BY <1>2, TwoNumbers
    <3> QED
      BY <3>1 DEF ClampedIndex, top
  <2> QED
    BY <1>1, <2>1 DEF IsIndex
<1> QED
  BY <1>1, <1>3 DEF IsIndex

LEMMA MovesToBoundary ==
  ASSUME NEW u, Shown(u), NEW last \in BOOLEAN PROVE Shown(ToBoundary(u, last))
<1> DEFINE emails == VisibleEmails(u)
           i == IF last THEN Max({0, Len(u.names) - 1}) ELSE 0
           j == IF last THEN Max({0, u.events - 1}) ELSE 0
           e == IF last THEN Last(emails) ELSE emails[1]
<1>1. ToBoundary(u, last) =
        CASE u.view = "profiles" -> [u EXCEPT !.nameIndex = i]
          [] u.view = "history" -> [u EXCEPT !.eventIndex = j]
          [] emails = <<>> -> u
          [] OTHER -> [u EXCEPT !.chosen = e]
  BY DEF ToBoundary
<1>2. emails = ListOf(u.order, u.search, u.attention)
  BY ListsOfScreen
<1>3. emails \in Seq(Emails) /\ Len(u.names) \in Nat /\ u.events \in Nat
  BY <1>2, ListOfIs DEF Shown, Screen
<1>4. IsIndex(i, Len(u.names)) /\ IsIndex(j, u.events)
  BY <1>3, LastIndexIsOne DEF IsIndex
<1>5. emails # <<>> => IsSelected(e, emails)
  <2> HIDE DEF emails
  <2>1. emails # <<>> => Len(emails) \in Nat \ {0}
    BY <1>3
  <2>2. emails # <<>> => e \in ToSet(emails)
    BY <1>3, <2>1, InSet DEF Last
  <2> QED
    BY <2>2 DEF IsSelected
<1> HIDE DEF i, j, e, emails
<1>6. CASE u.view = "profiles"
  BY <1>1, <1>4, <1>6, IndexesAreShown, SMTT(30)
<1>7. CASE u.view = "history"
  BY <1>1, <1>4, <1>7, IndexesAreShown
<1>8. CASE u.view \notin {"profiles", "history"} /\ emails # <<>>
  BY <1>1, <1>2, <1>5, <1>8, Selects
<1>9. CASE u.view \notin {"profiles", "history"} /\ emails = <<>>
  BY <1>1, <1>9
<1> QED
  BY <1>6, <1>7, <1>8, <1>9

LEMMA BeginsView ==
  ASSUME NEW u, Shown(u), NEW view, NEW names, NEW events \in Nat, viewPlan \in ViewPlans
  PROVE  Shown(BeginView(u, view, names, events))
<1> DEFINE read == IF viewPlan.readable THEN Sorted(names) ELSE <<>>
           i == ClampedIndex(u.nameIndex, Len(read))
           j == ClampedIndex(u.eventIndex, events)
<1>1. read \in Seq(ToSet(viewPlan.everyName))
  <2>1. viewPlan.everyName \in Seq(ToSet(viewPlan.everyName))
    BY ViewParameters
  <2>2. Kept(viewPlan.everyName, names) \in Seq(ToSet(viewPlan.everyName))
    BY <2>1, KeptIs
  <2>3. <<>> \in Seq(ToSet(viewPlan.everyName))
    OBVIOUS
  <2> QED
    BY <2>2, <2>3 DEF Sorted
<1>2. IsIndex(i, Len(read)) /\ IsIndex(j, events)
  <2>1. u.nameIndex \in Nat /\ u.eventIndex \in Nat
    BY DEF Shown, Screen, IsIndex
  <2>2. Len(read) \in Nat
    BY <1>1
  <2> HIDE DEF read
  <2> QED
    BY <2>1, <2>2, LastIndexIsOne
<1>3. ASSUME NEW opened,
             opened = [u EXCEPT !.view = view, !.mode = "browse", !.form = NoForm, !.query = 0]
      PROVE  Shown(opened) /\ opened.nameIndex = u.nameIndex /\ opened.eventIndex = u.eventIndex
  BY <1>3 DEF Shown, Screen, ScreenFields, IsIndex
<1> DEFINE opened == [u EXCEPT !.view = view, !.mode = "browse", !.form = NoForm, !.query = 0]
<1>4. \/ BeginView(u, view, names, events) = [opened EXCEPT !.names = read, !.nameIndex = i]
      \/ BeginView(u, view, names, events) = [opened EXCEPT !.events = events, !.eventIndex = j]
      \/ BeginView(u, view, names, events) = opened
  <2> HIDE DEF read
  <2>1. [opened EXCEPT !.names = read, !.nameIndex = ClampedIndex(@, Len(read))]
          = [opened EXCEPT !.names = read, !.nameIndex = i]
    BY <1>3
  <2>2. [opened EXCEPT !.events = events, !.eventIndex = ClampedIndex(@, events)]
          = [opened EXCEPT !.events = events, !.eventIndex = j]
    BY <1>3
  <2>3. BeginView(u, view, names, events) =
          CASE view = "profiles" ->
                 [opened EXCEPT !.names = read, !.nameIndex = ClampedIndex(@, Len(read))]
            [] view = "history" /\ viewPlan.readable ->
                 [opened EXCEPT !.events = events, !.eventIndex = ClampedIndex(@, events)]
            [] OTHER -> opened
    BY DEF BeginView, read
  <2> HIDE DEF opened, i, j
  <2> QED
    BY <2>1, <2>2, <2>3
<1>5. Shown(opened)
  BY <1>3
<1> HIDE DEF opened, read, i, j
<1>6. ASSUME NEW t, t = [opened EXCEPT !.names = read, !.nameIndex = i] PROVE Shown(t)
  BY <1>1, <1>2, <1>5, <1>6 DEF Shown, Screen, ScreenFields
<1>7. ASSUME NEW t, t = [opened EXCEPT !.events = events, !.eventIndex = j] PROVE Shown(t)
  BY <1>2, <1>5, <1>7 DEF Shown, Screen, ScreenFields
<1> QED
  BY <1>4, <1>5, <1>6, <1>7

LEMMA OpensDialog ==
  ASSUME NEW u, Shown(u), NEW kind, NEW subject PROVE Shown(OpenDialog(u, kind, subject))
<1> DEFINE index == IF kind \in Destructive THEN 1 ELSE 0
<1>1. index \in 0..(IF kind = "help" THEN 0 ELSE 1)
  BY DEF Destructive
<1>2. OpenDialog(u, kind, subject) =
        [u EXCEPT !.mode = "dialog", !.drawn = FALSE,
                  !.dialog = [kind |-> kind, subject |-> subject, index |-> index]]
  BY DEF OpenDialog
<1> HIDE DEF index
<1>3. ASSUME NEW t, t = [u EXCEPT !.mode = "dialog", !.drawn = FALSE,
                                  !.dialog = [kind |-> kind, subject |-> subject, index |-> index]]
      PROVE  Shown(t)
  BY <1>1, <1>3 DEF Shown, Screen, ScreenFields
<1> QED
  BY <1>2, <1>3

LEMMA AsksAbout == ASSUME NEW u, Shown(u), NEW kind PROVE Shown(AskAbout(u, kind))
<1>1. Shown(ClampSelection(u))
  BY Clamps DEF Shown
<1> QED
  BY <1>1, OpensDialog DEF AskAbout

LEMMA BeginsForm == ASSUME NEW u, Shown(u), NEW kind PROVE Shown(BeginForm(u, kind))
<1> DEFINE at == IF kind = "tags" THEN ClampSelection(u) ELSE u
           form == [kind |-> kind, field |-> 0, previous |-> u.view,
                    name |-> IF kind = "profile-edit" THEN ShownName(u) ELSE None]
<1>1. Shown(at)
  BY Clamps DEF Shown
<1>2. BeginForm(u, kind) \in {at, [at EXCEPT !.mode = "form", !.form = form]}
  BY DEF BeginForm
<1> HIDE DEF at, form
<1>3. ASSUME NEW t, t = [at EXCEPT !.mode = "form", !.form = form] PROVE Shown(t)
  BY <1>1, <1>3 DEF Shown, Screen, ScreenFields
<1> QED
  BY <1>1, <1>2, <1>3

LEMMA ChangesMode ==
  ASSUME NEW u, Shown(u), NEW mode \in {"browse", "left"} PROVE Shown([u EXCEPT !.mode = mode])
<1>1. ASSUME NEW t, t = [u EXCEPT !.mode = mode] PROVE Shown(t)
  BY <1>1 DEF Shown, Screen, ScreenFields
<1> QED
  BY <1>1

LEMMA RunsAction ==
  ASSUME NEW u, Shown(u), NEW id, viewPlan \in ViewPlans, savedEvents \in Nat
  PROVE  Shown(RunAction(u, id))
<1>1. Shown(BeginView(u, id, savedNames, savedEvents))
  BY BeginsView
<1>2. Shown(AskAbout(u, id)) /\ Shown(BeginForm(u, id)) /\ Shown(BeginForm(u, "settings"))
  BY AsksAbout, BeginsForm
<1>3. Shown([u EXCEPT !.mode = "left"])
  BY ChangesMode
<1> QED
  BY <1>1, <1>2, <1>3 DEF RunAction

LEMMA KeysOfBrowsing ==
  ASSUME NEW u, Shown(u), NEW key, viewPlan \in ViewPlans, savedEvents \in Nat
  PROVE  Shown(BrowseKey(u, key))
<1> DEFINE page == PageOf(u)
           digit == IndexIn(Digits, key)
           emails == VisibleEmails(u)
           palette == [u EXCEPT !.mode = "palette", !.drawn = FALSE, !.query = 0, !.item = 0]
           search == [u EXCEPT !.mode = "search", !.previous = u.search, !.before = u.chosen,
                               !.origin = [search |-> u.search, chosen |-> u.chosen]]
           chosen == [u EXCEPT !.chosen = emails[digit]]
<1>1. emails \in Seq(Emails) /\ emails = ListOf(u.order, u.search, u.attention)
  <2>1. emails = ListOf(u.order, u.search, u.attention)
    BY ListsOfScreen
  <2>2. ListOf(u.order, u.search, u.attention) \in Seq(Emails)
    BY ListOfIs DEF Shown, Screen
  <2> QED
    BY <2>1, <2>2
<1>2. page \in Int
  <2>1. Len(emails) \div 2 \in Int
    BY <1>1
  <2>2. Max({1, Len(emails) \div 2}) \in Int
    <3> DEFINE half == Len(emails) \div 2
    <3> HIDE DEF half
    <3> QED
      BY <2>1, TwoNumbers DEF half
  <2> QED
    BY <2>2 DEF PageOf
<1>3. /\ Shown(MoveInView(u, -1)) /\ Shown(MoveInView(u, 1))
      /\ Shown(MoveInView(u, -page)) /\ Shown(MoveInView(u, page))
  <2> HIDE DEF page
  <2> QED
    BY <1>2, MovesInView
<1>4. Shown(ToBoundary(u, FALSE)) /\ Shown(ToBoundary(u, TRUE))
  BY MovesToBoundary
<1>5. Shown(RunAction(u, KeyAction[key])) /\ Shown(RunAction(u, ViewAction[u.view][key]))
  BY RunsAction
<1>6. Shown(AskAbout(u, "delete")) /\ Shown([u EXCEPT !.mode = "left"])
  BY AsksAbout, ChangesMode
<1>7. Shown(palette)
  <2>1. ASSUME NEW t, t = palette PROVE Shown(t)
    BY <2>1 DEF Shown, Screen, ScreenFields, IsIndex
  <2> QED
    BY <2>1
<1>8. Shown(search)
  <2>1. ASSUME NEW t, t = search PROVE Shown(t)
    BY <2>1 DEF Shown, Screen, ScreenFields
  <2> QED
    BY <2>1
<1>9. digit \in DOMAIN emails => Shown(chosen)
  <2> HIDE DEF emails, digit
  <2>1. digit \in DOMAIN emails => IsSelected(emails[digit], emails)
    BY <1>1, InSet DEF IsSelected
  <2> QED
    BY <1>1, <2>1, Selects
<1>10. BrowseKey(u, key) \in
         {[u EXCEPT !.mode = "left"], palette, search, MoveInView(u, -1), MoveInView(u, 1),
          MoveInView(u, -page), MoveInView(u, page), ToBoundary(u, FALSE), ToBoundary(u, TRUE),
          RunAction(u, KeyAction[key]), RunAction(u, ViewAction[u.view][key]),
          AskAbout(u, "delete"), u}
         \cup (IF digit \in DOMAIN emails THEN {chosen} ELSE {})
  BY Zenon DEF BrowseKey
<1> HIDE DEF page, digit, emails, palette, search, chosen
<1> QED
  BY <1>3, <1>4, <1>5, <1>6, <1>7, <1>8, <1>9, <1>10

\* What a search that is given up leaves.
LEMMA RestoresSearch ==
  ASSUME NEW u, Shown(u), u.mode = "search"
  PROVE  /\ Shown(RestoredSearch(u))
         /\ RestoredSearch(u).search = u.origin.search
         /\ RestoredSearch(u).order = u.order /\ RestoredSearch(u).attention = u.attention
         /\ u.before # None /\ u.before \in ToSet(ListOf(u.order, u.origin.search, u.attention)) =>
              RestoredSearch(u).chosen = u.before
<1> DEFINE chosen == IF u.before = None THEN u.chosen ELSE u.before
           t == [u EXCEPT !.search = u.previous, !.before = None, !.mode = "browse", !.chosen = chosen]
<1>1. RestoredSearch(u) = ClampSelection(t)
  BY DEF RestoredSearch, Shown, Screen, ScreenFields
<1>2. /\ t.chosen = chosen /\ t.search = u.previous /\ t.mode = "browse" /\ DOMAIN t = ScreenFields
      /\ \A f \in ScreenFields \ {"chosen", "search", "before", "mode"} : t[f] = u[f]
  <2> HIDE DEF chosen
  <2> QED
    BY DEF Shown, Screen, ScreenFields
<1> HIDE DEF t
<1>3. Screen(t) /\ u.previous = u.origin.search /\ t.order = u.order /\ t.attention = u.attention
  BY <1>2 DEF Shown, Screen, ScreenFields
<1>4. /\ Shown(ClampSelection(t))
      /\ \A f \in ScreenFields \ {"chosen"} : ClampSelection(t)[f] = t[f]
      /\ t.chosen \in ToSet(ListOf(t.order, t.search, t.attention)) => ClampSelection(t) = t
  BY <1>3, Clamps
<1>5. /\ ClampSelection(t).search = u.origin.search
      /\ ClampSelection(t).order = u.order /\ ClampSelection(t).attention = u.attention
  BY <1>2, <1>3, <1>4 DEF ScreenFields
<1> QED
  BY <1>1, <1>2, <1>3, <1>4, <1>5

LEMMA KeysOfSearching ==
  ASSUME NEW u, Shown(u), u.mode = "search", NEW key PROVE Shown(SearchKey(u, key))
<1> DEFINE shorter == Max({0, u.search - 1})
           longer == Min({2, u.search + 1})
           typed1 == [u EXCEPT !.search = shorter]
           typed2 == [u EXCEPT !.search = longer]
           entered == [u EXCEPT !.mode = "browse", !.before = None]
<1>1. shorter \in Nat /\ longer \in Nat
  <2>1. u.search \in Nat
    BY DEF Shown, Screen
  <2>2. ASSUME NEW n \in Nat PROVE Max({0, n - 1}) \in Nat /\ Min({2, n + 1}) \in Nat
    <3>1. n - 1 \in Int /\ n + 1 \in Int
      OBVIOUS
    <3>2. Max({0, n - 1}) = IF 0 >= n - 1 THEN 0 ELSE n - 1
      BY <3>1, TwoNumbers
    <3>3. Min({2, n + 1}) = IF 2 <= n + 1 THEN 2 ELSE n + 1
      BY <3>1, TwoNumbers
    <3> QED
      BY <3>1, <3>2, <3>3
  <2> QED
    BY <2>1, <2>2
<1>2. SearchKey(u, key) \in
        {RestoredSearch(u), ClampSelection(entered), ClampSelection(typed1), ClampSelection(typed2), u}
  <2>1. [u EXCEPT !.search = Max({0, @ - 1})] = typed1 /\ [u EXCEPT !.search = Min({2, @ + 1})] = typed2
    OBVIOUS
  <2> HIDE DEF typed1, typed2, entered
  <2>2. SearchKey(u, key) =
          CASE key = "esc" -> RestoredSearch(u)
            [] key = "enter" -> ClampSelection(entered)
            [] key = "backspace" -> ClampSelection(typed1)
            [] key = "letter" -> ClampSelection(typed2)
            [] OTHER -> u
    BY <2>1 DEF SearchKey, entered
  <2> QED
    BY <2>2
<1> HIDE DEF shorter, longer
<1>3. \A t \in {typed1, typed2, entered} : Screen(t)
  <2>1. ASSUME NEW n \in Nat, NEW t, t = [u EXCEPT !.search = n] PROVE Screen(t)
    BY <2>1 DEF Shown, Screen, ScreenFields
  <2>2. ASSUME NEW t, t = entered PROVE Screen(t)
    BY <2>2 DEF Shown, Screen, ScreenFields
  <2>3. Screen(typed1) /\ Screen(typed2) /\ Screen(entered)
    BY <1>1, <2>1, <2>2
  <2> HIDE DEF typed1, typed2, entered
  <2> QED
    BY <2>3
<1> HIDE DEF typed1, typed2, entered
<1>4. /\ Shown(RestoredSearch(u)) /\ Shown(ClampSelection(entered))
      /\ Shown(ClampSelection(typed1)) /\ Shown(ClampSelection(typed2))
  BY <1>3, Clamps, RestoresSearch
<1> QED
  BY <1>2, <1>4

LEMMA MovesPalette ==
  ASSUME NEW u, Shown(u), u.mode = "palette", NEW delta \in Int, viewPlan \in ViewPlans
  PROVE  Shown(MovePalette(u, delta))
<1> DEFINE items == Items(u)
           step(k) == Around(u.item, delta + (IF delta >= 0 THEN k ELSE -k), Len(items))
           doable == {k \in 0..(Len(items) - 1) : Enabled(u, items[step(k) + 1])}
           i == step(Min(doable))
<1>1. MovePalette(u, delta) = IF doable = {} THEN u ELSE [u EXCEPT !.item = i]
  BY DEF MovePalette
<1>2. Len(items) \in Nat /\ items = ItemsOf(u.query) /\ u.item \in Nat
  <2>1. items = ItemsOf(u.query)
    BY ListsOfScreen
  <2>2. ItemsOf(u.query) \in Seq(ToSet(viewPlan.palette))
    BY ItemsAreListed
  <2>3. u.item \in Nat
    BY DEF Shown, Screen, IsIndex
  <2> QED
    BY <2>1, <2>2, <2>3
<1>3. doable # {} => Len(items) \in Nat \ {0} /\ Min(doable) \in Int
  <2>1. doable \subseteq 0..(Len(items) - 1) /\ doable \subseteq Nat
    BY <1>2
  <2> HIDE DEF doable
  <2>2. doable # {} => Min(doable) \in doable
    BY <2>1, LeastNatural DEF Min
  <2> DEFINE n == Len(items)
             least == Min(doable)
  <2>3. n \in Nat /\ doable \subseteq 0..(n - 1) /\ (doable # {} => least \in doable)
    BY <1>2, <2>1, <2>2
  <2> HIDE DEF n, least
  <2> HIDE DEF doable
  <2>4. ASSUME doable # {} PROVE n \in Nat \ {0} /\ least \in Int
    <3>1. least \in 0..(n - 1)
      BY <2>3, <2>4
    <3> QED
      BY <2>3, <3>1
  <2> QED
    BY <2>4 DEF n, least
<1>4. doable # {} => IsIndex(i, Len(items))
  <2> DEFINE n == Len(items)
             k == Min(doable)
  <2>1. doable # {} => n \in Nat \ {0} /\ k \in Int
    BY <1>3
  <2> HIDE DEF n, k, doable, items
  <2>2. ASSUME doable # {} PROVE Around(u.item, delta + (IF delta >= 0 THEN k ELSE -k), n) \in 0..(n - 1)
    <3> DEFINE steps == delta + (IF delta >= 0 THEN k ELSE -k)
    <3>1. steps \in Int
      BY <2>1, <2>2
    <3> HIDE DEF steps
    <3>2. Around(u.item, steps, n) \in 0..(n - 1)
      <4>1. u.item \in Int /\ n \in Nat \ {0}
        BY <1>2, <2>1, <2>2
      <4> QED
        BY <3>1, <4>1, AroundStaysIn
    <3> QED
      BY <3>2 DEF steps
  <2> QED
    BY <2>1, <2>2 DEF IsIndex, n, k
<1> HIDE DEF i, doable, items
<1>5. ASSUME NEW t, t = [u EXCEPT !.item = i], doable # {} PROVE Shown(t)
  BY <1>2, <1>4, <1>5 DEF Shown, Screen, ScreenFields
<1> QED
  BY <1>1, <1>5

LEMMA KeysOfPalette ==
  ASSUME NEW u, Shown(u), u.mode = "palette", NEW key, viewPlan \in ViewPlans, savedEvents \in Nat
  PROVE  Shown(PaletteKey(u, key))
<1> DEFINE shorter == u.query - 1
           longer == Min({2, u.query + 1})
           browsing == [u EXCEPT !.mode = "browse"]
           chosen == RunAction(browsing, Items(u)[u.item + 1])
           typed1 == [u EXCEPT !.query = shorter, !.item = 0]
           typed2 == [u EXCEPT !.query = longer, !.item = 0]
<1>1. PaletteKey(u, key) \in
        {browsing, MovePalette(u, -1), MovePalette(u, 1), MovePalette(u, -5), MovePalette(u, 5),
         typed1, typed2, chosen, u}
  <2>1. /\ [u EXCEPT !.query = @ - 1, !.item = 0] = typed1
        /\ [u EXCEPT !.query = Min({2, @ + 1}), !.item = 0] = typed2
    OBVIOUS
  <2> HIDE DEF typed1, typed2
  <2> QED
    BY <2>1, Zenon DEF PaletteKey
<1>2. Shown(browsing)
  BY ChangesMode
<1>3. Shown(chosen)
  <2> HIDE DEF browsing
  <2> QED
    BY <1>2, RunsAction
<1>4. ASSUME NEW query, NEW t, t = [u EXCEPT !.query = query, !.item = 0] PROVE Shown(t)
  BY <1>4 DEF Shown, Screen, ScreenFields, IsIndex
<1>5. /\ Shown(MovePalette(u, -1)) /\ Shown(MovePalette(u, 1))
      /\ Shown(MovePalette(u, -5)) /\ Shown(MovePalette(u, 5))
  BY MovesPalette
<1>6. Shown(typed1) /\ Shown(typed2)
  BY <1>4
<1> HIDE DEF browsing, chosen, typed1, typed2
<1> QED
  BY <1>1, <1>2, <1>3, <1>5, <1>6

LEMMA KeysOfForm ==
  ASSUME NEW u, Shown(u), u.mode = "form", NEW key PROVE Shown(FormKey(u, key))
<1>1. ASSUME NEW t, NEW view, t = [u EXCEPT !.mode = "browse", !.view = view, !.form = NoForm]
      PROVE  Shown(t)
  BY <1>1 DEF Shown, Screen, ScreenFields
<1>2. ASSUME NEW t, NEW form, t = [u EXCEPT !.form = form] PROVE Shown(t)
  BY <1>2 DEF Shown, Screen, ScreenFields
<1>3. Shown(FormCanceled(u))
  BY <1>1 DEF FormCanceled
<1>4. /\ \A field : Shown([u EXCEPT !.form.field = field])
      /\ \A name : Shown([u EXCEPT !.form.name = name])
  BY <1>2
<1> DEFINE n == Fields(u.form.kind)
           down == Around(u.form.field, 1, n)
           up == Around(u.form.field, -1, n)
<1>5. FormKey(u, key) \in
        {FormCanceled(u), [u EXCEPT !.form.field = down], [u EXCEPT !.form.field = up],
         [u EXCEPT !.form.name = viewPlan.typedName], [u EXCEPT !.form.name = None], u}
  BY Zenon DEF FormKey
<1> QED
  BY <1>3, <1>4, <1>5

LEMMA MovesButton ==
  ASSUME NEW u, Shown(u), u.mode = "dialog", NEW key
  PROVE  Shown(MoveButton(u, key)) /\ Shown(DialogClosed(u))
<1> DEFINE index == u.dialog.index
           n == Len(Buttons(u.dialog))
           left == Max({0, index - 1})
           right == Min({n - 1, index + 1})
           top == IF u.dialog.kind = "help" THEN 0 ELSE 1
<1>1. index \in 0..top /\ n = top + 1 /\ top \in {0, 1}
  BY DEF Shown, Screen, Buttons
<1>2. left \in 0..top /\ right \in 0..top
  <2> HIDE DEF index, n, top
  <2>1. index - 1 \in Int /\ index + 1 \in Int /\ n - 1 \in Int
    BY <1>1
  <2>2. left = IF 0 >= index - 1 THEN 0 ELSE index - 1
    BY <2>1, TwoNumbers
  <2>3. right = IF n - 1 <= index + 1 THEN n - 1 ELSE index + 1
    BY <2>1, TwoNumbers
  <2> QED
    BY <1>1, <2>1, <2>2, <2>3
<1>3. ASSUME NEW i \in 0..top, NEW t, t = [u EXCEPT !.dialog.index = i] PROVE Shown(t)
  BY <1>3 DEF Shown, Screen, ScreenFields
<1>4. MoveButton(u, key) \in {[u EXCEPT !.dialog.index = left], [u EXCEPT !.dialog.index = right], u}
  BY Zenon DEF MoveButton
<1>5. Shown([u EXCEPT !.dialog.index = left]) /\ Shown([u EXCEPT !.dialog.index = right])
  <2> HIDE DEF left, right, top
  <2> QED
    BY <1>2, <1>3
<1>6. ASSUME NEW t, t = [u EXCEPT !.mode = "browse", !.dialog = ClosedDialog] PROVE Shown(t)
  BY <1>6 DEF Shown, Screen, ScreenFields, ClosedDialog
<1>7. Shown(DialogClosed(u))
  BY <1>6 DEF DialogClosed
<1> QED
  BY <1>4, <1>5, <1>7

-----------------------------------------------------------------------------
(* Scrolling *)

RowsOf(order, search, attention, lines) ==
  LET first == Kept(order, FoundBy(search, ToSet(order)) \ attention)
      second == Kept(order, FoundBy(search, ToSet(order)) \cap attention)
  IN IF second = <<>> THEN Blocks(first, lines)
     ELSE (IF first = <<>> THEN <<>> ELSE <<None>> \o Blocks(first, lines))
            \o <<None>> \o Blocks(second, lines)

\* A window of h rows shows all rows from top to end, or only such rows if it has fewer.
Sees(offset, h, top, end) ==
  \/ offset <= top /\ end <= offset + h
  \/ h < end - top /\ top <= offset /\ offset + h <= end

\* The rows of the selected account are on the screen, unless the user has scrolled.
InSight(u) ==
  u.view = "dashboard" /\ u.chosen # None /\ u.height > 0 =>
    \/ LET top == IndexIn(RowsOf(u.order, u.search, u.attention, u.lines), u.chosen) - 1
       IN Sees(u.list.offset, u.height, top, top + u.lines)
    \/ u.list.loose /\ u.list.follow = u.chosen

\* The last two rows are those of one account.
EndsInBlock(rows) == Len(rows) >= 2 /\ rows[Len(rows)] = rows[Len(rows) - 1]

LEMMA BlocksAre ==
  ASSUME NEW A, NEW list \in Seq(A), NEW lines \in {1, 2}
  PROVE  /\ Blocks(list, lines) \in Seq(A)
         /\ ToSet(Blocks(list, lines)) = ToSet(list)
         /\ lines = 2 /\ list # <<>> => EndsInBlock(Blocks(list, lines))
<1> DEFINE n == Len(list)
           m == lines * n
           at(i) == (i - 1) \div lines + 1
           rows == [i \in 1..m |-> list[at(i)]]
<1>1. /\ n \in Nat /\ m \in Nat /\ DOMAIN list = 1..n /\ (list # <<>> => n # 0)
      /\ \A i \in 1..n : list[i] \in A
  OBVIOUS
<1>2. Blocks(list, lines) = rows
  BY DEF Blocks
<1>3. \A i \in 1..m : at(i) \in 1..n
  <2>1. CASE lines = 1
    BY <1>1, <2>1
  <2>2. CASE lines = 2
    BY <1>1, <2>2
  <2> QED
    BY <2>1, <2>2
<1>4. \A k \in 1..n : lines * k \in 1..m /\ at(lines * k) = k
  <2>1. CASE lines = 1
    BY <1>1, <2>1
  <2>2. CASE lines = 2
    BY <1>1, <2>2
  <2> QED
    BY <2>1, <2>2
<1>5. lines = 2 /\ n # 0 => m >= 2 /\ m - 1 \in 1..m /\ at(m) = n /\ at(m - 1) = n
  <2>1. ASSUME NEW k \in Nat, k # 0
        PROVE  /\ 2 * k >= 2 /\ 2 * k - 1 \in 1..(2 * k)
               /\ (2 * k - 1) \div 2 + 1 = k /\ (2 * k - 1 - 1) \div 2 + 1 = k
    BY <2>1
  <2> QED
    BY <1>1, <2>1
<1> HIDE DEF n, m, at
<1>6. rows \in Seq(A) /\ Len(rows) = m /\ DOMAIN rows = 1..m /\ \A i \in 1..m : rows[i] = list[at(i)]
  BY <1>1, <1>3
<1> HIDE DEF rows
<1>7. ToSet(rows) \subseteq ToSet(list)
  BY <1>1, <1>3, <1>6 DEF ToSet
<1>8. ToSet(list) \subseteq ToSet(rows)
  <2>1. \A k \in 1..n : rows[lines * k] = list[k] /\ lines * k \in 1..m
    BY <1>4, <1>6
  <2> QED
    BY <1>1, <1>6, <2>1 DEF ToSet
<1>9. lines = 2 /\ n # 0 => EndsInBlock(rows)
  <2>1. lines = 2 /\ n # 0 => m \in 1..m
    BY <1>1, <1>5
  <2> QED
    BY <1>5, <1>6, <2>1 DEF EndsInBlock
<1> QED
  BY <1>1, <1>2, <1>6, <1>7, <1>8, <1>9

LEMMA EndStays ==
  ASSUME NEW A, NEW a \in Seq(A), NEW b \in Seq(A), EndsInBlock(b) PROVE EndsInBlock(a \o b)
<1> DEFINE c == a \o b
<1>1. /\ Len(c) = Len(a) + Len(b) /\ Len(a) \in Nat /\ Len(b) \in Nat
      /\ \A i \in 1..Len(c) : c[i] = IF i <= Len(a) THEN a[i] ELSE b[i - Len(a)]
  OBVIOUS
<1> HIDE DEF c
<1>2. Len(b) >= 2 /\ b[Len(b)] = b[Len(b) - 1]
  BY DEF EndsInBlock
<1>3. /\ Len(c) >= 2 /\ Len(c) \in 1..Len(c) /\ Len(c) - 1 \in 1..Len(c)
      /\ ~(Len(c) <= Len(a)) /\ ~(Len(c) - 1 <= Len(a))
      /\ Len(c) - Len(a) = Len(b) /\ Len(c) - 1 - Len(a) = Len(b) - 1
  BY <1>1, <1>2
<1>4. c[Len(c)] = b[Len(b)] /\ c[Len(c) - 1] = b[Len(b) - 1]
  BY <1>1, <1>3
<1> QED
  BY <1>2, <1>3, <1>4 DEF EndsInBlock, c

LEMMA RowsAre ==
  ASSUME NEW order \in Seq(Emails), NEW search, NEW attention, NEW lines \in {1, 2}
  PROVE  LET rows == RowsOf(order, search, attention, lines)
         IN /\ rows \in Seq(Emails \cup {None})
            /\ ToSet(ListOf(order, search, attention)) \subseteq ToSet(rows)
            /\ lines = 2 /\ rows # <<>> => EndsInBlock(rows)
<1> DEFINE first == Kept(order, FoundBy(search, ToSet(order)) \ attention)
           second == Kept(order, FoundBy(search, ToSet(order)) \cap attention)
           ready == Blocks(first, lines)
           looked == Blocks(second, lines)
           A == Emails \cup {None}
           headed == <<None>> \o ready
           before == IF first = <<>> THEN <<>> ELSE headed
           middle == before \o <<None>>
           rows == middle \o looked
<1>1. first \in Seq(Emails) /\ second \in Seq(Emails)
  BY KeptIs
<1>2. first \in Seq(A) /\ second \in Seq(A)
  BY <1>1
<1>3. RowsOf(order, search, attention, lines) = IF second = <<>> THEN ready ELSE rows
  BY DEF RowsOf
<1>4. ListOf(order, search, attention) = first \o second
  BY DEF ListOf
<1>5. <<None>> \in Seq(A) /\ <<>> \in Seq(A)
  OBVIOUS
<1> HIDE DEF first, second, A
<1>6. /\ ready \in Seq(A) /\ ToSet(ready) = ToSet(first)
      /\ looked \in Seq(A) /\ ToSet(looked) = ToSet(second)
      /\ lines = 2 /\ first # <<>> => EndsInBlock(ready)
      /\ lines = 2 /\ second # <<>> => EndsInBlock(looked)
  BY <1>2, BlocksAre
<1>7. first = <<>> => ready = <<>>
  <2>1. first = <<>> => lines * Len(first) = 0
    OBVIOUS
  <2> QED
    BY <2>1 DEF Blocks
<1> HIDE DEF ready, looked
<1>8. headed \in Seq(A) /\ ToSet(headed) = ToSet(<<None>>) \cup ToSet(ready)
  <2>1. <<None>> \in Seq(A) /\ ready \in Seq(A)
    BY <1>5, <1>6
  <2> QED
    BY <2>1, SetOfBoth, ZenonT(60)
<1> HIDE DEF headed
<1>9. before \in Seq(A) /\ ToSet(first) \subseteq ToSet(before)
  <2>1. first = <<>> => ToSet(first) = {}
    BY DEF ToSet
  <2> QED
    BY <1>5, <1>6, <1>8, <2>1
<1> HIDE DEF before
<1>10. middle \in Seq(A) /\ ToSet(middle) = ToSet(before) \cup ToSet(<<None>>)
  BY <1>5, <1>9, SetOfBoth, ZenonT(60)
<1> HIDE DEF middle
<1>11. rows \in Seq(A) /\ ToSet(rows) = ToSet(middle) \cup ToSet(looked)
  BY <1>6, <1>10, SetOfBoth
<1>12. lines = 2 /\ second # <<>> => EndsInBlock(rows)
  BY <1>6, <1>10, EndStays
<1> HIDE DEF rows
<1>13. ToSet(first \o second) = ToSet(first) \cup ToSet(second)
  BY <1>2, SetOfBoth
<1>14. second = <<>> => ToSet(second) = {}
  BY DEF ToSet
<1>15. RowsOf(order, search, attention, lines) \in Seq(A)
  BY <1>3, <1>6, <1>11
<1>16. ToSet(first) \cup ToSet(second) \subseteq ToSet(RowsOf(order, search, attention, lines))
  BY <1>3, <1>6, <1>9, <1>10, <1>11, <1>14
<1> QED
  BY <1>3, <1>4, <1>6, <1>7, <1>12, <1>13, <1>15, <1>16 DEF A

\* All rows of an account that has one are in the list.
LEMMA BlockIsThere ==
  ASSUME NEW A, NEW rows \in Seq(A), NEW lines \in {1, 2}, NEW item \in ToSet(rows),
         lines = 2 => EndsInBlock(rows)
  PROVE  IndexIn(rows, item) - 1 + lines <= Len(rows)
<1> DEFINE n == Len(rows)
           k == IndexIn(rows, item)
<1>1. n \in Nat /\ k \in 1..n /\ rows[k] = item /\ \A i \in 1..n : rows[i] = item => k <= i
  BY IndexIsThere
<1>2. lines = 2 => n >= 2 /\ rows[n] = rows[n - 1]
  BY DEF EndsInBlock
<1> HIDE DEF n, k
<1>3. ASSUME lines = 2 PROVE k # n
  <2>1. n - 1 \in 1..n
    BY <1>1, <1>2, <1>3
  <2>2. k = n => rows[n - 1] = item
    BY <1>1, <1>2, <1>3
  <2> QED
    BY <1>1, <2>1, <2>2
<1>4. k - 1 + lines <= n
  BY <1>1, <1>3
<1> QED
  BY <1>4 DEF n, k

\* Where a window of h rows over n comes to stand that has to show top to end.
LEMMA WindowMoves ==
  ASSUME NEW n \in Nat, NEW h \in Nat \ {0}, NEW o \in Nat, NEW top \in Nat, NEW lines \in {1, 2},
         top + lines <= n, NEW wanted, NEW offset,
         wanted = IF top < o THEN top ELSE IF top + lines > o + h THEN (top + lines) - h ELSE o,
         offset = LET least == IF wanted <= n - h THEN wanted ELSE n - h
                  IN IF 0 >= least THEN 0 ELSE least
  PROVE  Sees(offset, h, top, top + lines)
<1>1. CASE lines = 1
  BY <1>1 DEF Sees
<1>2. CASE lines = 2
  BY <1>2 DEF Sees
<1> QED
  BY <1>1, <1>2

\* Once the list has scrolled to it, the selected account is in sight.
LEMMA ScrollsIntoSight ==
  ASSUME NEW u, Shown(u) PROVE Shown(ScrollTo(u)) /\ InSight(ScrollTo(u))
<1> DEFINE rows == ListRows(u)
           top == IndexIn(rows, u.chosen) - 1
           end == top + u.lines
           sc == u.list
           moved == u.chosen # sc.follow
           h == u.height
           n == Len(rows)
           wanted == IF (moved \/ ~sc.loose) /\ top >= 0
                       THEN IF top < sc.offset THEN top
                            ELSE IF OutBelow(sc.offset, end, h) THEN end - h
                            ELSE sc.offset
                       ELSE sc.offset
           offset == Max({0, Min({wanted, n - h})})
           loose == sc.loose /\ ~moved
           list == [offset |-> offset, total |-> n, height |-> h, follow |-> u.chosen, loose |-> loose]
           emails == ListOf(u.order, u.search, u.attention)
<1>1. ScrollTo(u) =
        IF u.view # "dashboard" \/ rows = <<>> \/ h = 0 THEN u ELSE [u EXCEPT !.list = list]
  BY DEF ScrollTo
<1>2. rows = RowsOf(u.order, u.search, u.attention, u.lines)
  BY DEF ListRows, RowsOf, InOrder, ToLookAfter
<1>3. /\ rows \in Seq(Emails \cup {None}) /\ ToSet(emails) \subseteq ToSet(rows)
      /\ u.lines = 2 /\ rows # <<>> => EndsInBlock(rows)
  BY <1>2, RowsAre DEF Shown, Screen
<1>4. top \in (-1)..(n - 1) /\ (u.chosen \in ToSet(rows) => top >= 0) /\ n \in Nat
  <2>1. n \in Nat
    BY <1>3
  <2>2. IndexIn(rows, u.chosen) \in 0..n /\ (u.chosen \in ToSet(rows) => IndexIn(rows, u.chosen) # 0)
    BY <1>3, IndexIsThere
  <2> QED
    BY <2>1, <2>2
<1>5. h \in Nat /\ sc.offset \in Nat /\ u.lines \in {1, 2}
  BY DEF Shown, Screen
<1>6. wanted \in Int
  BY <1>4, <1>5 DEF OutBelow
<1>7. offset = LET least == IF wanted <= n - h THEN wanted ELSE n - h
               IN IF 0 >= least THEN 0 ELSE least
  <2> HIDE DEF wanted, n, h
  <2>1. n - h \in Int
    BY <1>4, <1>5
  <2>2. Min({wanted, n - h}) = IF wanted <= n - h THEN wanted ELSE n - h
    BY <1>6, <2>1, TwoNumbers
  <2> DEFINE least == Min({wanted, n - h})
  <2>3. least \in Int
    BY <1>6, <2>1, <2>2
  <2> HIDE DEF least
  <2>4. Max({0, least}) = IF 0 >= least THEN 0 ELSE least
    BY <2>3, TwoNumbers
  <2> QED
    BY <2>2, <2>4 DEF least
<1>8. offset \in Nat
  <2> HIDE DEF wanted, offset, n, h
  <2> QED
    BY <1>4, <1>5, <1>6, <1>7
<1>9. (moved \/ ~sc.loose) /\ u.chosen \in ToSet(rows) /\ h # 0 => Sees(offset, h, top, end)
  <2> DEFINE o == sc.offset
             lines == u.lines
  <2>1. ASSUME moved \/ ~sc.loose, top >= 0
        PROVE  wanted = IF top < o THEN top ELSE IF top + lines > o + h THEN (top + lines) - h ELSE o
    <3>1. end = top + lines
      OBVIOUS
    <3> HIDE DEF top, end, moved, h
    <3>2. wanted = IF top < o THEN top ELSE IF OutBelow(o, end, h) THEN end - h ELSE o
      BY <2>1, Zenon
    <3> HIDE DEF wanted, o, lines
    <3>3. OutBelow(o, end, h) <=> top + lines > o + h
      BY <3>1 DEF OutBelow
    <3>4. end - h = (top + lines) - h
      BY <3>1
    <3> QED
      BY <3>2, <3>3, <3>4, Zenon
  <2>2. ASSUME u.chosen \in ToSet(rows) PROVE top \in Nat /\ top + lines <= n
    <3>1. rows # <<>>
      BY <2>2 DEF ToSet
    <3>2. IndexIn(rows, u.chosen) - 1 + u.lines <= Len(rows)
      <4> HIDE DEF rows
      <4> QED
        BY <1>3, <1>5, <2>2, <3>1, BlockIsThere
    <3> QED
      BY <1>4, <2>2, <3>2
  <2>3. o \in Nat /\ lines \in {1, 2}
    BY <1>5
  <2> HIDE DEF wanted, offset, n, h, top, o, moved, lines, rows
  <2>4. ASSUME moved \/ ~sc.loose, u.chosen \in ToSet(rows), h # 0 PROVE Sees(offset, h, top, top + lines)
    <3>1. top \in Nat /\ top + lines <= n
      BY <2>2, <2>4
    <3>2. wanted = IF top < o THEN top ELSE IF top + lines > o + h THEN (top + lines) - h ELSE o
      BY <2>1, <2>4, <3>1
    <3> QED
      BY <1>4, <1>5, <1>7, <2>3, <2>4, <3>1, <3>2, WindowMoves
  <2> QED
    BY <2>4 DEF lines
<1>10. CASE u.view # "dashboard" \/ rows = <<>> \/ h = 0
  <2>1. rows = <<>> => u.chosen = None
    <3>1. rows = <<>> => ToSet(emails) = {}
      BY <1>3 DEF ToSet
    <3>2. emails # <<>> => u.chosen \in ToSet(emails)
      BY DEF Shown, IsSelected
    <3> QED
      BY <3>1, <3>2 DEF Shown, IsSelected
  <2>2. ~(u.view = "dashboard" /\ u.chosen # None /\ h > 0)
    BY <1>10, <2>1
  <2> QED
    BY <1>1, <1>10, <2>2 DEF InSight
<1>11. CASE u.view = "dashboard" /\ rows # <<>> /\ h # 0
  <2> HIDE DEF rows, top, end, moved, wanted, offset, n, emails
  <2>1. ASSUME NEW t, t = [u EXCEPT !.list = list]
        PROVE  /\ DOMAIN t = ScreenFields /\ t.list = list
               /\ \A f \in ScreenFields \ {"list"} : t[f] = u[f]
    <3> HIDE DEF list
    <3> QED
      BY <2>1 DEF Shown, Screen, ScreenFields
  <2>2. ASSUME NEW t, t = [u EXCEPT !.list = list] PROVE Shown(t) /\ InSight(t)
    <3>1. Shown(t)
      <4>1. /\ DOMAIN list = {"offset", "total", "height", "follow", "loose"}
            /\ list.offset \in Nat /\ list.total \in Nat /\ list.height \in Nat
        BY <1>4, <1>5, <1>8
      <4> HIDE DEF list
      <4> QED
        BY <2>1, <2>2, <4>1 DEF Shown, Screen, ScreenFields
    <3>2. /\ t.order = u.order /\ t.search = u.search /\ t.attention = u.attention
          /\ t.chosen = u.chosen /\ t.height = h /\ t.lines = u.lines
      BY <2>1, <2>2 DEF ScreenFields
    <3>3. t.list = list
      BY <2>1, <2>2
    <3>4. list.offset = offset /\ list.loose = loose /\ list.follow = u.chosen
      OBVIOUS
    <3>5. CASE u.chosen # None
      <4>1. u.chosen \in ToSet(rows)
        BY <1>3, <3>5 DEF Shown, IsSelected, emails
      <4>3. loose \/ Sees(offset, h, top, end)
        BY <1>9, <1>11, <4>1 DEF moved
      <4>4. /\ IndexIn(RowsOf(t.order, t.search, t.attention, t.lines), t.chosen) - 1 = top
            /\ top + t.lines = end
        BY <1>2, <3>2 DEF top, end
      <4> HIDE DEF list, loose, h
      <4> QED
        BY <3>1, <3>2, <3>3, <3>4, <4>3, <4>4 DEF InSight
    <3>6. CASE u.chosen = None
      BY <3>1, <3>2, <3>6 DEF InSight
    <3> QED
      BY <3>1, <3>5, <3>6
  <2> QED
    BY <1>1, <1>11, <2>2
<1> QED
  BY <1>10, <1>11

\* The wheel moves the list and not the selection.
LEMMA WheelScrolls ==
  ASSUME NEW u, Shown(u), NEW delta \in Int PROVE Shown(ScrollBy(u, delta))
<1> DEFINE offset == Max({0, Min({u.list.offset + delta, u.list.total - u.list.height})})
           list == [u.list EXCEPT !.offset = offset, !.loose = TRUE]
<1>1. ScrollBy(u, delta) = [u EXCEPT !.list = list]
  <2> HIDE DEF offset
  <2>1. ScrollBy(u, delta) = [u EXCEPT !.list.offset = offset, !.list.loose = TRUE]
    BY DEF ScrollBy, offset
  <2> QED
    BY <2>1 DEF Shown, Screen, ScreenFields
<1>2. offset \in Nat
  <2> DEFINE a == u.list.offset + delta
             b == u.list.total - u.list.height
             c == Min({a, b})
  <2>1. a \in Int /\ b \in Int
    BY DEF Shown, Screen
  <2> HIDE DEF a, b
  <2>2. c \in Int
    BY <2>1, TwoNumbers
  <2> HIDE DEF c
  <2>3. Max({0, c}) \in Nat
    BY <2>2, TwoNumbers
  <2> QED
    BY <2>3 DEF a, b, c
<1>3. /\ DOMAIN list = {"offset", "total", "height", "follow", "loose"}
      /\ list.offset \in Nat /\ list.total \in Nat /\ list.height \in Nat
  <2> HIDE DEF offset
  <2> QED
    BY <1>2 DEF Shown, Screen
<1> HIDE DEF list
<1>4. ASSUME NEW t, t = [u EXCEPT !.list = list] PROVE Shown(t)
  BY <1>3, <1>4 DEF Shown, Screen, ScreenFields
<1> QED
  BY <1>1, <1>4

\* A frame of any layout.
LEMMA FramesShow ==
  ASSUME NEW u, Shown(u), viewPlan \in ViewPlans, NEW layout \in viewPlan.layouts
  PROVE  Shown(Frame(u, layout)) /\ InSight(Frame(u, layout))
<1> DEFINE t == [u EXCEPT !.lines = layout.lines, !.height = layout.height]
<1>1. layout.lines \in {1, 2} /\ layout.height \in Nat
  BY ViewParameters
<1>2. /\ DOMAIN t = ScreenFields /\ t.lines = layout.lines /\ t.height = layout.height
      /\ \A f \in ScreenFields \ {"lines", "height"} : t[f] = u[f]
  BY DEF Shown, Screen, ScreenFields
<1> HIDE DEF t
<1>3. Shown(t)
  BY <1>1, <1>2 DEF Shown, Screen, ScreenFields
<1> QED
  BY <1>3, ScrollsIntoSight DEF Frame, t

LEMMA ShowsNext ==
  ASSUME NEW u, Shown(u), viewPlan \in ViewPlans, Shows(u) PROVE Shown(ui') /\ InSight(ui')
<1>1. PICK layout \in viewPlan.layouts : ui' = Frame(u, layout)
  BY DEF Shows
<1> QED
  BY <1>1, FramesShow

ViewsInv ==
  /\ viewPlan \in ViewPlans /\ savedEvents \in Nat
  /\ Shown(ui) /\ InSight(ui)

LEMMA FirstScreenIsShown == ASSUME viewPlan \in ViewPlans PROVE Shown(FirstScreen)
<1> DEFINE order == viewPlan.order
           emails == ListOf(order, 0, {})
<1>1. order \in Seq(Emails) /\ order # <<>>
  BY ViewParameters DEF Emails
<1>2. emails \in Seq(Emails) /\ ToSet(emails) = Emails
  <2>1. FoundBy(0, ToSet(order)) = Emails
    BY DEF FoundBy, Emails
  <2> QED
    BY <1>1, <2>1, ListOfIs
<1>3. Head(order) \in Emails
  BY <1>1
<1>4. IsSelected(Head(order), emails)
  <2>1. emails = <<>> => ToSet(emails) = {}
    BY DEF ToSet
  <2> QED
    BY <1>2, <1>3, <2>1 DEF IsSelected
<1>5. <<>> \in Seq(ToSet(viewPlan.everyName)) /\ IsIndex(0, Len(<<>>)) /\ IsIndex(0, 0)
  BY DEF IsIndex
<1>6. Screen(FirstScreen)
  BY <1>1, <1>5 DEF FirstScreen, Screen, ScreenFields, ClosedDialog
<1>7. FirstScreen.chosen = Head(order) /\ FirstScreen.order = order /\ FirstScreen.search = 0 /\ FirstScreen.attention = {}
  BY DEF FirstScreen
<1> QED
  BY <1>4, <1>6, <1>7 DEF Shown

LEMMA ViewsStart == ViewsInit => ViewsInv
<1> SUFFICES ASSUME ViewsInit PROVE ViewsInv
  OBVIOUS
<1>1. viewPlan \in ViewPlans /\ savedEvents \in Nat
  BY ViewParameters DEF ViewsInit
<1>2. Shown(ui) /\ InSight(ui)
  <2>1. PICK layout \in viewPlan.layouts : ui = Frame(FirstScreen, layout)
    BY DEF ViewsInit
  <2> QED
    BY <1>1, <2>1, FirstScreenIsShown, FramesShow
<1> QED
  BY <1>1, <1>2 DEF ViewsInv

LEMMA ViewsGoOn ==
  ASSUME ViewsInv, viewPlan' = viewPlan, savedEvents' \in Nat, Shown(ui') /\ InSight(ui')
  PROVE  ViewsInv'
BY DEF ViewsInv, Shown, Screen, InSight, RowsOf, Sees, ListOf, ItemsOf, FoundBy, Emails, IsIndex, IsSelected

LEMMA KeysAreHandled == ASSUME ViewsInv, HandleKey PROVE ViewsInv'
<1>1. viewPlan \in ViewPlans /\ savedEvents \in Nat /\ Shown(ui) /\ viewPlan' = viewPlan
  BY DEF ViewsInv, HandleKey, HandleBrowse, HandleSearch, HandlePalette, HandleForm, SubmitForm,
     HandleDialog
<1>2. CASE HandleBrowse
  <2>1. Shown(BrowseKey(ui, TheKey))
    BY <1>1, KeysOfBrowsing
  <2> QED
    BY <1>1, <1>2, <2>1, ShowsNext, ViewsGoOn DEF HandleBrowse
<1>3. CASE HandleSearch
  <2>1. Shown(SearchKey(ui, TheKey))
    BY <1>1, <1>3, KeysOfSearching DEF HandleSearch, KeyIn
  <2> QED
    BY <1>1, <1>3, <2>1, ShowsNext, ViewsGoOn DEF HandleSearch
<1>4. CASE HandlePalette
  <2>1. Shown(PaletteKey(ui, TheKey))
    BY <1>1, <1>4, KeysOfPalette DEF HandlePalette, KeyIn
  <2> QED
    BY <1>1, <1>4, <2>1, ShowsNext, ViewsGoOn DEF HandlePalette
<1>5. CASE HandleForm
  <2>1. Shown(FormKey(ui, TheKey))
    BY <1>1, <1>5, KeysOfForm DEF HandleForm, KeyIn
  <2> QED
    BY <1>1, <1>5, <2>1, ShowsNext, ViewsGoOn DEF HandleForm
<1>6. CASE SubmitForm
  <2> DEFINE closed == [ui EXCEPT !.mode = "browse", !.form = NoForm]
             again == BeginView(ui, ui.form.previous, savedNames', savedEvents)
  <2>1. Shown(again)
    BY <1>1, BeginsView
  <2>2. Shown(closed)
    <3>1. ASSUME NEW t, t = [ui EXCEPT !.mode = "browse", !.form = NoForm] PROVE Shown(t)
      BY <1>1, <3>1 DEF Shown, Screen, ScreenFields
    <3> QED
      BY <3>1
  <2>3. (Shows(closed) \/ Shows(again)) /\ savedEvents' = savedEvents
    BY <1>6 DEF SubmitForm
  <2> HIDE DEF closed, again
  <2>4. Shown(ui') /\ InSight(ui')
    BY <1>1, <2>1, <2>2, <2>3, ShowsNext
  <2> QED
    BY <1>1, <2>3, <2>4, ViewsGoOn
<1>7. CASE HandleDialog
  <2>1. Shown(DialogClosed(ui)) /\ Shown(MoveButton(ui, TheKey))
    BY <1>1, <1>7, MovesButton DEF HandleDialog, KeyIn
  <2>2. (Shows(DialogClosed(ui)) \/ Shows(MoveButton(ui, TheKey))) /\ savedEvents' = savedEvents
    BY <1>7 DEF HandleDialog
  <2>3. Shown(ui') /\ InSight(ui')
    BY <1>1, <2>1, <2>2, ShowsNext
  <2> QED
    BY <1>1, <2>2, <2>3, ViewsGoOn
<1> QED
  BY <1>2, <1>3, <1>4, <1>5, <1>6, <1>7 DEF HandleKey

LEMMA ConfirmsAreHandled == ASSUME ViewsInv, HandleConfirm PROVE ViewsInv'
<1> DEFINE closed == DialogClosed(ui)
<1>1. viewPlan \in ViewPlans /\ savedEvents \in Nat /\ Shown(ui) /\ viewPlan' = viewPlan
  BY DEF ViewsInv, HandleConfirm, ConfirmFails, RemoveShownProfile, ClearEvents, ResetToDefaults,
     DeleteShownAccount
<1>2. Shown(closed)
  <2>1. ui.mode = "dialog"
    BY DEF HandleConfirm, ConfirmFails, RemoveShownProfile, ClearEvents, ResetToDefaults,
       DeleteShownAccount, Confirm, KeyIn
  <2> QED
    BY <1>1, <2>1, MovesButton
<1>3. CASE ConfirmFails
  BY <1>1, <1>2, <1>3, ShowsNext, ViewsGoOn DEF ConfirmFails
<1>4. CASE RemoveShownProfile
  <2>1. Shown(BeginView(closed, "profiles", savedNames', savedEvents))
    BY <1>1, <1>2, BeginsView
  <2> QED
    BY <1>1, <1>4, <2>1, ShowsNext, ViewsGoOn DEF RemoveShownProfile
<1>5. CASE ClearEvents
  <2> DEFINE t == [closed EXCEPT !.events = 0, !.eventIndex = 0]
  <2>1. Shown(t)
    <3> HIDE DEF closed
    <3>1. ASSUME NEW v, v = [closed EXCEPT !.events = 0, !.eventIndex = 0] PROVE Shown(v)
      BY <1>2, <3>1 DEF Shown, Screen, ScreenFields, IsIndex
    <3> QED
      BY <3>1
  <2>2. Shows(t) /\ savedEvents' = 0
    BY <1>5 DEF ClearEvents
  <2> HIDE DEF t
  <2> QED
    BY <1>1, <2>1, <2>2, ShowsNext, ViewsGoOn
<1>6. CASE ResetToDefaults
  <2>1. Shown(BeginView(closed, "settings", {}, savedEvents))
    BY <1>1, <1>2, BeginsView
  <2> QED
    BY <1>1, <1>6, <2>1, ShowsNext, ViewsGoOn DEF ResetToDefaults
<1>7. CASE DeleteShownAccount
  <2> DEFINE left == Kept(closed.order, ToSet(closed.order) \ {ui.dialog.subject})
             t == [closed EXCEPT !.order = left]
  <2>1. left \in Seq(Emails)
    BY <1>2, KeptIs DEF Shown, Screen
  <2>2. Screen(t)
    <3> HIDE DEF closed, left
    <3>1. ASSUME NEW v, v = [closed EXCEPT !.order = left] PROVE Screen(v)
      BY <1>2, <2>1, <3>1 DEF Shown, Screen, ScreenFields
    <3> QED
      BY <3>1
  <2>3. Shows(ClampSelection(t)) /\ savedEvents' = savedEvents
    BY <1>7 DEF DeleteShownAccount
  <2> HIDE DEF t
  <2>4. Shown(ClampSelection(t))
    BY <2>2, Clamps
  <2> QED
    BY <1>1, <2>3, <2>4, ShowsNext, ViewsGoOn
<1> QED
  BY <1>3, <1>4, <1>5, <1>6, <1>7 DEF HandleConfirm

\* What points at a button or a row leaves the list where it is.
LEMMA PointingIsSeen ==
  ASSUME ViewsInv,
         NEW t, DOMAIN t = ScreenFields,
         \A f \in ScreenFields \ {"dialog", "item", "drawn"} : t[f] = ui[f],
         DOMAIN t.dialog = {"kind", "subject", "index"},
         ui.mode = "dialog" => t.dialog.index \in 0..(IF t.dialog.kind = "help" THEN 0 ELSE 1),
         ui.mode = "palette" => IsIndex(t.item, Len(ItemsOf(ui.query)))
  PROVE  Shown(t) /\ InSight(t)
BY DEF ViewsInv, Shown, Screen, InSight, ScreenFields

LEMMA PointsAtOne ==
  ASSUME ViewsInv, NEW at, PointedAt(ui, at) # Beside, ui.mode \in {"dialog", "palette"}
  PROVE  LET t == Points(ui, PointedAt(ui, at)) IN Shown(t) /\ InSight(t)
<1> DEFINE i == PointedAt(ui, at)
           n == IF ui.mode = "dialog" THEN Len(Buttons(ui.dialog)) ELSE Len(Items(ui))
           t == Points(ui, i)
<1>1. i \in 0..(n - 1)
  BY DEF PointedAt
<1>2. Shown(ui) /\ viewPlan \in ViewPlans /\ DOMAIN ui = ScreenFields
  BY DEF ViewsInv, Shown, Screen
<1>3. CASE ui.mode = "dialog"
  <2>1. n = IF ui.dialog.kind = "help" THEN 1 ELSE 2
    BY <1>3 DEF Buttons
  <2>2. t = [ui EXCEPT !.dialog.index = i]
    BY <1>3 DEF Points
  <2> HIDE DEF t, i, n
  <2>3. /\ DOMAIN t = ScreenFields /\ \A f \in ScreenFields \ {"dialog"} : t[f] = ui[f]
        /\ t.dialog.index = i /\ t.dialog.kind = ui.dialog.kind
        /\ DOMAIN t.dialog = {"kind", "subject", "index"}
    BY <1>2, <2>2 DEF Shown, Screen, ScreenFields
  <2>4. i \in 0..(IF t.dialog.kind = "help" THEN 0 ELSE 1)
    BY <1>1, <2>1, <2>3
  <2>5. Shown(t) /\ InSight(t)
    BY <1>3, <2>3, <2>4, PointingIsSeen DEF ScreenFields
  <2> QED
    BY <2>5 DEF t, i
<1>4. CASE ui.mode = "palette"
  <2>1. n = Len(ItemsOf(ui.query)) /\ n \in Nat
    <3>1. ItemsOf(ui.query) \in Seq(ToSet(viewPlan.palette))
      BY <1>2, ItemsAreListed
    <3> QED
      BY <1>4, <3>1, ListsOfScreen
  <2>2. t = [ui EXCEPT !.item = i]
    BY <1>4 DEF Points
  <2> HIDE DEF t, i, n
  <2>3. /\ DOMAIN t = ScreenFields /\ \A f \in ScreenFields \ {"item"} : t[f] = ui[f]
        /\ t.item = i
    BY <1>2, <2>2 DEF ScreenFields
  <2>4. IsIndex(i, n) /\ t.dialog = ui.dialog /\ DOMAIN ui.dialog = {"kind", "subject", "index"}
    BY <1>1, <1>2, <2>1, <2>3 DEF IsIndex, Shown, Screen, ScreenFields
  <2>5. Shown(t) /\ InSight(t)
    BY <1>4, <2>1, <2>3, <2>4, PointingIsSeen DEF ScreenFields
  <2> QED
    BY <2>5 DEF t, i
<1> QED
  BY <1>3, <1>4

LEMMA PointerIsHandled == ASSUME ViewsInv, HandlePointer \/ DrawModal PROVE ViewsInv'
<1>1. /\ viewPlan \in ViewPlans /\ savedEvents' \in Nat /\ Shown(ui) /\ InSight(ui)
      /\ viewPlan' = viewPlan
  BY DEF ViewsInv, HandlePointer, HandleWheel, HandleClick, HandleHover, DrawModal
<1>2. CASE HandleWheel
  <2> DEFINE delta == IF TheKey = "wheel-up" THEN -1 ELSE 1
             scrolled == ScrollBy(ui, 3 * delta)
             chosen == MovePalette(ui, delta)
             moved == MoveInView(ui, delta)
  <2>1. delta \in Int /\ 3 * delta \in Int
    OBVIOUS
  <2>2. \/ Shows(scrolled) \/ Shows(ui) \/ (ui.mode = "palette" /\ Shows(chosen)) \/ Shows(moved)
    BY <1>2, Zenon DEF HandleWheel
  <2> HIDE DEF delta
  <2>3. Shown(scrolled) /\ Shown(moved) /\ (ui.mode = "palette" => Shown(chosen))
    BY <1>1, <2>1, WheelScrolls, MovesInView, MovesPalette
  <2> HIDE DEF scrolled, chosen, moved
  <2>4. Shown(ui') /\ InSight(ui')
    BY <1>1, <2>2, <2>3, ShowsNext
  <2> QED
    BY <1>1, <2>4, ViewsGoOn
<1>3. ASSUME NEW at, Modal(ui), PointedAt(ui, at) # Beside, ui' = Points(ui, PointedAt(ui, at))
      PROVE  ViewsInv'
  <2>1. Shown(ui') /\ InSight(ui')
    BY <1>3, PointsAtOne DEF Modal
  <2> QED
    BY <1>1, <2>1, ViewsGoOn
<1>4. CASE ui' = ui
  BY <1>1, <1>4, ViewsGoOn
<1>5. CASE HandleClick
  <2> DEFINE at == PointedAt(ui, Head(queue).at)
  <2>1. ui' = ui \/ (Modal(ui) /\ at # Beside /\ ui' = Points(ui, at))
    BY <1>5, Zenon DEF HandleClick
  <2> QED
    BY <1>3, <1>4, <2>1
<1>6. CASE HandleHover
  <2> DEFINE at == PointedAt(ui, Head(queue).at)
  <2>1. ui' = ui \/ (Modal(ui) /\ at # Beside /\ ui' = Points(ui, at))
    BY <1>6, Zenon DEF HandleHover
  <2> QED
    BY <1>3, <1>4, <2>1
<1>7. CASE DrawModal
  <2>1. ui' = [ui EXCEPT !.drawn = TRUE] /\ DOMAIN ui = ScreenFields
    BY <1>1, <1>7 DEF DrawModal, Shown, Screen
  <2>2. DOMAIN ui' = ScreenFields /\ \A f \in ScreenFields \ {"drawn"} : ui'[f] = ui[f]
    BY <2>1 DEF ScreenFields
  <2>3. ui'.dialog = ui.dialog /\ ui'.item = ui.item
    BY <2>2 DEF ScreenFields
  <2>4. /\ DOMAIN ui.dialog = {"kind", "subject", "index"}
        /\ ui.mode = "dialog" => ui.dialog.index \in 0..(IF ui.dialog.kind = "help" THEN 0 ELSE 1)
        /\ ui.mode = "palette" => IsIndex(ui.item, Len(ItemsOf(ui.query)))
    BY <1>1 DEF Shown, Screen
  <2>5. Shown(ui') /\ InSight(ui')
    BY <2>2, <2>3, <2>4, PointingIsSeen
  <2> QED
    BY <1>1, <2>5, ViewsGoOn
<1> QED
  BY <1>2, <1>5, <1>6, <1>7 DEF HandlePointer

LEMMA OthersChange == ASSUME ViewsInv, TakeAccounts \/ OthersSave \/ Redraw PROVE ViewsInv'
<1>1. viewPlan \in ViewPlans /\ savedEvents \in Nat /\ Shown(ui) /\ InSight(ui) /\ viewPlan' = viewPlan
  BY DEF ViewsInv, TakeAccounts, OthersSave, Redraw
<1>2. CASE TakeAccounts
  <2>1. PICK e \in ToSet(viewPlan.order) :
          LET gone == [ui EXCEPT !.order = Kept(viewPlan.order, ToSet(ui.order) \ {e})]
              back == [ui EXCEPT !.order = Kept(viewPlan.order, ToSet(ui.order) \cup {e})]
              marked == [ui EXCEPT !.attention = @ \cup {e}]
          IN \E u \in {gone, back, marked} : Shows(ClampSelection(u))
    BY <1>2 DEF TakeAccounts
  <2> DEFINE fewer == Kept(viewPlan.order, ToSet(ui.order) \ {e})
             more == Kept(viewPlan.order, ToSet(ui.order) \cup {e})
             attention == ui.attention \cup {e}
  <2>2. viewPlan.order \in Seq(Emails)
    BY <1>1, ViewParameters DEF Emails
  <2>3. fewer \in Seq(Emails) /\ more \in Seq(Emails)
    BY <2>2, KeptIs
  <2>4. ASSUME NEW order \in Seq(Emails), NEW t, t = [ui EXCEPT !.order = order] PROVE Screen(t)
    BY <1>1, <2>4 DEF Shown, Screen, ScreenFields
  <2>5. ASSUME NEW t, t = [ui EXCEPT !.attention = attention] PROVE Screen(t)
    <3> HIDE DEF attention
    <3> QED
      BY <1>1, <2>5 DEF Shown, Screen, ScreenFields
  <2>6. PICK u \in {[ui EXCEPT !.order = fewer], [ui EXCEPT !.order = more],
                    [ui EXCEPT !.attention = attention]} : Shows(ClampSelection(u))
    BY <2>1
  <2> HIDE DEF fewer, more, attention
  <2>7. Screen(u)
    BY <2>3, <2>4, <2>5, <2>6
  <2>8. Shown(ui') /\ InSight(ui')
    BY <1>1, <2>6, <2>7, Clamps, ShowsNext
  <2> QED
    BY <1>1, <1>2, <2>8, ViewsGoOn DEF TakeAccounts
<1>3. CASE OthersSave
  <2>1. ui' = ui /\ savedEvents' \in Nat
    BY <1>1, <1>3 DEF OthersSave
  <2> QED
    BY <1>1, <2>1, ViewsGoOn
<1>4. CASE Redraw
  <2>1. Shown(ui') /\ InSight(ui')
    BY <1>1, <1>4, ShowsNext DEF Redraw
  <2> QED
    BY <1>1, <1>4, <2>1, ViewsGoOn DEF Redraw
<1> QED
  BY <1>2, <1>3, <1>4

LEMMA ViewsStay == ViewsInv /\ [ViewsNext]_viewVars => ViewsInv'
<1> SUFFICES ASSUME ViewsInv, [ViewsNext]_viewVars PROVE ViewsInv'
  OBVIOUS
<1>1. CASE TypeEvent
  BY <1>1, ViewsGoOn DEF TypeEvent, ViewsInv
<1>2. CASE HandleEvent \/ DrawModal
  BY <1>2, KeysAreHandled, ConfirmsAreHandled, PointerIsHandled DEF HandleEvent
<1>3. CASE UNCHANGED viewVars
  BY <1>3, ViewsGoOn DEF viewVars, ViewsInv
<1> QED
  BY <1>1, <1>2, <1>3, OthersChange DEF ViewsNext

LEMMA ViewsAlways == ViewsSpec => []ViewsInv
BY ViewsStart, ViewsStay, PTL DEF ViewsSpec

\* Whatever keys, clicks and turns of the wheel come, and whatever other programs
\* save meanwhile, what is chosen on the screen is there: the account among those
\* the search finds, the profile and the event in their lists, the button on its
\* dialog (clampSelection, tui_model.go:245).
THEOREM ChoicesAreShown == ViewsSpec => []ChosenIsShown
<1>1. ViewsInv => ChosenIsShown
  <2> SUFFICES ASSUME ViewsInv PROVE ChosenIsShown
    OBVIOUS
  <2> DEFINE emails == ListOf(ui.order, ui.search, ui.attention)
  <2>1. Screen(ui) /\ IsSelected(ui.chosen, emails) /\ viewPlan \in ViewPlans
    BY DEF ViewsInv, Shown
  <2>2. VisibleEmails(ui) = emails /\ Items(ui) = ItemsOf(ui.query)
    BY ListsOfScreen
  <2>3. ui.chosen \in ToSet(emails) => ClampSelection(ui) = ui
    BY <2>1, Clamps
  <2> HIDE DEF emails
  <2>4. ui.chosen = (IF VisibleEmails(ui) = <<>> THEN None ELSE ClampSelection(ui).chosen)
    BY <2>1, <2>2, <2>3 DEF IsSelected
  <2>5. /\ ui.nameIndex = 0 \/ ui.nameIndex < Len(ui.names)
        /\ ui.eventIndex = 0 \/ ui.eventIndex < ui.events
        /\ ui.mode = "palette" => ui.item = 0 \/ ui.item < Len(Items(ui))
    BY <2>1, <2>2 DEF Screen, IsIndex
  <2>6. ui.mode = "dialog" => ui.dialog.index < Len(Buttons(ui.dialog))
    BY <2>1 DEF Screen, Buttons
  <2> QED
    BY <2>4, <2>5, <2>6 DEF ChosenIsShown
<1> QED
  BY <1>1, ViewsAlways, PTL

\* The rows of the selected account are drawn, or nothing but rows of it where the
\* list has fewer, in a list of any length, in one row or two for an account, in a
\* window of any height with a row for the list, and whichever of these changes from
\* one frame to the next, until the user scrolls it away (scrollTo, tui_scroll.go:37).
THEOREM SelectionStaysInSight == ViewsSpec => []SelectionInSight
<1>1. ViewsInv => SelectionInSight
  <2> SUFFICES ASSUME ViewsInv PROVE SelectionInSight
    OBVIOUS
  <2>1. ListRows(ui) = RowsOf(ui.order, ui.search, ui.attention, ui.lines)
    BY DEF ListRows, RowsOf, InOrder, ToLookAfter
  <2>2. InSight(ui) /\ Screen(ui)
    BY DEF ViewsInv, Shown
  <2> DEFINE rows == RowsOf(ui.order, ui.search, ui.attention, ui.lines)
             top == IndexIn(rows, ui.chosen) - 1
  <2>3. ui.lines \in {1, 2} /\ ui.height \in Nat /\ ui.list.offset \in Nat
    BY <2>2 DEF Screen
  <2>4. top \in Int
    <3>1. rows \in Seq(Emails \cup {None})
      BY <2>2, RowsAre DEF Screen
    <3>2. IndexIn(rows, ui.chosen) \in 0..Len(rows) /\ Len(rows) \in Nat
      <4> HIDE DEF rows
      <4> QED
        BY <3>1, IndexIsThere
    <3> QED
      BY <3>2
  <2>5. ui.view = "dashboard" /\ ui.chosen # None /\ ui.height > 0 =>
          \/ Sees(ui.list.offset, ui.height, top, top + ui.lines)
          \/ ui.list.loose /\ ui.list.follow = ui.chosen
    BY <2>2 DEF InSight
  <2>6. IndexIn(ListRows(ui), ui.chosen) - 1 = top
    BY <2>1
  <2> HIDE DEF top
  <2>7. Sees(ui.list.offset, ui.height, top, top + ui.lines) =>
          \/ ui.list.offset <= top /\ top + ui.lines <= ui.list.offset + ui.height
          \/ ui.height < ui.lines /\ top <= ui.list.offset /\ ui.list.offset + ui.height <= top + ui.lines
    BY <2>3, <2>4 DEF Sees
  <2> QED
    BY <2>5, <2>6, <2>7 DEF SelectionInSight
<1> QED
  BY <1>1, ViewsAlways, PTL

\* A search that is given up leaves the filter it began with, and selects what was
\* selected then unless that account is gone (cancelSearch, tui_model.go:366).
THEOREM SearchesAreUndone == ViewsSpec => SearchRestores
<1>1. ASSUME ViewsInv, ui.mode = "search", HandleSearch, Head(queue).key = "esc"
      PROVE  /\ ui'.search = ui.origin.search
             /\ ui.origin.chosen \in ToSet(VisibleEmails(ui')) => ui'.chosen = ui.origin.chosen
  <2> DEFINE u == RestoredSearch(ui)
             emails == ListOf(ui.order, ui.origin.search, ui.attention)
  <2>1. Shown(ui) /\ viewPlan \in ViewPlans
    BY <1>1 DEF ViewsInv
  <2>2. /\ Shown(u) /\ u.search = ui.origin.search /\ u.order = ui.order /\ u.attention = ui.attention
        /\ ui.before # None /\ ui.before \in ToSet(emails) => u.chosen = ui.before
    BY <1>1, <2>1, RestoresSearch
  <2>3. PICK layout \in viewPlan.layouts : ui' = Frame(u, layout)
    BY <1>1 DEF HandleSearch, SearchKey, Shows, TheKey
  <2> HIDE DEF u
  <2>4. /\ ui'.search = u.search /\ ui'.order = u.order /\ ui'.attention = u.attention
        /\ ui'.chosen = u.chosen
    <3> DEFINE laid == [u EXCEPT !.lines = layout.lines, !.height = layout.height]
               kept == {"search", "order", "attention", "chosen"}
    <3>1. DOMAIN laid = ScreenFields /\ \A f \in kept : laid[f] = u[f]
      BY <2>2 DEF Shown, Screen, ScreenFields
    <3>2. ui' = laid \/ \E list : ui' = [laid EXCEPT !.list = list]
      <4> HIDE DEF laid
      <4>1. ui' = ScrollTo(laid)
        BY <2>3 DEF Frame, laid
      <4> QED
        BY <4>1, Zenon DEF ScrollTo
    <3> HIDE DEF laid
    <3>3. ASSUME NEW list, NEW t, t = [laid EXCEPT !.list = list]
          PROVE  \A f \in kept : t[f] = laid[f]
      BY <3>1, <3>3 DEF ScreenFields
    <3>4. \A f \in kept : ui'[f] = u[f]
      BY <3>1, <3>2, <3>3
    <3> QED
      BY <3>4
  <2>5. VisibleEmails(ui') = emails
    BY <2>2, <2>4 DEF VisibleEmails, InOrder, ToLookAfter, ListOf
  <2>6. ui.before = ui.origin.chosen
    BY <1>1, <2>1 DEF Shown, Screen
  <2>7. None \notin ToSet(emails)
    <3>1. ToSet(emails) = FoundBy(ui.origin.search, ToSet(ui.order)) /\ ui.order \in Seq(Emails)
      BY <2>1, ListOfIs DEF Shown, Screen
    <3>2. ToSet(emails) \subseteq ToSet(ui.order)
      BY <3>1 DEF FoundBy
    <3>3. ToSet(ui.order) \subseteq Emails
      BY <3>1 DEF ToSet
    <3>4. None \notin Emails
      BY <2>1, ViewParameters DEF Emails, None
    <3> QED
      BY <3>2, <3>3, <3>4
  <2> QED
    BY <2>2, <2>4, <2>5, <2>6, <2>7
<1>2. ViewsInv /\ [ViewsNext]_viewVars =>
        [ui.mode = "search" /\ HandleSearch /\ Head(queue).key = "esc" =>
           /\ ui'.search = ui.origin.search
           /\ ui.origin.chosen \in ToSet(VisibleEmails(ui')) => ui'.chosen = ui.origin.chosen]_viewVars
  BY <1>1
<1> QED
  BY <1>2, ViewsAlways, PTL DEF ViewsSpec, SearchRestores
=============================================================================
