------------------------------ MODULE SessionProofs ------------------------------
(***************************************************************************)
(* The active session: what a command may rely on while it holds the       *)
(* session lock, which Antigravity does not know of.                       *)
(***************************************************************************)
EXTENDS Session, LeastNumber, TLAPS

\* A reconciliation at work; a command with the token it will write; one that
\* holds the session lock.
Syncing == {"harvest", "compare", "syncWrite", "syncRestore", "syncMirror"}
Writing == {"compare", "syncWrite", "syncRestore", "syncMirror",
            "chosen", "secure", "write", "mirror"}
Holding == Syncing \cup Clearing \cup
  {"secure", "write", "restore", "restoreSecure", "mirror", "prompt", "wait"}

Sessions == [surface: [Files -> Token \cup {None}], active: Owners \cup {None},
             keyring: Token \cup {None}]

\* Every variable has its type, and a command that is to write a token has one.
TypeOK ==
  /\ platform \in Platforms
  /\ surface \in [Files -> Token \cup {None}]
  /\ active \in Owners \cup {None}
  /\ keyring \in Token \cup {None}
  /\ saved \in SUBSET Owners
  /\ vault \in [Owners -> Nat] /\ latest \in [Owners -> Nat]
  /\ lock \in Commands \cup {None}
  /\ kind \in [Commands -> Kinds]
  /\ pc \in [Commands -> Labels]
  /\ token \in [Commands -> Token \cup {None}]
  /\ seen \in [Commands -> Sessions]
  /\ todo \in [Commands -> SUBSET AllFiles]
  /\ outside \in Nat /\ mishaps \in Nat /\ unsaved \in SUBSET Owners
  /\ alone \in BOOLEAN
  /\ \A c \in Commands : pc[c] \in Writing => token[c] # None

\* No token anywhere is newer than the last one Google issued for its account.
Known(t) == t = None \/ t.age <= latest[t.owner]
Issued ==
  /\ \A o \in Owners : vault[o] <= latest[o]
  /\ \A f \in Files : Known(surface[f])
  /\ Known(keyring)
  /\ \A c \in Commands :
       /\ Known(token[c]) /\ Known(seen[c].keyring)
       /\ \A f \in Files : Known(seen[c].surface[f])

\* One command at a time is between taking the session lock and letting go of it.
Locked == \A c \in Commands : pc[c] \in Holding => lock = c

\* What a command has written since it took the lock is there while it is alone.
KeptBy(c) ==
  /\ pc[c] = "secure" => todo[c] = AllFiles
  /\ pc[c] \in {"syncWrite", "write"} /\ alone =>
       /\ AccountsFile \notin todo[c] => active = token[c].owner
       /\ \A f \in Files \ todo[c] : surface[f] = token[c]
Kept == \A c \in Commands : KeptBy(c)

\* So is what it has put back.
PutBackBy(c) ==
  /\ pc[c] = "restoreSecure" => todo[c] = {}
  /\ pc[c] \in {"restore", "restoreSecure"} /\ alone =>
       /\ AccountsFile \notin todo[c] => active = seen[c].active
       /\ \A f \in Files \ todo[c] : surface[f] = seen[c].surface[f]
PutBack == \A c \in Commands : PutBackBy(c)

\* A reconciliation chooses the active account where one is named, and writes
\* the file that names it last.  It does nothing else with the session.
ChosenBy(c) ==
  /\ pc[c] \in (Holding \ Syncing) \cup {"chosen"} => kind[c] # "reconcile"
  /\ pc[c] \in {"compare", "syncWrite", "syncRestore"} => active \in {None, token[c].owner}
  /\ pc[c] = "syncWrite" => todo[c] = {} \/ AccountsFile \in todo[c]
  /\ pc[c] = "syncWrite" /\ AccountsFile \in todo[c] => active = seen[c].active
  /\ pc[c] = "syncRestore" => active = seen[c].active
Chosen == \A c \in Commands : ChosenBy(c)

\* What a reconciliation may overwrite while it is alone is in the vault, or is
\* what it writes, or older than one of these, or could not be saved.
IsKept(t, new) ==
  \/ t = None
  \/ /\ t.owner \in saved
     /\ \/ t.age <= vault[t.owner]
        \/ t.owner = new.owner /\ t.age <= new.age
        \/ t.owner \in unsaved \ {new.owner}
GatheredBy(c) ==
  /\ pc[c] = "harvest" /\ alone => seen[c].surface = surface
  /\ pc[c] \in {"compare", "syncWrite"} => token[c].owner \in saved
  /\ pc[c] \in {"compare", "syncWrite"} /\ alone => \A f \in Files : IsKept(surface[f], token[c])
Gathered == \A c \in Commands : GatheredBy(c)

SessionInv == TypeOK /\ Issued /\ Locked /\ Kept /\ PutBack /\ Chosen /\ Gathered

-----------------------------------------------------------------------------
(* The operators of the model *)

\* A set of numbers has its least in it, and its greatest where it is bounded.
LEMMA MinIsThere == ASSUME NEW S, S \subseteq Nat, S # {} PROVE Min(S) \in S
BY LeastNatural DEF Min

LEMMA MaxIsThere ==
  ASSUME NEW S, S \subseteq Nat, S # {}, NEW bound \in Nat, \A n \in S : n <= bound
  PROVE  Max(S) \in S /\ \A n \in S : n <= Max(S)
<1> DEFINE Bounds == {b \in Nat : \A n \in S : n <= b}
<1>1. Bounds \subseteq Nat /\ Bounds # {}
  OBVIOUS
<1>2. PICK least \in Bounds : \A b \in Bounds : least <= b
  <2> HIDE DEF Bounds
  <2> QED
    BY <1>1, LeastNatural
<1>3. least \in Nat /\ \A n \in S : n <= least
  OBVIOUS
<1>4. least \in S
  <2>1. SUFFICES ASSUME least \notin S PROVE FALSE
    OBVIOUS
  <2>2. \A n \in S : n < least
    BY <1>3, <2>1
  <2>3. least # 0
    <3>1. PICK n \in S : TRUE
      OBVIOUS
    <3> QED
      BY <2>2, <3>1
  <2>4. least - 1 \in Bounds
    BY <1>3, <2>2, <2>3
  <2> QED
    BY <1>2, <1>3, <2>4
<1>5. \E x \in S : \A y \in S : x >= y
  BY <1>3, <1>4
<1> QED
  BY <1>5 DEF Max

LEMMA NextFileIsLeft ==
  ASSUME TypeOK, NEW c \in Commands, todo[c] # {}
  PROVE  /\ NextFile(c) \in todo[c]
         /\ NextFile(c) = AccountsFile => todo[c] = {AccountsFile}
<1>1. todo[c] \subseteq AllFiles /\ Surfaces \in Nat
  BY Parameters DEF TypeOK
<1>2. CASE todo[c] = {AccountsFile}
  BY <1>2 DEF NextFile
<1>3. CASE todo[c] # {AccountsFile}
  <2> DEFINE Rest == todo[c] \ {AccountsFile}
  <2>1. Rest \subseteq Nat /\ Rest # {}
    BY <1>1, <1>3 DEF AllFiles, AccountsFile, Files
  <2>2. Min(Rest) \in Rest
    <3> HIDE DEF Rest
    <3> QED
      BY <2>1, MinIsThere
  <2> QED
    BY <1>3, <2>2 DEF NextFile
<1> QED
  BY <1>2, <1>3

\* The token that is found has been issued.
LEMMA CurrentTokenIsKnown ==
  ASSUME TypeOK, Issued PROVE CurrentToken \in Token \cup {None} /\ Known(CurrentToken)
<1> USE Parameters
<1> DEFINE Signed == {f \in Files : surface[f] # None}
<1>1. CASE Signed = {}
  BY <1>1 DEF CurrentToken, TypeOK, Issued, Known
<1>2. CASE Signed # {}
  <2> DEFINE first == Min(Signed)
             owner == surface[first].owner
             of == {g \in Files : surface[g] # None /\ surface[g].owner = owner}
             ages == {surface[f].age : f \in of}
  <2>1. Signed \subseteq Nat
    BY DEF Files
  <2>2. first \in Signed
    <3> HIDE DEF Signed
    <3> QED
      BY <1>2, <2>1, MinIsThere
  <2>3. surface[first] \in Token /\ owner \in Owners /\ first \in of
    BY <2>2 DEF TypeOK, Token
  <2>4. \A f \in of : surface[f] \in Token /\ surface[f].age \in Nat /\ surface[f].age <= latest[owner]
    BY DEF TypeOK, Token, Issued, Known
  <2>5. ages \subseteq Nat /\ ages # {} /\ latest[owner] \in Nat /\ \A n \in ages : n <= latest[owner]
    <3>1. surface[first].age \in ages
      BY <2>3
    <3>2. latest[owner] \in Nat
      BY <2>3 DEF TypeOK
    <3> QED
      BY <2>4, <3>1, <3>2
  <2>6. Max(ages) \in ages
    <3> HIDE DEF ages
    <3> QED
      BY <2>5, MaxIsThere
  <2>7. Max(ages) \in Nat /\ Max(ages) <= latest[owner]
    <3> HIDE DEF ages
    <3> QED
      BY <2>5, <2>6
  <2>8. CurrentToken = [owner |-> owner, age |-> Max(ages)]
    BY <1>2 DEF CurrentToken
  <2> HIDE DEF owner, ages
  <2> QED
    BY <2>3, <2>7, <2>8 DEF Token, Known
<1> QED
  BY <1>1, <1>2

\* What is harvested has been issued, and has every token of a saved account.
LEMMA HarvestIsKnown ==
  ASSUME TypeOK, Issued, NEW files \in [Files -> Token \cup {None}],
         \A f \in Files : Known(files[f])
  PROVE  /\ Harvested(files) \in [Owners -> Nat]
         /\ \A o \in Owners : vault[o] <= Harvested(files)[o] /\ Harvested(files)[o] <= latest[o]
         /\ \A f \in Files : files[f] # None /\ files[f].owner \in saved =>
              files[f].age <= Harvested(files)[files[f].owner]
<1> USE Parameters
<1>1. ASSUME NEW o \in Owners
      PROVE  /\ Newest(o, files) \in Nat
             /\ vault[o] <= Newest(o, files) /\ Newest(o, files) <= latest[o]
             /\ \A f \in Files : files[f] # None /\ files[f].owner = o =>
                  files[f].age <= Newest(o, files)
  <2> DEFINE of == {g \in Files : files[g] # None /\ files[g].owner = o}
             ages == {vault[o]} \cup {files[f].age : f \in of}
  <2>1. vault[o] \in Nat /\ latest[o] \in Nat /\ vault[o] <= latest[o]
    BY DEF TypeOK, Issued
  <2>2. \A f \in of : files[f] \in Token /\ files[f].age \in Nat /\ files[f].age <= latest[o]
    BY DEF Token, Known
  <2>3. ages \subseteq Nat /\ vault[o] \in ages /\ \A n \in ages : n <= latest[o]
    BY <2>1, <2>2
  <2>4. \A f \in of : files[f].age \in ages
    OBVIOUS
  <2>5. Max(ages) \in ages /\ \A n \in ages : n <= Max(ages)
    <3> HIDE DEF ages
    <3> QED
      BY <2>1, <2>3, MaxIsThere
  <2>6. Newest(o, files) = Max(ages)
    BY DEF Newest
  <2>7. \A f \in Files : files[f] # None /\ files[f].owner = o => files[f].age \in ages
    BY <2>4
  <2> HIDE DEF ages
  <2> QED
    BY <2>1, <2>3, <2>5, <2>6, <2>7
<1>2. \A o \in Owners : Harvested(files)[o] = IF o \in saved THEN Newest(o, files) ELSE vault[o]
  BY DEF Harvested
<1>3. \A o \in Owners : vault[o] \in Nat /\ latest[o] \in Nat /\ vault[o] <= latest[o]
  BY DEF TypeOK, Issued
<1>4. \A o \in Owners : Harvested(files)[o] \in Nat
  BY <1>1, <1>2, <1>3
<1>5. Harvested(files) \in [Owners -> Nat]
  BY <1>2, <1>4 DEF Harvested
<1>6. saved \subseteq Owners
  BY DEF TypeOK
<1> QED
  BY <1>1, <1>2, <1>3, <1>5, <1>6

LEMMA FilesAreTyped ==
  ASSUME TypeOK, NEW f \in AllFiles, NEW t \in Token \cup {None}, NEW o \in Owners \cup {None},
         PutFile(f, t, o)
  PROVE  surface' \in [Files -> Token \cup {None}] /\ active' \in Owners \cup {None}
BY DEF TypeOK, PutFile, AllFiles

LEMMA TokenIsTyped ==
  ASSUME NEW t \in Token PROVE t.owner \in Owners /\ t.age \in Nat
BY DEF Token

LEMMA TokenIsMade ==
  ASSUME NEW o \in Owners, NEW n \in Nat PROVE [owner |-> o, age |-> n] \in Token
BY DEF Token

LEMMA FilesAreKnown ==
  ASSUME TypeOK, Issued, NEW f \in AllFiles, NEW t, Known(t), NEW o, PutFile(f, t, o),
         UNCHANGED latest
  PROVE  \A g \in Files : Known(surface[g])'
BY DEF TypeOK, Issued, Known, PutFile, AllFiles

\* A token that was issued stays issued.
LEMMA KnownLasts ==
  ASSUME TypeOK, Issued, \A o \in Owners : latest'[o] \in Nat /\ latest[o] <= latest'[o],
         NEW t \in Token \cup {None}, Known(t)
  PROVE  t = None \/ t.age <= latest'[t.owner]
BY TokenIsTyped DEF Known, TypeOK

LEMMA LocalsAreKnown ==
  ASSUME TypeOK, Issued, \A o \in Owners : latest'[o] \in Nat /\ latest[o] <= latest'[o],
         UNCHANGED local, NEW d \in Commands
  PROVE  /\ Known(token[d])' /\ Known(seen[d].keyring)'
         /\ \A f \in Files : Known(seen[d].surface[f])'
<1>1. token' = token /\ seen' = seen
  BY DEF local
<1>2. /\ token[d] \in Token \cup {None} /\ seen[d].keyring \in Token \cup {None}
      /\ \A f \in Files : seen[d].surface[f] \in Token \cup {None}
  BY DEF TypeOK, Sessions
<1>3. /\ Known(token[d]) /\ Known(seen[d].keyring)
      /\ \A f \in Files : Known(seen[d].surface[f])
  BY DEF Issued
<1> QED
  BY <1>1, <1>2, <1>3, KnownLasts DEF Known

LEMMA IssuedLasts ==
  ASSUME TypeOK, Issued, \A o \in Owners : latest'[o] \in Nat /\ latest[o] <= latest'[o],
         \A o \in Owners : vault'[o] <= latest'[o], UNCHANGED <<session, local>>
  PROVE  Issued'
<1>1. \A f \in Files : Known(surface[f])'
  BY KnownLasts DEF TypeOK, Issued, Known, session
<1>2. Known(keyring)'
  BY KnownLasts DEF TypeOK, Issued, Known, session
<1> QED
  BY <1>1, <1>2, LocalsAreKnown DEF Issued

LEMMA IssuedGrows ==
  ASSUME TypeOK, Issued, NEW o \in Owners, NEW new, new.owner = o, new.age = latest[o] + 1,
         latest' = [latest EXCEPT ![o] = latest[o] + 1],
         \/ /\ \E f \in Files : surface' = [surface EXCEPT ![f] = new]
            /\ UNCHANGED keyring
         \/ keyring' = new /\ UNCHANGED surface,
         UNCHANGED <<vault, local>>
  PROVE  Issued'
<1>1. \A p \in Owners : latest'[p] \in Nat /\ latest[p] <= latest'[p]
  BY DEF TypeOK
<1>2. new.age <= latest'[new.owner]
  BY DEF TypeOK
<1>3. \A p \in Owners : vault'[p] <= latest'[p]
  BY <1>1 DEF TypeOK, Issued
<1>4. \A f \in Files : Known(surface[f])'
  BY <1>1, <1>2, KnownLasts DEF TypeOK, Issued, Known
<1>5. Known(keyring)'
  BY <1>1, <1>2, KnownLasts DEF TypeOK, Issued, Known
<1> QED
  BY <1>1, <1>3, <1>4, <1>5, LocalsAreKnown DEF Issued

-----------------------------------------------------------------------------
(* A step of a command *)

\* What a reconciliation does when it saves the refreshed tokens: those that could
\* not be saved are remembered, and the token it will write is the newest.
LEMMA HarvestDoes ==
  ASSUME NEW c \in Commands, TypeOK, Harvest(c)
  PROVE  /\ pc[c] = "harvest"
         /\ UNCHANGED <<session, saved, latest, kind, seen, todo, outside, alone>>
         /\ mishaps' \in Nat /\ unsaved' \in SUBSET saved
         /\ vault' = [o \in Owners |-> IF o \in unsaved' THEN vault[o]
                                       ELSE Harvested(seen[c].surface)[o]]
         /\ \/ /\ LeaveAlone(seen[c].surface)
               /\ Goto(c, "command") /\ Release /\ UNCHANGED token
            \/ /\ ~LeaveAlone(seen[c].surface)
               /\ token' = [token EXCEPT ![c] =
                     [owner |-> Intended(seen[c].surface),
                      age |-> Harvested(seen[c].surface)[Intended(seen[c].surface)]]]
               /\ Goto(c, "compare") /\ UNCHANGED lock
<1>1. /\ pc[c] = "harvest"
      /\ UNCHANGED <<session, saved, latest, kind, seen, todo, outside, alone>>
  BY Zenon DEF Harvest, At
<1>2. PICK failed \in SUBSET {o \in saved : Harvested(seen[c].surface)[o] # vault[o]} :
        /\ IF failed = {} THEN UNCHANGED mishaps ELSE Mishap
        /\ vault' = [o \in Owners |-> IF o \in failed THEN vault[o]
                                      ELSE Harvested(seen[c].surface)[o]]
        /\ unsaved' = failed
  BY Zenon DEF Harvest
<1>3. mishaps' \in Nat
  BY <1>2 DEF Mishap, TypeOK
<1>4. unsaved' \in SUBSET saved
  BY <1>2
<1>5. vault' = [o \in Owners |-> IF o \in unsaved' THEN vault[o]
                                ELSE Harvested(seen[c].surface)[o]]
  BY <1>2, Zenon
<1>6. \/ /\ LeaveAlone(seen[c].surface)
         /\ Goto(c, "command") /\ Release /\ UNCHANGED token
      \/ /\ ~LeaveAlone(seen[c].surface)
         /\ token' = [token EXCEPT ![c] =
               [owner |-> Intended(seen[c].surface),
                age |-> Harvested(seen[c].surface)[Intended(seen[c].surface)]]]
         /\ Goto(c, "compare") /\ UNCHANGED lock
  BY Zenon DEF Harvest
<1> QED
  BY <1>1, <1>3, <1>4, <1>5, <1>6, Zenon

\* A step of a command is its own.
LEMMA OthersStay ==
  ASSUME NEW c \in Commands, TypeOK, Step(c) \/ AgyLogin(c) \/ Crash(c)
  PROVE  \A d \in Commands \ {c} : /\ pc'[d] = pc[d] /\ token'[d] = token[d]
                                    /\ seen'[d] = seen[d] /\ todo'[d] = todo[d] /\ kind'[d] = kind[d]
<1> USE Parameters DEF At, Goto, TypeOK, local
<1>1. CASE SkipSync(c)
  BY <1>1 DEF SkipSync
<1>2. CASE BeginSync(c)
  BY <1>2 DEF BeginSync, TakeLock, Snapshot
<1>3. CASE Harvest(c)
  BY <1>3, HarvestDoes DEF Release
<1>4. CASE Compare(c)
  BY <1>4 DEF Compare, Release, ToDo, Snapshot
<1>5. CASE Write(c)
  BY <1>5 DEF Write, PutFile, ToDo
<1>6. CASE WriteFails(c)
  BY <1>6 DEF WriteFails, Mishap, ToDo
<1>7. CASE Restore(c)
  BY <1>7 DEF Restore, PutFile, ToDo
<1>8. CASE RestoreFails(c)
  BY <1>8 DEF RestoreFails, Mishap, ToDo
<1>9. CASE FilesDone(c)
  BY <1>9 DEF FilesDone
<1>10. CASE SyncMirror(c)
  BY <1>10 DEF SyncMirror, Release
<1>11. CASE Choose(c)
  BY <1>11 DEF Choose
<1>12. CASE NothingToSwitchTo(c)
  BY <1>12 DEF NothingToSwitchTo
<1>13. CASE LockSwitch(c)
  BY <1>13 DEF LockSwitch, TakeLock, Snapshot, ToDo
<1>14. CASE LockNext(c)
  BY <1>14 DEF LockNext, TakeLock, Snapshot, ToDo
<1>15. CASE SetSecure(c)
  BY <1>15 DEF SetSecure
<1>16. CASE SetSecureFails(c)
  BY <1>16 DEF SetSecureFails, Mishap, Release
<1>17. CASE Switched(c)
  BY <1>17 DEF Switched, Release
<1>18. CASE SecureFails(c)
  BY <1>18 DEF SecureFails, Mishap, Release
<1>19. CASE RestoreSecure(c)
  BY <1>19 DEF RestoreSecure, Release
<1>20. CASE LogOut(c)
  BY <1>20 DEF LogOut, TakeLock, Snapshot, Clear, ToDo
<1>21. CASE RemoveFile(c)
  BY <1>21 DEF RemoveFile, PutFile, ToDo
<1>22. CASE RemoveFails(c)
  BY <1>22 DEF RemoveFails, Mishap, ToDo
<1>23. CASE LoggedOut(c)
  BY <1>23 DEF LoggedOut, Release
<1>24. CASE Cleared(c)
  BY <1>24 DEF Cleared, ToDo
<1>25. CASE BeginLogin(c)
  BY <1>25 DEF BeginLogin, TakeLock, Snapshot
<1>26. CASE SaveFound(c)
  BY <1>26 DEF SaveFound, SaveAccount, Release
<1>27. CASE ClearForLogin(c)
  BY <1>27 DEF ClearForLogin, Clear, ToDo
<1>28. CASE LoggedIn(c)
  BY <1>28 DEF LoggedIn, SaveAccount, Release, ToDo
<1>29. CASE GiveUp(c)
  BY <1>29 DEF GiveUp, ToDo
<1>30. CASE AgyLogin(c)
  BY <1>30 DEF AgyLogin
<1>31. CASE Crash(c)
  BY <1>31 DEF Crash, Mishap
<1> QED
  BY <1>1, <1>2, <1>3, <1>4, <1>5, <1>6, <1>7, <1>8, <1>9, <1>10, <1>11, <1>12, <1>13,
     <1>14, <1>15, <1>16, <1>17, <1>18, <1>19, <1>20, <1>21, <1>22, <1>23, <1>24, <1>25,
     <1>26, <1>27, <1>28, <1>29, <1>30, <1>31 DEF Step

LEMMA TypesStay ==
  ASSUME NEW c \in Commands, TypeOK, Issued, Step(c) \/ AgyLogin(c) \/ Crash(c),
         UNCHANGED platform
  PROVE  TypeOK'
<1> USE Parameters DEF At, Goto, TypeOK, Sessions, session, store, local, trouble, Labels,
     Final, Clearing, Writing, Token, Kinds
<1>1. CASE SkipSync(c)
  BY <1>1 DEF SkipSync
<1>2. CASE BeginSync(c)
  BY <1>2 DEF BeginSync, TakeLock, Snapshot
<1>3. CASE Harvest(c)
  <2> HIDE DEF TypeOK, Sessions, session, store, local, trouble, Labels, Final, Clearing,
       Writing, Token, At, Goto
  <2> DEFINE files == seen[c].surface
             o == Intended(files)
             t == [owner |-> o, age |-> Harvested(files)[o]]
  <2>1. Harvested(files) \in [Owners -> Nat]
    <3>1. files \in [Files -> Token \cup {None}] /\ \A f \in Files : Known(files[f])
      BY DEF TypeOK, Sessions, Issued
    <3> QED
      BY <3>1, HarvestIsKnown
  <2>2. /\ UNCHANGED <<session, saved, latest, kind, seen, todo, outside, alone>>
        /\ mishaps' \in Nat /\ unsaved' \in SUBSET saved
        /\ vault' = [p \in Owners |-> IF p \in unsaved' THEN vault[p] ELSE Harvested(files)[p]]
        /\ pc[c] = "harvest"
    BY <1>3, HarvestDoes
  <2>3. vault' \in [Owners -> Nat]
    BY <2>1, <2>2 DEF TypeOK
  <2>4. saved \subseteq Owners
    BY DEF TypeOK
  <2>5. CASE LeaveAlone(files)
    <3>1. pc' = [pc EXCEPT ![c] = "command"] /\ lock' = None /\ token' = token
      BY <1>3, <2>5, HarvestDoes DEF Goto, Release
    <3> QED
      BY <2>2, <2>3, <2>4, <3>1 DEF TypeOK, session, Labels, Final, Clearing, Writing
  <2>6. CASE ~LeaveAlone(files)
    <3>1. o \in Owners
      BY <2>4, <2>6 DEF LeaveAlone
    <3>2. t \in Token
      BY <2>1, <3>1, TokenIsMade
    <3>3. token' = [token EXCEPT ![c] = t] /\ pc' = [pc EXCEPT ![c] = "compare"] /\ lock' = lock
      BY <1>3, <2>6, HarvestDoes DEF Goto
    <3> HIDE DEF t
    <3> QED
      BY <2>2, <2>3, <2>4, <3>2, <3>3, Parameters DEF TypeOK, session, Labels, Final,
         Clearing, Writing
  <2> QED
    BY <2>5, <2>6
<1>4. CASE Compare(c)
  <2>1. CASE active = token[c].owner /\ \A f \in Files : surface[f] = token[c]
    BY <1>4, <2>1 DEF Compare, Release, Goto, TypeOK, session, store, local, trouble, Labels,
       Final, Clearing, Writing
  <2>2. CASE ~(active = token[c].owner /\ \A f \in Files : surface[f] = token[c])
    <3>1. /\ pc[c] = "compare" /\ pc' = [pc EXCEPT ![c] = "syncWrite"]
          /\ todo' = [todo EXCEPT ![c] = AllFiles] /\ seen' = [seen EXCEPT ![c] = Snapshot]
          /\ UNCHANGED <<session, store, kind, token, trouble, alone, lock>>
      BY <1>4, <2>2 DEF Compare, At, Goto, ToDo
    <3>2. Snapshot \in Sessions
      BY DEF TypeOK, Snapshot, Sessions
    <3> QED
      BY <3>1, <3>2 DEF TypeOK, session, store, trouble, Labels, Final, Clearing, Writing
  <2> QED
    BY <2>1, <2>2
<1>5. CASE Write(c)
  <2>1. NextFile(c) \in AllFiles /\ todo' \in [Commands -> SUBSET AllFiles]
    BY <1>5, NextFileIsLeft DEF Write, ToDo, TypeOK
  <2>2. token[c] \in Token /\ token[c].owner \in Owners
    BY <1>5, TokenIsTyped DEF Write, TypeOK, Writing
  <2>3. surface' \in [Files -> Token \cup {None}] /\ active' \in Owners \cup {None}
    BY <1>5, <2>1, <2>2, FilesAreTyped DEF Write
  <2> QED
    BY <1>5, <2>1, <2>3 DEF Write, TypeOK, store, trouble
<1>6. CASE WriteFails(c)
  BY <1>6 DEF WriteFails, Mishap, ToDo, AllFiles, AccountsFile, Files
<1>7. CASE Restore(c)
  <2>1. PICK f \in todo[c] :
          /\ PutFile(f, IF f \in Files THEN seen[c].surface[f] ELSE None, seen[c].active)
          /\ ToDo(c, todo[c] \ {f})
    BY <1>7 DEF Restore
  <2>2. f \in AllFiles /\ todo' \in [Commands -> SUBSET AllFiles]
    BY <2>1 DEF ToDo, TypeOK
  <2>3. /\ (IF f \in Files THEN seen[c].surface[f] ELSE None) \in Token \cup {None}
        /\ seen[c].active \in Owners \cup {None}
    BY DEF TypeOK, Sessions
  <2>4. surface' \in [Files -> Token \cup {None}] /\ active' \in Owners \cup {None}
    BY <2>1, <2>2, <2>3, FilesAreTyped
  <2> QED
    BY <1>7, <2>2, <2>4 DEF Restore, TypeOK, store, trouble
<1>8. CASE RestoreFails(c)
  <2>1. todo' \in [Commands -> SUBSET AllFiles] /\ mishaps' \in Nat
    BY <1>8 DEF RestoreFails, Mishap, ToDo, TypeOK
  <2> QED
    BY <1>8, <2>1 DEF RestoreFails, TypeOK, session, store
<1>9. CASE FilesDone(c)
  <2>1. /\ \/ pc[c] = "syncWrite" /\ pc' = [pc EXCEPT ![c] = "syncMirror"]
           \/ pc[c] = "syncRestore" /\ pc' = [pc EXCEPT ![c] = "syncMirror"]
           \/ pc[c] = "write" /\ pc' = [pc EXCEPT ![c] = "mirror"]
           \/ pc' = [pc EXCEPT ![c] = "restoreSecure"]
        /\ UNCHANGED <<session, store, lock, local, trouble, alone>>
    BY <1>9 DEF FilesDone, Goto, At
  <2>2. pc' \in [Commands -> Labels]
    BY <2>1, ZenonT(60) DEF TypeOK, Labels, Final, Clearing, Writing
  <2>3. \A d \in Commands : pc'[d] \in Writing => pc[d] \in Writing
    BY <2>1 DEF TypeOK, Labels, Final, Clearing, Writing
  <2> QED
    BY <2>1, <2>2, <2>3 DEF TypeOK, session, store, local, trouble
<1>10. CASE SyncMirror(c)
  BY <1>10 DEF SyncMirror, Release
<1>11. CASE Choose(c)
  <2>1. CASE kind[c] = "reconcile" /\ Goto(c, "done") /\ UNCHANGED token
    BY <1>11, <2>1 DEF Choose, Goto, TypeOK, session, store, local, trouble, Labels, Final,
       Clearing, Writing
  <2>2. CASE \E o \in saved : token' = [token EXCEPT ![c] = [owner |-> o, age |-> vault[o]]]
    <3>1. PICK o \in saved : token' = [token EXCEPT ![c] = [owner |-> o, age |-> vault[o]]]
      BY <2>2
    <3> DEFINE t == [owner |-> o, age |-> vault[o]]
    <3>2. t \in Token
      BY TokenIsMade DEF TypeOK
    <3>3. token' = [token EXCEPT ![c] = t]
      BY <3>1
    <3>4. \/ pc' = [pc EXCEPT ![c] = "chosen"]
          \/ pc' = [pc EXCEPT ![c] = "done"]
      BY <1>11 DEF Choose, Goto
    <3>5. UNCHANGED <<session, store, lock, kind, seen, todo, trouble, alone>>
      BY <1>11 DEF Choose
    <3> HIDE DEF t
    <3>6. \A d \in Commands : pc'[d] \in Writing => token'[d] # None
      BY <3>2, <3>3, <3>4, Parameters DEF TypeOK, Labels, Final, Clearing, Writing
    <3> QED
      BY <3>2, <3>3, <3>4, <3>5, <3>6 DEF TypeOK, session, store, trouble, Labels, Final,
         Clearing, Writing
  <2> QED
    BY <1>11, <2>1, <2>2 DEF Choose
<1>12. CASE NothingToSwitchTo(c)
  BY <1>12 DEF NothingToSwitchTo
<1>13. CASE LockSwitch(c)
  BY <1>13 DEF LockSwitch, TakeLock, Snapshot, ToDo
<1>14. CASE LockNext(c)
  BY <1>14 DEF LockNext, TakeLock, Snapshot, ToDo
<1>15. CASE SetSecure(c)
  BY <1>15 DEF SetSecure
<1>16. CASE SetSecureFails(c)
  <2>1. mishaps' \in Nat /\ keyring' \in Token \cup {None} /\ lock' \in Commands \cup {None}
    BY <1>16 DEF SetSecureFails, Mishap, Release, TypeOK
  <2>2. /\ pc[c] = "secure"
        /\ pc' = [pc EXCEPT ![c] = "write"] \/ pc' = [pc EXCEPT ![c] = "failed"]
        /\ UNCHANGED <<surface, active, store, local, outside, unsaved, alone>>
    BY <1>16 DEF SetSecureFails, Goto, At
  <2> QED
    BY <2>1, <2>2 DEF TypeOK, store, local, Labels, Final, Clearing, Writing
<1>17. CASE Switched(c)
  BY <1>17 DEF Switched, Release
<1>18. CASE SecureFails(c)
  <2>1. /\ mishaps' = mishaps + 1 /\ lock' = None /\ alone' = FALSE
    BY <1>18, Zenon DEF SecureFails, Mishap, Release
  <2>2. /\ pc' = [pc EXCEPT ![c] = "command"] \/ pc' = [pc EXCEPT ![c] = "done"]
           \/ pc' = [pc EXCEPT ![c] = "failed"]
        /\ UNCHANGED <<session, store, local, outside, unsaved>>
    BY <1>18 DEF SecureFails, Goto, At
  <2>3. pc' \in [Commands -> Labels] /\ \A d \in Commands : pc'[d] \in Writing => pc[d] \in Writing
    BY <2>2, ZenonT(60) DEF TypeOK, Labels, Final, Clearing, Writing
  <2>4. mishaps' \in Nat
    BY <2>1 DEF TypeOK
  <2> QED
    BY <2>1, <2>2, <2>3, <2>4 DEF TypeOK, session, store, local
<1>19. CASE RestoreSecure(c)
  BY <1>19 DEF RestoreSecure, Release
<1>20. CASE LogOut(c)
  BY <1>20 DEF LogOut, TakeLock, Snapshot, Clear, ToDo
<1>21. CASE RemoveFile(c)
  <2>1. NextFile(c) \in AllFiles /\ todo' \in [Commands -> SUBSET AllFiles]
    BY <1>21, NextFileIsLeft DEF RemoveFile, ToDo, TypeOK
  <2>2. surface' \in [Files -> Token \cup {None}] /\ active' \in Owners \cup {None}
    BY <1>21, <2>1, FilesAreTyped DEF RemoveFile
  <2> QED
    BY <1>21, <2>1, <2>2 DEF RemoveFile, TypeOK, store, trouble
<1>22. CASE RemoveFails(c)
  <2>1. NextFile(c) \in AllFiles /\ todo' \in [Commands -> SUBSET AllFiles]
    BY <1>22, NextFileIsLeft DEF RemoveFails, ToDo, TypeOK
  <2>2. mishaps' \in Nat
    BY <1>22 DEF RemoveFails, Mishap, TypeOK
  <2>3. /\ pc' = pc \/ pc' = [pc EXCEPT ![c] = "clearRest"]
           \/ pc' = [pc EXCEPT ![c] = "removeRest"]
        /\ UNCHANGED <<session, store, lock, kind, token, seen, outside, unsaved, alone>>
    BY <1>22 DEF RemoveFails, Goto
  <2>4. pc' \in [Commands -> Labels] /\ \A d \in Commands : pc'[d] \in Writing => pc[d] \in Writing
    BY <2>3, SMTT(30) DEF TypeOK, Labels, Final, Clearing, Writing
  <2> QED
    BY <2>1, <2>2, <2>3, <2>4 DEF TypeOK, session, store
<1>23. CASE LoggedOut(c)
  BY <1>23 DEF LoggedOut, Release
<1>24. CASE Cleared(c)
  <2> HIDE DEF TypeOK, Token, Sessions, Labels, Final, Clearing, Writing
  <2>1. /\ \/ pc' = [pc EXCEPT ![c] = "wait"] /\ UNCHANGED todo
           \/ pc' = [pc EXCEPT ![c] = "restore"] /\ todo' = [todo EXCEPT ![c] = AllFiles]
        /\ UNCHANGED <<session, store, lock, kind, token, seen, trouble, alone>>
    BY <1>24 DEF Cleared, Goto, ToDo
  <2> QED
    BY <2>1 DEF TypeOK, session, store, trouble, Labels, Final, Clearing, Writing
<1>25. CASE BeginLogin(c)
  BY <1>25, CurrentTokenIsKnown DEF BeginLogin, TakeLock, Snapshot
<1>26. CASE SaveFound(c)
  <2>1. PICK f \in Files : /\ surface[f] # None
                           /\ \/ SaveAccount(surface[f]) /\ Goto(c, "done")
                              \/ UNCHANGED <<saved, vault>> /\ Goto(c, "failed")
    BY <1>26 DEF SaveFound
  <2>2. surface[f] \in Token /\ surface[f].owner \in Owners /\ surface[f].age \in Nat
    BY <2>1, TokenIsTyped DEF TypeOK
  <2>3. saved' \in SUBSET Owners /\ vault' \in [Owners -> Nat]
    BY <2>1, <2>2 DEF SaveAccount, TypeOK
  <2>4. pc' = [pc EXCEPT ![c] = "done"] \/ pc' = [pc EXCEPT ![c] = "failed"]
    BY <2>1 DEF Goto
  <2> QED
    BY <1>26, <2>3, <2>4, ZenonT(60) DEF SaveFound, Release, TypeOK, session, local, trouble, Labels,
       Final, Clearing, Writing
<1>27. CASE ClearForLogin(c)
  BY <1>27 DEF ClearForLogin, Clear, ToDo
<1>28. CASE LoggedIn(c)
  <2> HIDE DEF TypeOK, Token, Sessions, Labels, Final, Clearing, Writing
  <2>1. CurrentToken \in Token /\ CurrentToken.owner \in Owners /\ CurrentToken.age \in Nat
    BY <1>28, CurrentTokenIsKnown, TokenIsTyped DEF LoggedIn
  <2>2. saved' \in SUBSET Owners /\ vault' \in [Owners -> Nat]
    BY <1>28, <2>1 DEF LoggedIn, SaveAccount, TypeOK
  <2>3. /\ \/ pc' = [pc EXCEPT ![c] = "done"] /\ lock' = None /\ UNCHANGED todo
           \/ pc' = [pc EXCEPT ![c] = "restore"] /\ UNCHANGED lock
              /\ todo' = [todo EXCEPT ![c] = AllFiles]
        /\ UNCHANGED <<session, latest, kind, token, seen, trouble, alone>>
    BY <1>28 DEF LoggedIn, Goto, ToDo, Release
  <2> QED
    BY <2>2, <2>3 DEF TypeOK, session, trouble, Labels, Final, Clearing, Writing
<1>29. CASE GiveUp(c)
  BY <1>29 DEF GiveUp, ToDo
<1>30. CASE AgyLogin(c)
  BY <1>30 DEF AgyLogin
<1>31. CASE Crash(c)
  BY <1>31 DEF Crash, Mishap
<1> QED
  BY <1>1, <1>2, <1>3, <1>4, <1>5, <1>6, <1>7, <1>8, <1>9, <1>10, <1>11, <1>12, <1>13,
     <1>14, <1>15, <1>16, <1>17, <1>18, <1>19, <1>20, <1>21, <1>22, <1>23, <1>24, <1>25,
     <1>26, <1>27, <1>28, <1>29, <1>30, <1>31 DEF Step

LEMMA TypesStayOutside ==
  ASSUME TypeOK, Issued, AgyRefresh \/ AgySignIn \/ AgySignOut \/ QuotaRefresh, UNCHANGED
         platform
  PROVE  TypeOK'
<1> USE Parameters DEF TypeOK, session, store, local, trouble, Token
<1>1. CASE AgyRefresh
  <2>1. PICK o \in Owners, f \in Files :
          /\ latest' = [latest EXCEPT ![o] = @ + 1]
          /\ surface' = [surface EXCEPT ![f] = [owner |-> o, age |-> latest[o] + 1]]
    BY <1>1 DEF AgyRefresh
  <2> DEFINE t == [owner |-> o, age |-> latest[o] + 1]
  <2>2. latest' \in [Owners -> Nat] /\ t \in Token
    BY <2>1, TokenIsMade DEF TypeOK
  <2>3. surface' = [surface EXCEPT ![f] = t]
    BY <2>1
  <2>4. outside' = outside + 1 /\ alone' = FALSE
    BY <1>1, Zenon DEF AgyRefresh, Outside
  <2> HIDE DEF t
  <2>5. surface' \in [Files -> Token \cup {None}] /\ outside' \in Nat
    BY <2>2, <2>3, <2>4 DEF TypeOK
  <2> QED
    BY <1>1, <2>2, <2>4, <2>5 DEF AgyRefresh, TypeOK, local
<1>2. CASE AgySignIn
  <2>1. PICK o \in Owners \ saved, f \in Files :
          /\ latest' = [latest EXCEPT ![o] = @ + 1]
          /\ surface' = [surface EXCEPT ![f] = [owner |-> o, age |-> latest[o] + 1]]
    BY <1>2 DEF AgySignIn
  <2> DEFINE t == [owner |-> o, age |-> latest[o] + 1]
  <2>2. latest' \in [Owners -> Nat] /\ t \in Token
    BY <2>1, TokenIsMade DEF TypeOK
  <2>3. surface' = [surface EXCEPT ![f] = t]
    BY <2>1
  <2>4. outside' = outside + 1 /\ alone' = FALSE
    BY <1>2, Zenon DEF AgySignIn, Outside
  <2> HIDE DEF t
  <2>5. surface' \in [Files -> Token \cup {None}] /\ outside' \in Nat
    BY <2>2, <2>3, <2>4 DEF TypeOK
  <2> QED
    BY <1>2, <2>2, <2>4, <2>5 DEF AgySignIn, TypeOK, local
<1>3. CASE AgySignOut
  <2>1. PICK f \in Files : surface' = [surface EXCEPT ![f] = None]
    BY <1>3 DEF AgySignOut
  <2>2. outside' = outside + 1 /\ alone' = FALSE
    BY <1>3, Zenon DEF AgySignOut, Outside
  <2>3. surface' \in [Files -> Token \cup {None}] /\ outside' \in Nat
    BY <2>1, <2>2 DEF TypeOK
  <2> QED
    BY <1>3, <2>2, <2>3 DEF AgySignOut, TypeOK, store, local
<1>4. CASE QuotaRefresh
  BY <1>4 DEF QuotaRefresh, Outside
<1> QED
  BY <1>1, <1>2, <1>3, <1>4

LEMMA LockStays ==
  ASSUME NEW c \in Commands, TypeOK, Locked, Step(c) \/ AgyLogin(c) \/ Crash(c)
  PROVE  Locked'
<1> USE Parameters DEF At, Goto, TypeOK, Locked, Holding, Syncing, Clearing, Labels,
     Final, session, store, local, trouble
<1>1. CASE SkipSync(c)
  BY <1>1 DEF SkipSync
<1>2. CASE BeginSync(c)
  BY <1>2 DEF BeginSync, TakeLock, Snapshot
<1>3. CASE Harvest(c)
  BY <1>3, HarvestDoes DEF Release
<1>4. CASE Compare(c)
  BY <1>4 DEF Compare, Release, ToDo, Snapshot
<1>5. CASE Write(c)
  BY <1>5 DEF Write, PutFile, ToDo
<1>6. CASE WriteFails(c)
  BY <1>6 DEF WriteFails, Mishap, ToDo
<1>7. CASE Restore(c)
  BY <1>7 DEF Restore, PutFile, ToDo
<1>8. CASE RestoreFails(c)
  BY <1>8 DEF RestoreFails, Mishap, ToDo
<1>9. CASE FilesDone(c)
  BY <1>9 DEF FilesDone
<1>10. CASE SyncMirror(c)
  BY <1>10 DEF SyncMirror, Release
<1>11. CASE Choose(c)
  BY <1>11 DEF Choose
<1>12. CASE NothingToSwitchTo(c)
  BY <1>12 DEF NothingToSwitchTo
<1>13. CASE LockSwitch(c)
  BY <1>13 DEF LockSwitch, TakeLock, Snapshot, ToDo
<1>14. CASE LockNext(c)
  BY <1>14 DEF LockNext, TakeLock, Snapshot, ToDo
<1>15. CASE SetSecure(c)
  BY <1>15 DEF SetSecure
<1>16. CASE SetSecureFails(c)
  BY <1>16 DEF SetSecureFails, Mishap, Release
<1>17. CASE Switched(c)
  BY <1>17 DEF Switched, Release
<1>18. CASE SecureFails(c)
  BY <1>18 DEF SecureFails, Mishap, Release
<1>19. CASE RestoreSecure(c)
  BY <1>19 DEF RestoreSecure, Release
<1>20. CASE LogOut(c)
  BY <1>20 DEF LogOut, TakeLock, Snapshot, Clear, ToDo
<1>21. CASE RemoveFile(c)
  BY <1>21 DEF RemoveFile, PutFile, ToDo
<1>22. CASE RemoveFails(c)
  BY <1>22 DEF RemoveFails, Mishap, ToDo
<1>23. CASE LoggedOut(c)
  BY <1>23 DEF LoggedOut, Release
<1>24. CASE Cleared(c)
  BY <1>24 DEF Cleared, ToDo
<1>25. CASE BeginLogin(c)
  BY <1>25 DEF BeginLogin, TakeLock, Snapshot
<1>26. CASE SaveFound(c)
  BY <1>26 DEF SaveFound, SaveAccount, Release
<1>27. CASE ClearForLogin(c)
  BY <1>27 DEF ClearForLogin, Clear, ToDo
<1>28. CASE LoggedIn(c)
  BY <1>28 DEF LoggedIn, SaveAccount, Release, ToDo
<1>29. CASE GiveUp(c)
  BY <1>29 DEF GiveUp, ToDo
<1>30. CASE AgyLogin(c)
  BY <1>30 DEF AgyLogin
<1>31. CASE Crash(c)
  BY <1>31 DEF Crash, Mishap
<1> QED
  BY <1>1, <1>2, <1>3, <1>4, <1>5, <1>6, <1>7, <1>8, <1>9, <1>10, <1>11, <1>12, <1>13,
     <1>14, <1>15, <1>16, <1>17, <1>18, <1>19, <1>20, <1>21, <1>22, <1>23, <1>24, <1>25,
     <1>26, <1>27, <1>28, <1>29, <1>30, <1>31 DEF Step

\* While a command holds the lock the others do nothing to the session or to
\* the accounts.
LEMMA OthersWait ==
  ASSUME NEW c \in Commands, TypeOK, Locked, NEW d \in Commands \ {c}, pc[d] \in Holding,
         Step(c) \/ AgyLogin(c) \/ Crash(c)
  PROVE  UNCHANGED <<session, store, lock, unsaved, alone>> /\ pc'[d] \in Holding
<1> USE Parameters DEF At, Goto, TypeOK, Locked, Holding, Syncing, Clearing, session,
     store, local, trouble
<1>1. CASE SkipSync(c)
  BY <1>1 DEF SkipSync
<1>2. CASE BeginSync(c)
  BY <1>2 DEF BeginSync, TakeLock, Snapshot
<1>3. CASE Harvest(c)
  BY <1>3, HarvestDoes, ZenonT(60) DEF Release
<1>4. CASE Compare(c)
  BY <1>4 DEF Compare, Release, ToDo, Snapshot
<1>5. CASE Write(c)
  BY <1>5 DEF Write, PutFile, ToDo
<1>6. CASE WriteFails(c)
  BY <1>6 DEF WriteFails, Mishap, ToDo
<1>7. CASE Restore(c)
  BY <1>7 DEF Restore, PutFile, ToDo
<1>8. CASE RestoreFails(c)
  BY <1>8 DEF RestoreFails, Mishap, ToDo
<1>9. CASE FilesDone(c)
  BY <1>9 DEF FilesDone
<1>10. CASE SyncMirror(c)
  BY <1>10 DEF SyncMirror, Release
<1>11. CASE Choose(c)
  BY <1>11 DEF Choose
<1>12. CASE NothingToSwitchTo(c)
  BY <1>12 DEF NothingToSwitchTo
<1>13. CASE LockSwitch(c)
  BY <1>13 DEF LockSwitch, TakeLock, Snapshot, ToDo
<1>14. CASE LockNext(c)
  BY <1>14 DEF LockNext, TakeLock, Snapshot, ToDo
<1>15. CASE SetSecure(c)
  BY <1>15 DEF SetSecure
<1>16. CASE SetSecureFails(c)
  BY <1>16 DEF SetSecureFails, Mishap, Release
<1>17. CASE Switched(c)
  BY <1>17 DEF Switched, Release
<1>18. CASE SecureFails(c)
  BY <1>18 DEF SecureFails, Mishap, Release
<1>19. CASE RestoreSecure(c)
  BY <1>19 DEF RestoreSecure, Release
<1>20. CASE LogOut(c)
  BY <1>20 DEF LogOut, TakeLock, Snapshot, Clear, ToDo
<1>21. CASE RemoveFile(c)
  BY <1>21 DEF RemoveFile, PutFile, ToDo
<1>22. CASE RemoveFails(c)
  BY <1>22 DEF RemoveFails, Mishap, ToDo
<1>23. CASE LoggedOut(c)
  BY <1>23 DEF LoggedOut, Release
<1>24. CASE Cleared(c)
  BY <1>24 DEF Cleared, ToDo
<1>25. CASE BeginLogin(c)
  BY <1>25 DEF BeginLogin, TakeLock, Snapshot
<1>26. CASE SaveFound(c)
  BY <1>26 DEF SaveFound, SaveAccount, Release
<1>27. CASE ClearForLogin(c)
  BY <1>27 DEF ClearForLogin, Clear, ToDo
<1>28. CASE LoggedIn(c)
  BY <1>28 DEF LoggedIn, SaveAccount, Release, ToDo
<1>29. CASE GiveUp(c)
  BY <1>29 DEF GiveUp, ToDo
<1>30. CASE AgyLogin(c)
  BY <1>30 DEF AgyLogin
<1>31. CASE Crash(c)
  BY <1>31 DEF Crash, Mishap
<1> QED
  BY <1>1, <1>2, <1>3, <1>4, <1>5, <1>6, <1>7, <1>8, <1>9, <1>10, <1>11, <1>12, <1>13,
     <1>14, <1>15, <1>16, <1>17, <1>18, <1>19, <1>20, <1>21, <1>22, <1>23, <1>24, <1>25,
     <1>26, <1>27, <1>28, <1>29, <1>30, <1>31 DEF Step

LEMMA KeptByStays ==
  ASSUME NEW c \in Commands, TypeOK, KeptBy(c), Step(c) \/ AgyLogin(c) \/ Crash(c)
  PROVE  KeptBy(c)'
<1> USE Parameters DEF At, Goto, TypeOK, KeptBy, Clearing, session, store, local, trouble,
     AllFiles, AccountsFile, Files
<1>1. CASE SkipSync(c)
  BY <1>1 DEF SkipSync
<1>2. CASE BeginSync(c)
  BY <1>2 DEF BeginSync, TakeLock, Snapshot
<1>3. CASE Harvest(c)
  BY <1>3, HarvestDoes, ZenonT(60) DEF Release
<1>4. CASE Compare(c)
  <2>1. CASE active = token[c].owner /\ \A f \in Files : surface[f] = token[c]
    BY <1>4, <2>1 DEF Compare, Goto, TypeOK, KeptBy
  <2>2. CASE ~(active = token[c].owner /\ \A f \in Files : surface[f] = token[c])
    <3>1. pc' = [pc EXCEPT ![c] = "syncWrite"] /\ todo' = [todo EXCEPT ![c] = AllFiles]
      BY <1>4, <2>2 DEF Compare, Goto, ToDo
    <3> QED
      BY <3>1 DEF TypeOK, KeptBy, AllFiles
  <2> QED
    BY <2>1, <2>2
<1>5. CASE Write(c)
  <2> DEFINE n == NextFile(c)
  <2>1. n \in todo[c] /\ n \in AllFiles
    BY <1>5, NextFileIsLeft DEF Write, TypeOK
  <2>2. /\ PutFile(n, token[c], token[c].owner) /\ todo' = [todo EXCEPT ![c] = todo[c] \ {n}]
        /\ UNCHANGED <<pc, token, alone>> /\ pc[c] \in {"syncWrite", "write"}
    BY <1>5 DEF Write, ToDo
  <2> HIDE DEF n
  <2>3. CASE n = AccountsFile
    BY <2>2, <2>3 DEF PutFile, TypeOK, KeptBy, AccountsFile, Files
  <2>4. CASE n # AccountsFile
    BY <2>1, <2>2, <2>4 DEF PutFile, TypeOK, KeptBy, AllFiles, AccountsFile, Files
  <2> QED
    BY <2>3, <2>4
<1>6. CASE WriteFails(c)
  BY <1>6 DEF WriteFails, Mishap, ToDo
<1>7. CASE Restore(c)
  BY <1>7 DEF Restore, PutFile, ToDo
<1>8. CASE RestoreFails(c)
  BY <1>8 DEF RestoreFails, Mishap, ToDo
<1>9. CASE FilesDone(c)
  BY <1>9 DEF FilesDone
<1>10. CASE SyncMirror(c)
  BY <1>10 DEF SyncMirror, Release
<1>11. CASE Choose(c)
  BY <1>11 DEF Choose
<1>12. CASE NothingToSwitchTo(c)
  BY <1>12 DEF NothingToSwitchTo
<1>13. CASE LockSwitch(c)
  BY <1>13 DEF LockSwitch, TakeLock, Snapshot, ToDo
<1>14. CASE LockNext(c)
  BY <1>14 DEF LockNext, TakeLock, Snapshot, ToDo
<1>15. CASE SetSecure(c)
  BY <1>15 DEF SetSecure
<1>16. CASE SetSecureFails(c)
  <2>1. /\ pc[c] = "secure" /\ UNCHANGED <<surface, active, local, alone>>
        /\ pc' = [pc EXCEPT ![c] = "write"] \/ pc' = [pc EXCEPT ![c] = "failed"]
    BY <1>16 DEF SetSecureFails, At, Goto
  <2> QED
    BY <2>1 DEF TypeOK, KeptBy, AllFiles, local
<1>17. CASE Switched(c)
  BY <1>17 DEF Switched, Release
<1>18. CASE SecureFails(c)
  BY <1>18 DEF SecureFails, Mishap, Release
<1>19. CASE RestoreSecure(c)
  BY <1>19 DEF RestoreSecure, Release
<1>20. CASE LogOut(c)
  BY <1>20 DEF LogOut, TakeLock, Snapshot, Clear, ToDo
<1>21. CASE RemoveFile(c)
  BY <1>21, NextFileIsLeft DEF RemoveFile, PutFile, ToDo
<1>22. CASE RemoveFails(c)
  BY <1>22, NextFileIsLeft DEF RemoveFails, Mishap, ToDo
<1>23. CASE LoggedOut(c)
  BY <1>23 DEF LoggedOut, Release
<1>24. CASE Cleared(c)
  BY <1>24 DEF Cleared, ToDo
<1>25. CASE BeginLogin(c)
  BY <1>25 DEF BeginLogin, TakeLock, Snapshot
<1>26. CASE SaveFound(c)
  BY <1>26 DEF SaveFound, SaveAccount, Release
<1>27. CASE ClearForLogin(c)
  BY <1>27 DEF ClearForLogin, Clear, ToDo
<1>28. CASE LoggedIn(c)
  BY <1>28 DEF LoggedIn, SaveAccount, Release, ToDo
<1>29. CASE GiveUp(c)
  BY <1>29 DEF GiveUp, ToDo
<1>30. CASE AgyLogin(c)
  BY <1>30 DEF AgyLogin
<1>31. CASE Crash(c)
  BY <1>31 DEF Crash, Mishap
<1> QED
  BY <1>1, <1>2, <1>3, <1>4, <1>5, <1>6, <1>7, <1>8, <1>9, <1>10, <1>11, <1>12, <1>13,
     <1>14, <1>15, <1>16, <1>17, <1>18, <1>19, <1>20, <1>21, <1>22, <1>23, <1>24, <1>25,
     <1>26, <1>27, <1>28, <1>29, <1>30, <1>31 DEF Step

LEMMA PutBackByStays ==
  ASSUME NEW c \in Commands, TypeOK, PutBackBy(c), Step(c) \/ AgyLogin(c) \/ Crash(c)
  PROVE  PutBackBy(c)'
<1> USE Parameters DEF At, Goto, TypeOK, PutBackBy, Clearing, session, store, local,
     trouble, AllFiles, AccountsFile, Files
<1>1. CASE SkipSync(c)
  BY <1>1 DEF SkipSync
<1>2. CASE BeginSync(c)
  BY <1>2 DEF BeginSync, TakeLock, Snapshot
<1>3. CASE Harvest(c)
  BY <1>3, HarvestDoes, ZenonT(60) DEF Release
<1>4. CASE Compare(c)
  BY <1>4 DEF Compare, Release, ToDo, Snapshot
<1>5. CASE Write(c)
  BY <1>5, NextFileIsLeft DEF Write, PutFile, ToDo
<1>6. CASE WriteFails(c)
  BY <1>6 DEF WriteFails, Mishap, ToDo
<1>7. CASE Restore(c)
  BY <1>7 DEF Restore, PutFile, ToDo
<1>8. CASE RestoreFails(c)
  BY <1>8 DEF RestoreFails, Mishap, ToDo
<1>9. CASE FilesDone(c)
  BY <1>9 DEF FilesDone
<1>10. CASE SyncMirror(c)
  BY <1>10 DEF SyncMirror, Release
<1>11. CASE Choose(c)
  BY <1>11 DEF Choose
<1>12. CASE NothingToSwitchTo(c)
  BY <1>12 DEF NothingToSwitchTo
<1>13. CASE LockSwitch(c)
  BY <1>13 DEF LockSwitch, TakeLock, Snapshot, ToDo
<1>14. CASE LockNext(c)
  BY <1>14 DEF LockNext, TakeLock, Snapshot, ToDo
<1>15. CASE SetSecure(c)
  BY <1>15 DEF SetSecure
<1>16. CASE SetSecureFails(c)
  BY <1>16 DEF SetSecureFails, Mishap, Release
<1>17. CASE Switched(c)
  BY <1>17 DEF Switched, Release
<1>18. CASE SecureFails(c)
  BY <1>18 DEF SecureFails, Mishap, Release
<1>19. CASE RestoreSecure(c)
  BY <1>19 DEF RestoreSecure, Release
<1>20. CASE LogOut(c)
  BY <1>20 DEF LogOut, TakeLock, Snapshot, Clear, ToDo
<1>21. CASE RemoveFile(c)
  BY <1>21, NextFileIsLeft DEF RemoveFile, PutFile, ToDo
<1>22. CASE RemoveFails(c)
  BY <1>22, NextFileIsLeft DEF RemoveFails, Mishap, ToDo
<1>23. CASE LoggedOut(c)
  BY <1>23 DEF LoggedOut, Release
<1>24. CASE Cleared(c)
  <2>1. /\ \/ pc' = [pc EXCEPT ![c] = "wait"]
           \/ pc' = [pc EXCEPT ![c] = "restore"] /\ todo' = [todo EXCEPT ![c] = AllFiles]
    BY <1>24 DEF Cleared, Goto, ToDo
  <2> QED
    BY <2>1 DEF TypeOK, PutBackBy, AllFiles
<1>25. CASE BeginLogin(c)
  BY <1>25 DEF BeginLogin, TakeLock, Snapshot
<1>26. CASE SaveFound(c)
  BY <1>26 DEF SaveFound, SaveAccount, Release
<1>27. CASE ClearForLogin(c)
  BY <1>27 DEF ClearForLogin, Clear, ToDo
<1>28. CASE LoggedIn(c)
  BY <1>28 DEF LoggedIn, SaveAccount, Release, ToDo
<1>29. CASE GiveUp(c)
  BY <1>29 DEF GiveUp, ToDo
<1>30. CASE AgyLogin(c)
  BY <1>30 DEF AgyLogin
<1>31. CASE Crash(c)
  BY <1>31 DEF Crash, Mishap
<1> QED
  BY <1>1, <1>2, <1>3, <1>4, <1>5, <1>6, <1>7, <1>8, <1>9, <1>10, <1>11, <1>12, <1>13,
     <1>14, <1>15, <1>16, <1>17, <1>18, <1>19, <1>20, <1>21, <1>22, <1>23, <1>24, <1>25,
     <1>26, <1>27, <1>28, <1>29, <1>30, <1>31 DEF Step

LEMMA ChosenByStays ==
  ASSUME NEW c \in Commands, TypeOK, ChosenBy(c), Step(c) \/ AgyLogin(c) \/ Crash(c)
  PROVE  ChosenBy(c)'
<1> USE Parameters DEF At, Goto, TypeOK, ChosenBy, Holding, Syncing, Clearing, session,
     store, local, trouble, AllFiles, AccountsFile, Files
<1>1. CASE SkipSync(c)
  BY <1>1 DEF SkipSync
<1>2. CASE BeginSync(c)
  BY <1>2 DEF BeginSync, TakeLock, Snapshot
<1>3. CASE Harvest(c)
  <2> DEFINE o == Intended(seen[c].surface)
             t == [owner |-> o, age |-> Harvested(seen[c].surface)[o]]
  <2>1. /\ UNCHANGED <<session, seen, kind, todo>>
        /\ \/ pc' = [pc EXCEPT ![c] = "command"]
           \/ pc' = [pc EXCEPT ![c] = "compare"] /\ token' = [token EXCEPT ![c] = t]
    BY <1>3, HarvestDoes DEF Goto
  <2>2. t.owner = o /\ active \in {None, o}
    BY DEF Intended
  <2> HIDE DEF t, o
  <2> QED
    BY <2>1, <2>2
<1>4. CASE Compare(c)
  <2>1. CASE active = token[c].owner /\ \A f \in Files : surface[f] = token[c]
    BY <1>4, <2>1 DEF Compare, Goto, TypeOK, Holding, Syncing, Clearing, ChosenBy
  <2>2. CASE ~(active = token[c].owner /\ \A f \in Files : surface[f] = token[c])
    <3>1. At(c, "compare") /\ seen' = [seen EXCEPT ![c] = Snapshot] /\ UNCHANGED <<session, token, kind>>
      BY <1>4, <2>2 DEF Compare
    <3>2. pc' = [pc EXCEPT ![c] = "syncWrite"] /\ todo' = [todo EXCEPT ![c] = AllFiles]
      BY <1>4, <2>2 DEF Compare, Goto, ToDo
    <3> QED
      BY <3>1, <3>2 DEF Holding, Syncing, Clearing, At, Snapshot, session, TypeOK, ChosenBy,
         AllFiles
  <2> QED
    BY <2>1, <2>2
<1>5. CASE Write(c)
  BY <1>5, NextFileIsLeft DEF Write, PutFile, ToDo
<1>6. CASE WriteFails(c)
  BY <1>6 DEF WriteFails, Mishap, ToDo
<1>7. CASE Restore(c)
  BY <1>7 DEF Restore, PutFile, ToDo
<1>8. CASE RestoreFails(c)
  BY <1>8 DEF RestoreFails, Mishap, ToDo
<1>9. CASE FilesDone(c)
  BY <1>9 DEF FilesDone
<1>10. CASE SyncMirror(c)
  BY <1>10 DEF SyncMirror, Release
<1>11. CASE Choose(c)
  BY <1>11 DEF Choose
<1>12. CASE NothingToSwitchTo(c)
  BY <1>12 DEF NothingToSwitchTo
<1>13. CASE LockSwitch(c)
  BY <1>13 DEF LockSwitch, TakeLock, Snapshot, ToDo
<1>14. CASE LockNext(c)
  BY <1>14 DEF LockNext, TakeLock, Snapshot, ToDo
<1>15. CASE SetSecure(c)
  BY <1>15 DEF SetSecure
<1>16. CASE SetSecureFails(c)
  BY <1>16 DEF SetSecureFails, Mishap, Release
<1>17. CASE Switched(c)
  BY <1>17 DEF Switched, Release
<1>18. CASE SecureFails(c)
  BY <1>18 DEF SecureFails, Mishap, Release
<1>19. CASE RestoreSecure(c)
  BY <1>19 DEF RestoreSecure, Release
<1>20. CASE LogOut(c)
  BY <1>20 DEF LogOut, TakeLock, Snapshot, Clear, ToDo
<1>21. CASE RemoveFile(c)
  BY <1>21, NextFileIsLeft DEF RemoveFile, PutFile, ToDo
<1>22. CASE RemoveFails(c)
  BY <1>22, NextFileIsLeft DEF RemoveFails, Mishap, ToDo
<1>23. CASE LoggedOut(c)
  BY <1>23 DEF LoggedOut, Release
<1>24. CASE Cleared(c)
  BY <1>24 DEF Cleared, ToDo
<1>25. CASE BeginLogin(c)
  BY <1>25 DEF BeginLogin, TakeLock, Snapshot
<1>26. CASE SaveFound(c)
  BY <1>26 DEF SaveFound, SaveAccount, Release
<1>27. CASE ClearForLogin(c)
  BY <1>27 DEF ClearForLogin, Clear, ToDo
<1>28. CASE LoggedIn(c)
  BY <1>28 DEF LoggedIn, SaveAccount, Release, ToDo
<1>29. CASE GiveUp(c)
  BY <1>29 DEF GiveUp, ToDo
<1>30. CASE AgyLogin(c)
  BY <1>30 DEF AgyLogin
<1>31. CASE Crash(c)
  BY <1>31 DEF Crash, Mishap
<1> QED
  BY <1>1, <1>2, <1>3, <1>4, <1>5, <1>6, <1>7, <1>8, <1>9, <1>10, <1>11, <1>12, <1>13,
     <1>14, <1>15, <1>16, <1>17, <1>18, <1>19, <1>20, <1>21, <1>22, <1>23, <1>24, <1>25,
     <1>26, <1>27, <1>28, <1>29, <1>30, <1>31 DEF Step

LEMMA IssuedStays ==
  ASSUME NEW c \in Commands, TypeOK, Issued, Step(c) \/ AgyLogin(c) \/ Crash(c)
  PROVE  Issued'
<1> USE Parameters DEF At, Goto, TypeOK, Issued, Known, Sessions, Clearing, session,
     store, local, trouble, AllFiles, AccountsFile, Files
<1>1. CASE SkipSync(c)
  BY <1>1 DEF SkipSync
<1>2. CASE BeginSync(c)
  BY <1>2 DEF BeginSync, TakeLock, Snapshot
<1>3. CASE Harvest(c)
  <2> HIDE DEF TypeOK, Issued, Known, Sessions
  <2> DEFINE files == seen[c].surface
             o == Intended(files)
             t == [owner |-> o, age |-> Harvested(files)[o]]
  <2>1. /\ UNCHANGED <<session, saved, latest, seen>>
        /\ vault' = [p \in Owners |-> IF p \in unsaved' THEN vault[p] ELSE Harvested(files)[p]]
        /\ \/ UNCHANGED token
           \/ o \in saved /\ token' = [token EXCEPT ![c] = t]
    BY <1>3, HarvestDoes DEF LeaveAlone
  <2>2. files \in [Files -> Token \cup {None}] /\ \A f \in Files : Known(files[f])
    BY DEF TypeOK, Sessions, Issued
  <2>3. \A p \in Owners : Harvested(files)[p] \in Nat /\ Harvested(files)[p] <= latest[p]
    BY <2>2, HarvestIsKnown
  <2>7. \A p \in Owners : vault'[p] \in Nat /\ vault'[p] <= latest[p]
    BY <2>1, <2>3 DEF TypeOK, Issued
  <2>4. ASSUME o \in saved PROVE t.owner = o /\ t.age <= latest[o]
    BY <2>3, <2>4 DEF TypeOK
  <2> HIDE DEF files, o, t
  <2>5. \A d \in Commands : Known(token[d])'
    BY <2>1, <2>4 DEF TypeOK, Issued, Known
  <2> QED
    BY <2>1, <2>5, <2>7 DEF TypeOK, Issued, Known, session
<1>4. CASE Compare(c)
  <2>1. /\ UNCHANGED <<session, store, token>>
        /\ UNCHANGED seen \/ seen' = [seen EXCEPT ![c] = Snapshot]
    BY <1>4 DEF Compare
  <2>2. CASE UNCHANGED seen
    BY <2>1, <2>2 DEF Issued, Known, session, store
  <2>3. CASE seen' = [seen EXCEPT ![c] = Snapshot]
    <3>1. Snapshot.surface = surface /\ Snapshot.keyring = keyring
      BY DEF Snapshot
    <3> QED
      BY <2>1, <2>3, <3>1 DEF TypeOK, Issued, Known, session, store
  <2> QED
    BY <2>1, <2>2, <2>3
<1>5. CASE Write(c)
  <2>1. NextFile(c) \in AllFiles
    BY <1>5, NextFileIsLeft DEF Write, TypeOK
  <2>2. Known(token[c])
    BY DEF Issued, Known
  <2>3. PutFile(NextFile(c), token[c], token[c].owner) /\ UNCHANGED <<keyring, store, token, seen>>
    BY <1>5 DEF Write
  <2>4. \A g \in Files : Known(surface[g])'
    BY <2>1, <2>2, <2>3, FilesAreKnown DEF store
  <2> QED
    BY <2>3, <2>4 DEF Issued, Known, store
<1>6. CASE WriteFails(c)
  <2>1. UNCHANGED <<session, store, token, seen>>
    BY <1>6 DEF WriteFails
  <2> QED
    BY <2>1 DEF Issued, Known, session, store
<1>7. CASE Restore(c)
  <2>1. UNCHANGED <<keyring, store, token, seen>>
    BY <1>7 DEF Restore
  <2>2. PICK f \in todo[c] :
          PutFile(f, IF f \in Files THEN seen[c].surface[f] ELSE None, seen[c].active)
    BY <1>7 DEF Restore
  <2>3. f \in AllFiles /\ Known(IF f \in Files THEN seen[c].surface[f] ELSE None)
    BY DEF TypeOK, Issued, Known
  <2>4. \A g \in Files : Known(surface[g])'
    BY <2>1, <2>2, <2>3, FilesAreKnown DEF store
  <2> QED
    BY <2>1, <2>4 DEF Issued, Known, store
<1>8. CASE RestoreFails(c)
  BY <1>8 DEF RestoreFails, Mishap, ToDo
<1>9. CASE FilesDone(c)
  BY <1>9 DEF FilesDone
<1>10. CASE SyncMirror(c)
  BY <1>10 DEF SyncMirror, Release
<1>11. CASE Choose(c)
  <2> HIDE DEF TypeOK, Issued, Known, Sessions
  <2>1. UNCHANGED <<session, store, seen>>
    BY <1>11 DEF Choose
  <2>2. \/ UNCHANGED token
        \/ \E o \in saved : token' = [token EXCEPT ![c] = [owner |-> o, age |-> vault[o]]]
    BY <1>11 DEF Choose
  <2>3. \A d \in Commands : Known(token[d])'
    <3>1. CASE UNCHANGED token
      BY <2>1, <3>1 DEF Issued, Known, store
    <3>2. ASSUME NEW o \in saved, token' = [token EXCEPT ![c] = [owner |-> o, age |-> vault[o]]]
          PROVE  \A d \in Commands : Known(token[d])'
      <4> DEFINE t == [owner |-> o, age |-> vault[o]]
      <4>1. t.owner = o /\ t.age <= latest[o]
        BY DEF TypeOK, Issued
      <4>2. token' = [token EXCEPT ![c] = t]
        BY <3>2
      <4> HIDE DEF t
      <4> QED
        BY <2>1, <4>1, <4>2 DEF TypeOK, Issued, Known, store
    <3> QED
      BY <2>2, <3>1, <3>2
  <2> QED
    BY <2>1, <2>3 DEF Issued, Known, session, store
<1>12. CASE NothingToSwitchTo(c)
  BY <1>12 DEF NothingToSwitchTo
<1>13. CASE LockSwitch(c)
  BY <1>13 DEF LockSwitch, TakeLock, Snapshot, ToDo
<1>14. CASE LockNext(c)
  BY <1>14 DEF LockNext, TakeLock, Snapshot, ToDo
<1>15. CASE SetSecure(c)
  BY <1>15 DEF SetSecure
<1>16. CASE SetSecureFails(c)
  BY <1>16 DEF SetSecureFails, Mishap, Release
<1>17. CASE Switched(c)
  BY <1>17 DEF Switched, Release
<1>18. CASE SecureFails(c)
  BY <1>18 DEF SecureFails, Mishap, Release
<1>19. CASE RestoreSecure(c)
  BY <1>19 DEF RestoreSecure, Release
<1>20. CASE LogOut(c)
  BY <1>20 DEF LogOut, TakeLock, Snapshot, Clear, ToDo
<1>21. CASE RemoveFile(c)
  <2>1. NextFile(c) \in AllFiles
    BY <1>21, NextFileIsLeft DEF RemoveFile, TypeOK
  <2>2. Known(None)
    BY DEF Issued, Known
  <2>3. PutFile(NextFile(c), None, None) /\ UNCHANGED <<keyring, store, token, seen>>
    BY <1>21 DEF RemoveFile
  <2>4. \A g \in Files : Known(surface[g])'
    BY <2>1, <2>2, <2>3, FilesAreKnown DEF store
  <2> QED
    BY <2>3, <2>4 DEF Issued, Known, store
<1>22. CASE RemoveFails(c)
  BY <1>22, NextFileIsLeft DEF RemoveFails, Mishap, ToDo
<1>23. CASE LoggedOut(c)
  BY <1>23 DEF LoggedOut, Release
<1>24. CASE Cleared(c)
  BY <1>24 DEF Cleared, ToDo
<1>25. CASE BeginLogin(c)
  BY <1>25, CurrentTokenIsKnown DEF BeginLogin, TakeLock, Snapshot
<1>26. CASE SaveFound(c)
  <2>1. UNCHANGED <<session, latest, local>>
    BY <1>26 DEF SaveFound
  <2>2. UNCHANGED vault
          \/ \E f \in Files : surface[f] # None /\ vault' = [vault EXCEPT ![surface[f].owner] = surface[f].age]
    BY <1>26 DEF SaveFound, SaveAccount
  <2>3. \A o \in Owners : vault'[o] <= latest[o]
    BY <2>2 DEF TypeOK, Issued, Known
  <2> QED
    BY <2>1, <2>3 DEF Issued, Known, session, local
<1>27. CASE ClearForLogin(c)
  BY <1>27 DEF ClearForLogin, Clear, ToDo
<1>28. CASE LoggedIn(c)
  BY <1>28, CurrentTokenIsKnown DEF LoggedIn, SaveAccount, Release, ToDo
<1>29. CASE GiveUp(c)
  BY <1>29 DEF GiveUp, ToDo
<1>30. CASE AgyLogin(c)
  <2>1. PICK o \in Owners :
          LET new == [owner |-> o, age |-> latest[o] + 1] IN
          /\ latest' = [latest EXCEPT ![o] = new.age]
          /\ \/ surface' = [surface EXCEPT ![1] = new] /\ UNCHANGED keyring
             \/ ~FileStore /\ keyring' = new /\ UNCHANGED surface
    BY <1>30 DEF AgyLogin
  <2> DEFINE new == [owner |-> o, age |-> latest[o] + 1]
  <2>2. new.owner = o /\ new.age = latest[o] + 1 /\ latest[o] \in Nat
    BY DEF TypeOK
  <2>3. /\ latest' = [latest EXCEPT ![o] = latest[o] + 1]
        /\ \/ surface' = [surface EXCEPT ![1] = new] /\ UNCHANGED keyring
           \/ keyring' = new /\ UNCHANGED surface
    BY <2>1, <2>2
  <2>4. UNCHANGED <<vault, local>>
    BY <1>30 DEF AgyLogin
  <2>5. 1 \in Files
    BY Parameters DEF Files
  <2> HIDE DEF new
  <2>6. \/ (\E f \in Files : surface' = [surface EXCEPT ![f] = new]) /\ UNCHANGED keyring
        \/ keyring' = new /\ UNCHANGED surface
    BY <2>3, <2>5
  <2> QED
    BY <2>2, <2>3, <2>4, <2>6, IssuedGrows
<1>31. CASE Crash(c)
  BY <1>31 DEF Crash, Mishap
<1> QED
  BY <1>1, <1>2, <1>3, <1>4, <1>5, <1>6, <1>7, <1>8, <1>9, <1>10, <1>11, <1>12, <1>13,
     <1>14, <1>15, <1>16, <1>17, <1>18, <1>19, <1>20, <1>21, <1>22, <1>23, <1>24, <1>25,
     <1>26, <1>27, <1>28, <1>29, <1>30, <1>31 DEF Step

LEMMA GatheredByStays ==
  ASSUME NEW c \in Commands, TypeOK, Issued, Gathered, Step(c) \/ AgyLogin(c) \/ Crash(c)
  PROVE  GatheredBy(c)'
<1> USE Parameters DEF At, Goto, TypeOK, Issued, Known, Gathered, GatheredBy, IsKept,
     Sessions, Clearing, session, store, local, trouble, AllFiles, AccountsFile, Files
<1>1. CASE SkipSync(c)
  BY <1>1 DEF SkipSync
<1>2. CASE BeginSync(c)
  BY <1>2 DEF BeginSync, TakeLock, Snapshot
<1>3. CASE Harvest(c)
  <2> HIDE DEF TypeOK, Issued, Known, Sessions, Gathered, GatheredBy
  <2> DEFINE files == seen[c].surface
             o == Intended(files)
             t == [owner |-> o, age |-> Harvested(files)[o]]
  <2>1. /\ UNCHANGED <<session, saved, alone>> /\ pc[c] = "harvest"
        /\ vault' = [p \in Owners |-> IF p \in unsaved' THEN vault[p] ELSE Harvested(files)[p]]
    BY <1>3, HarvestDoes
  <2>2. files \in [Files -> Token \cup {None}] /\ \A f \in Files : Known(files[f])
    BY DEF TypeOK, Sessions, Issued
  <2>3. CASE LeaveAlone(files)
    <3>1. pc' = [pc EXCEPT ![c] = "command"]
      BY <1>3, <2>3, HarvestDoes DEF Goto
    <3> QED
      BY <3>1 DEF TypeOK, GatheredBy
  <2>4. CASE ~LeaveAlone(files)
    <3>1. pc' = [pc EXCEPT ![c] = "compare"] /\ token' = [token EXCEPT ![c] = t]
      BY <1>3, <2>4, HarvestDoes DEF Goto
    <3>2. o \in saved /\ \A f \in Files : files[f] # None => files[f].owner \in saved
      BY <2>4 DEF LeaveAlone, UnsavedSession, Matched
    <3>3. t.owner = o /\ t.age = Harvested(files)[o]
      OBVIOUS
    <3>4. ASSUME NEW f \in Files, files[f] # None
          PROVE  /\ files[f].owner \in saved
                 /\ \/ files[f].age <= vault'[files[f].owner]
                    \/ files[f].owner = o /\ files[f].age <= t.age
                    \/ files[f].owner \in unsaved' \ {o}
      <4> DEFINE lost == files[f]
      <4>1. lost.owner \in saved /\ lost.age <= Harvested(files)[lost.owner]
        BY <2>2, <3>2, <3>4, HarvestIsKnown
      <4>2. lost.owner \in Owners
        BY <4>1 DEF TypeOK
      <4>3. lost.owner \notin unsaved' => vault'[lost.owner] = Harvested(files)[lost.owner]
        BY <2>1, <4>2
      <4> HIDE DEF lost, t, files, o
      <4>4. \/ lost.age <= vault'[lost.owner]
            \/ lost.owner = o /\ lost.age <= t.age
            \/ lost.owner \in unsaved' \ {o}
        BY <3>3, <4>1, <4>3
      <4> QED
        BY <4>1, <4>4 DEF lost
    <3>5. alone => files = surface
      BY <2>1 DEF Gathered, GatheredBy
    <3> HIDE DEF o, t, files
    <3>6. pc'[c] = "compare" /\ token'[c] = t /\ saved' = saved /\ alone' = alone
          /\ surface' = surface
      BY <2>1, <3>1 DEF TypeOK, session
    <3>7. alone => \A f \in Files : IsKept(surface[f], token[c])'
      BY <3>3, <3>4, <3>5, <3>6 DEF IsKept
    <3> QED
      BY <3>2, <3>3, <3>6, <3>7 DEF GatheredBy
  <2> QED
    BY <2>3, <2>4
<1>4. CASE Compare(c)
  BY <1>4 DEF Compare, Release, ToDo, Snapshot
<1>5. CASE Write(c)
  <2> DEFINE n == NextFile(c)
  <2>1. PutFile(n, token[c], token[c].owner)
    BY <1>5 DEF Write
  <2>2. /\ UNCHANGED <<store, pc, token, seen, alone>> /\ pc[c] \in {"syncWrite", "write"}
    BY <1>5 DEF Write
  <2> HIDE DEF n
  <2>3. \A f \in Files : surface'[f] \in {surface[f], token[c]}
    BY <2>1 DEF PutFile, TypeOK
  <2>4. pc[c] = "syncWrite" => IsKept(token[c], token[c])
    <3>1. token[c] \in Token /\ (pc[c] = "syncWrite" => token[c].owner \in saved)
      BY <2>2 DEF TypeOK, Writing, Gathered, GatheredBy
    <3>2. token[c].age \in Nat
      BY <3>1, TokenIsTyped
    <3>3. token[c].age <= token[c].age
      BY <3>2
    <3> QED
      BY <3>1, <3>3 DEF IsKept
  <2>5. UNCHANGED unsaved
    BY <1>5 DEF Write, trouble
  <2> QED
    BY <2>2, <2>3, <2>4, <2>5, ZenonT(60) DEF Gathered, GatheredBy, IsKept, store
<1>6. CASE WriteFails(c)
  BY <1>6 DEF WriteFails, Mishap, ToDo
<1>7. CASE Restore(c)
  BY <1>7 DEF Restore, PutFile, ToDo
<1>8. CASE RestoreFails(c)
  BY <1>8 DEF RestoreFails, Mishap, ToDo
<1>9. CASE FilesDone(c)
  BY <1>9 DEF FilesDone
<1>10. CASE SyncMirror(c)
  BY <1>10 DEF SyncMirror, Release
<1>11. CASE Choose(c)
  BY <1>11 DEF Choose
<1>12. CASE NothingToSwitchTo(c)
  BY <1>12 DEF NothingToSwitchTo
<1>13. CASE LockSwitch(c)
  BY <1>13 DEF LockSwitch, TakeLock, Snapshot, ToDo
<1>14. CASE LockNext(c)
  BY <1>14 DEF LockNext, TakeLock, Snapshot, ToDo
<1>15. CASE SetSecure(c)
  BY <1>15 DEF SetSecure
<1>16. CASE SetSecureFails(c)
  BY <1>16 DEF SetSecureFails, Mishap, Release
<1>17. CASE Switched(c)
  BY <1>17 DEF Switched, Release
<1>18. CASE SecureFails(c)
  BY <1>18 DEF SecureFails, Mishap, Release
<1>19. CASE RestoreSecure(c)
  BY <1>19 DEF RestoreSecure, Release
<1>20. CASE LogOut(c)
  BY <1>20 DEF LogOut, TakeLock, Snapshot, Clear, ToDo
<1>21. CASE RemoveFile(c)
  BY <1>21, NextFileIsLeft DEF RemoveFile, PutFile, ToDo
<1>22. CASE RemoveFails(c)
  BY <1>22, NextFileIsLeft DEF RemoveFails, Mishap, ToDo
<1>23. CASE LoggedOut(c)
  BY <1>23 DEF LoggedOut, Release
<1>24. CASE Cleared(c)
  BY <1>24 DEF Cleared, ToDo
<1>25. CASE BeginLogin(c)
  BY <1>25 DEF BeginLogin, TakeLock, Snapshot
<1>26. CASE SaveFound(c)
  BY <1>26 DEF SaveFound, SaveAccount, Release
<1>27. CASE ClearForLogin(c)
  BY <1>27 DEF ClearForLogin, Clear, ToDo
<1>28. CASE LoggedIn(c)
  BY <1>28 DEF LoggedIn, SaveAccount, Release, ToDo
<1>29. CASE GiveUp(c)
  BY <1>29 DEF GiveUp, ToDo
<1>30. CASE AgyLogin(c)
  BY <1>30 DEF AgyLogin
<1>31. CASE Crash(c)
  BY <1>31 DEF Crash, Mishap
<1> QED
  BY <1>1, <1>2, <1>3, <1>4, <1>5, <1>6, <1>7, <1>8, <1>9, <1>10, <1>11, <1>12, <1>13,
     <1>14, <1>15, <1>16, <1>17, <1>18, <1>19, <1>20, <1>21, <1>22, <1>23, <1>24, <1>25,
     <1>26, <1>27, <1>28, <1>29, <1>30, <1>31 DEF Step

LEMMA IssuedStaysOutside ==
  ASSUME TypeOK, Issued, AgyRefresh \/ AgySignIn \/ AgySignOut \/ QuotaRefresh
  PROVE  Issued'
<1> USE Parameters DEF TypeOK, Issued, Known, Sessions, session, store, local, trouble
<1>1. CASE AgyRefresh
  <2>1. PICK o \in Owners, f \in Files :
          /\ latest' = [latest EXCEPT ![o] = @ + 1]
          /\ surface' = [surface EXCEPT ![f] = [owner |-> o, age |-> latest[o] + 1]]
    BY <1>1 DEF AgyRefresh
  <2> DEFINE new == [owner |-> o, age |-> latest[o] + 1]
  <2>2. new.owner = o /\ new.age = latest[o] + 1
    OBVIOUS
  <2>3. latest' = [latest EXCEPT ![o] = latest[o] + 1] /\ surface' = [surface EXCEPT ![f] = new]
    BY <2>1
  <2>4. UNCHANGED <<keyring, vault, local>>
    BY <1>1 DEF AgyRefresh
  <2> HIDE DEF new
  <2> QED
    BY <2>2, <2>3, <2>4, IssuedGrows
<1>2. CASE AgySignIn
  <2>1. PICK o \in Owners \ saved, f \in Files :
          /\ latest' = [latest EXCEPT ![o] = @ + 1]
          /\ surface' = [surface EXCEPT ![f] = [owner |-> o, age |-> latest[o] + 1]]
    BY <1>2 DEF AgySignIn
  <2> DEFINE new == [owner |-> o, age |-> latest[o] + 1]
  <2>2. new.owner = o /\ new.age = latest[o] + 1
    OBVIOUS
  <2>3. latest' = [latest EXCEPT ![o] = latest[o] + 1] /\ surface' = [surface EXCEPT ![f] = new]
    BY <2>1
  <2>4. UNCHANGED <<keyring, vault, local>>
    BY <1>2 DEF AgySignIn
  <2> HIDE DEF new
  <2> QED
    BY <2>2, <2>3, <2>4, IssuedGrows
<1>3. CASE AgySignOut
  BY <1>3 DEF AgySignOut, Outside
<1>4. CASE QuotaRefresh
  <2>1. PICK o \in saved : /\ latest' = [latest EXCEPT ![o] = @ + 1]
                           /\ vault' = [vault EXCEPT ![o] = latest[o] + 1]
    BY <1>4 DEF QuotaRefresh
  <2>2. UNCHANGED <<session, local>> /\ o \in Owners
    BY <1>4 DEF QuotaRefresh, TypeOK
  <2>3. /\ latest' \in [Owners -> Nat] /\ \A p \in Owners : latest[p] <= latest'[p]
        /\ \A p \in Owners : vault'[p] <= latest'[p]
    BY <2>1, <2>2 DEF TypeOK, Issued
  <2> QED
    BY <2>2, <2>3, IssuedLasts
<1> QED
  BY <1>1, <1>2, <1>3, <1>4

\* What Antigravity does leaves the commands and the active account alone, and is
\* noticed where it writes the files.
LEMMA OutsideIsSeen ==
  ASSUME TypeOK, Issued, AgyRefresh \/ AgySignIn \/ AgySignOut \/ QuotaRefresh
  PROVE  /\ UNCHANGED <<active, keyring, saved, lock, pc, local, unsaved>>
         /\ alone' => alone /\ UNCHANGED surface
         /\ \A o \in Owners : vault[o] \in Nat /\ vault'[o] \in Nat /\ vault[o] <= vault'[o]
<1>1. /\ UNCHANGED <<active, keyring, saved, lock, pc, local, unsaved>>
      /\ alone' => alone /\ UNCHANGED surface
  BY DEF AgyRefresh, AgySignIn, AgySignOut, QuotaRefresh, Outside, store, session
<1>2. \A o \in Owners : vault[o] \in Nat /\ vault'[o] \in Nat /\ vault[o] <= vault'[o]
  BY DEF AgyRefresh, AgySignIn, AgySignOut, QuotaRefresh, store, TypeOK, Issued
<1> QED
  BY <1>1, <1>2

\* Which account is active is changed by those who may.
LEMMA ActiveStays ==
  ASSUME NEW c \in Commands, TypeOK, Locked, Chosen, Step(c) \/ AgyLogin(c) \/ Crash(c)
  PROVE  active \in {None, active'} \/ (lock = c /\ kind[c] # "reconcile" /\ pc[c] \notin Syncing)
<1> USE Parameters DEF At, Goto, TypeOK, Locked, Chosen, ChosenBy, Holding, Syncing,
     Clearing, session, store, local, trouble, AllFiles, AccountsFile, Files
<1>1. CASE SkipSync(c)
  BY <1>1 DEF SkipSync
<1>2. CASE BeginSync(c)
  BY <1>2 DEF BeginSync, TakeLock, Snapshot
<1>3. CASE Harvest(c)
  BY <1>3, HarvestDoes, ZenonT(60) DEF Release
<1>4. CASE Compare(c)
  BY <1>4 DEF Compare, Release, ToDo, Snapshot
<1>5. CASE Write(c)
  BY <1>5, NextFileIsLeft DEF Write, PutFile, ToDo
<1>6. CASE WriteFails(c)
  BY <1>6 DEF WriteFails, Mishap, ToDo
<1>7. CASE Restore(c)
  BY <1>7 DEF Restore, PutFile, ToDo
<1>8. CASE RestoreFails(c)
  BY <1>8 DEF RestoreFails, Mishap, ToDo
<1>9. CASE FilesDone(c)
  BY <1>9 DEF FilesDone
<1>10. CASE SyncMirror(c)
  BY <1>10 DEF SyncMirror, Release
<1>11. CASE Choose(c)
  BY <1>11 DEF Choose
<1>12. CASE NothingToSwitchTo(c)
  BY <1>12 DEF NothingToSwitchTo
<1>13. CASE LockSwitch(c)
  BY <1>13 DEF LockSwitch, TakeLock, Snapshot, ToDo
<1>14. CASE LockNext(c)
  BY <1>14 DEF LockNext, TakeLock, Snapshot, ToDo
<1>15. CASE SetSecure(c)
  BY <1>15 DEF SetSecure
<1>16. CASE SetSecureFails(c)
  BY <1>16 DEF SetSecureFails, Mishap, Release
<1>17. CASE Switched(c)
  BY <1>17 DEF Switched, Release
<1>18. CASE SecureFails(c)
  BY <1>18 DEF SecureFails, Mishap, Release
<1>19. CASE RestoreSecure(c)
  BY <1>19 DEF RestoreSecure, Release
<1>20. CASE LogOut(c)
  BY <1>20 DEF LogOut, TakeLock, Snapshot, Clear, ToDo
<1>21. CASE RemoveFile(c)
  BY <1>21, NextFileIsLeft DEF RemoveFile, PutFile, ToDo
<1>22. CASE RemoveFails(c)
  BY <1>22, NextFileIsLeft DEF RemoveFails, Mishap, ToDo
<1>23. CASE LoggedOut(c)
  BY <1>23 DEF LoggedOut, Release
<1>24. CASE Cleared(c)
  BY <1>24 DEF Cleared, ToDo
<1>25. CASE BeginLogin(c)
  BY <1>25 DEF BeginLogin, TakeLock, Snapshot
<1>26. CASE SaveFound(c)
  BY <1>26 DEF SaveFound, SaveAccount, Release
<1>27. CASE ClearForLogin(c)
  BY <1>27 DEF ClearForLogin, Clear, ToDo
<1>28. CASE LoggedIn(c)
  BY <1>28 DEF LoggedIn, SaveAccount, Release, ToDo
<1>29. CASE GiveUp(c)
  BY <1>29 DEF GiveUp, ToDo
<1>30. CASE AgyLogin(c)
  BY <1>30 DEF AgyLogin
<1>31. CASE Crash(c)
  BY <1>31 DEF Crash, Mishap
<1> QED
  BY <1>1, <1>2, <1>3, <1>4, <1>5, <1>6, <1>7, <1>8, <1>9, <1>10, <1>11, <1>12, <1>13,
     <1>14, <1>15, <1>16, <1>17, <1>18, <1>19, <1>20, <1>21, <1>22, <1>23, <1>24, <1>25,
     <1>26, <1>27, <1>28, <1>29, <1>30, <1>31 DEF Step

\* A command that puts the session back ends with the OS store put back, unless
\* it could not be.
LEMMA RestoringEnds ==
  ASSUME NEW c \in Commands, TypeOK, pc[c] = "restoreSecure", pc'[c] = "failed", alone',
         Step(c) \/ AgyLogin(c) \/ Crash(c)
  PROVE  RestoreSecure(c)
<1> USE Parameters DEF At, Goto, TypeOK, Clearing
<1>1. CASE SkipSync(c)
  BY <1>1 DEF SkipSync
<1>2. CASE BeginSync(c)
  BY <1>2 DEF BeginSync, TakeLock, Snapshot
<1>3. CASE Harvest(c)
  BY <1>3, HarvestDoes, ZenonT(60) DEF Release
<1>4. CASE Compare(c)
  BY <1>4 DEF Compare, Release, ToDo, Snapshot
<1>5. CASE Write(c)
  BY <1>5 DEF Write, PutFile, ToDo
<1>6. CASE WriteFails(c)
  BY <1>6 DEF WriteFails, Mishap, ToDo
<1>7. CASE Restore(c)
  BY <1>7 DEF Restore, PutFile, ToDo
<1>8. CASE RestoreFails(c)
  BY <1>8 DEF RestoreFails, Mishap, ToDo
<1>9. CASE FilesDone(c)
  BY <1>9 DEF FilesDone
<1>10. CASE SyncMirror(c)
  BY <1>10 DEF SyncMirror, Release
<1>11. CASE Choose(c)
  BY <1>11 DEF Choose
<1>12. CASE NothingToSwitchTo(c)
  BY <1>12 DEF NothingToSwitchTo
<1>13. CASE LockSwitch(c)
  BY <1>13 DEF LockSwitch, TakeLock, Snapshot, ToDo
<1>14. CASE LockNext(c)
  BY <1>14 DEF LockNext, TakeLock, Snapshot, ToDo
<1>15. CASE SetSecure(c)
  BY <1>15 DEF SetSecure
<1>16. CASE SetSecureFails(c)
  BY <1>16 DEF SetSecureFails, Mishap, Release
<1>17. CASE Switched(c)
  BY <1>17 DEF Switched, Release
<1>18. CASE SecureFails(c)
  BY <1>18 DEF SecureFails, Mishap, Release
<1>19. CASE RestoreSecure(c)
  BY <1>19
<1>20. CASE LogOut(c)
  BY <1>20 DEF LogOut, TakeLock, Snapshot, Clear, ToDo
<1>21. CASE RemoveFile(c)
  BY <1>21 DEF RemoveFile, PutFile, ToDo
<1>22. CASE RemoveFails(c)
  BY <1>22 DEF RemoveFails, Mishap, ToDo
<1>23. CASE LoggedOut(c)
  BY <1>23 DEF LoggedOut, Release
<1>24. CASE Cleared(c)
  BY <1>24 DEF Cleared, ToDo
<1>25. CASE BeginLogin(c)
  BY <1>25 DEF BeginLogin, TakeLock, Snapshot
<1>26. CASE SaveFound(c)
  BY <1>26 DEF SaveFound, SaveAccount, Release
<1>27. CASE ClearForLogin(c)
  BY <1>27 DEF ClearForLogin, Clear, ToDo
<1>28. CASE LoggedIn(c)
  BY <1>28 DEF LoggedIn, SaveAccount, Release, ToDo
<1>29. CASE GiveUp(c)
  BY <1>29 DEF GiveUp, ToDo
<1>30. CASE AgyLogin(c)
  BY <1>30 DEF AgyLogin
<1>31. CASE Crash(c)
  BY <1>31 DEF Crash, Mishap
<1> QED
  BY <1>1, <1>2, <1>3, <1>4, <1>5, <1>6, <1>7, <1>8, <1>9, <1>10, <1>11, <1>12, <1>13,
     <1>14, <1>15, <1>16, <1>17, <1>18, <1>19, <1>20, <1>21, <1>22, <1>23, <1>24, <1>25,
     <1>26, <1>27, <1>28, <1>29, <1>30, <1>31 DEF Step

-----------------------------------------------------------------------------
(* The invariant *)

LEMMA SessionStarts == Init => SessionInv
<1> SUFFICES ASSUME Init PROVE SessionInv
  OBVIOUS
<1> USE Parameters
<1>1. PICK plan \in Plans : platform = plan.platform /\ kind = plan.kind
  BY DEF Init
<1>2. vault \in [Owners -> Nat] /\ \A o \in Owners : vault[o] = IF o \in saved THEN 1 ELSE 0
  BY DEF Init
<1>3. surface \in [Files -> Token \cup {None}]
  BY TokenIsMade DEF Init
<1>4. \A f \in Files : Known(surface[f])
  <2>1. CASE active = None
    BY <2>1 DEF Init, Known
  <2>2. CASE active # None
    <3>1. active \in saved /\ active \in Owners /\ latest[active] = 1
      BY <1>2, <2>2 DEF Init
    <3> DEFINE t == [owner |-> active, age |-> 1]
    <3>2. t.owner = active /\ t.age = 1
      OBVIOUS
    <3>3. \A f \in Files : surface[f] = t
      BY <2>2 DEF Init
    <3> HIDE DEF t
    <3> QED
      BY <3>1, <3>2, <3>3 DEF Known
  <2> QED
    BY <2>1, <2>2
<1>5. keyring \in Token \cup {None} /\ Known(keyring)
  <2>1. 1 \in Files
    BY DEF Files
  <2> QED
    BY <1>3, <1>4, <2>1 DEF Init, Known
<1>6. Snapshot \in Sessions /\ Snapshot.surface = surface /\ Snapshot.keyring = keyring
  BY <1>3, <1>5 DEF Init, Snapshot, Sessions
<1>7. TypeOK
  <2>1. platform \in Platforms /\ kind \in [Commands -> Kinds]
    BY <1>1
  <2>2. pc \in [Commands -> Labels] /\ \A c \in Commands : pc[c] \notin Writing
    BY DEF Init, Labels, Writing
  <2>3. seen \in [Commands -> Sessions] /\ \A c \in Commands : seen[c] = Snapshot
    BY <1>6 DEF Init
  <2> QED
    BY <1>2, <1>3, <1>5, <2>1, <2>2, <2>3 DEF Init, TypeOK
<1>8. Issued
  BY <1>2, <1>4, <1>5, <1>6 DEF Init, Issued, Known
<1>9. Locked
  BY DEF Init, Locked, Holding, Syncing, Clearing
<1>10. Kept /\ PutBack /\ Chosen /\ Gathered
  BY DEF Init, Kept, KeptBy, PutBack, PutBackBy, Chosen, ChosenBy, Gathered, GatheredBy,
     Holding, Syncing, Clearing
<1> QED
  BY <1>7, <1>8, <1>9, <1>10 DEF SessionInv

LEMMA SessionGoesOn == SessionInv /\ [Next]_vars => SessionInv'
<1> SUFFICES ASSUME SessionInv, [Next]_vars PROVE SessionInv'
  OBVIOUS
<1> USE DEF SessionInv
<1>1. ASSUME NEW c \in Commands, Step(c) \/ AgyLogin(c) \/ Crash(c), UNCHANGED platform
      PROVE  SessionInv'
  <2>1. TypeOK' /\ Issued' /\ Locked'
    BY <1>1, TypesStay, IssuedStays, LockStays
  <2>2. KeptBy(c)' /\ PutBackBy(c)' /\ ChosenBy(c)' /\ GatheredBy(c)'
    BY <1>1, KeptByStays, PutBackByStays, ChosenByStays, GatheredByStays
       DEF Kept, PutBack, Chosen
  <2>3. ASSUME NEW d \in Commands \ {c}
        PROVE  KeptBy(d)' /\ PutBackBy(d)' /\ ChosenBy(d)' /\ GatheredBy(d)'
    <3>1. /\ pc'[d] = pc[d] /\ token'[d] = token[d] /\ seen'[d] = seen[d]
          /\ todo'[d] = todo[d] /\ kind'[d] = kind[d]
      BY <1>1, OthersStay
    <3>2. KeptBy(d) /\ PutBackBy(d) /\ ChosenBy(d) /\ GatheredBy(d)
      BY DEF Kept, PutBack, Chosen, Gathered
    <3>3. CASE pc[d] \in Holding
      <4>1. UNCHANGED <<session, store, unsaved, alone>>
        BY <1>1, <3>3, OthersWait
      <4>2. UNCHANGED <<surface, active, saved, vault, unsaved, alone>>
        BY <4>1 DEF session, store
      <4>3. KeptBy(d)' /\ PutBackBy(d)'
        BY <3>1, <3>2, <4>2 DEF KeptBy, PutBackBy
      <4>4. ChosenBy(d)'
        BY <3>1, <3>2, <4>2 DEF ChosenBy
      <4>5. GatheredBy(d)'
        BY <3>1, <3>2, <4>2 DEF GatheredBy, IsKept
      <4> QED
        BY <4>3, <4>4, <4>5
    <3>4. CASE pc[d] \notin Holding
      BY <3>1, <3>2, <3>4 DEF KeptBy, PutBackBy, ChosenBy, GatheredBy, Holding, Syncing
    <3> QED
      BY <3>3, <3>4
  <2> QED
    BY <2>1, <2>2, <2>3 DEF Kept, PutBack, Chosen, Gathered
<1>2. ASSUME AgyRefresh \/ AgySignIn \/ AgySignOut \/ QuotaRefresh, UNCHANGED platform
      PROVE  SessionInv'
  <2>1. TypeOK' /\ Issued'
    BY <1>2, TypesStayOutside, IssuedStaysOutside
  <2>2. /\ UNCHANGED <<active, keyring, saved, lock, pc, local, unsaved>>
        /\ alone' => alone /\ UNCHANGED surface
        /\ \A o \in Owners : vault[o] \in Nat /\ vault'[o] \in Nat /\ vault[o] <= vault'[o]
    BY <1>2, OutsideIsSeen
  <2>3. Locked' /\ Kept' /\ PutBack' /\ Chosen'
    BY <2>2 DEF Locked, Kept, KeptBy, PutBack, PutBackBy, Chosen, ChosenBy, local
  <2>4. ASSUME NEW t \in Token \cup {None}, NEW new, IsKept(t, new)
        PROVE  \/ t = None
               \/ /\ t.owner \in saved'
                  /\ \/ t.age <= vault'[t.owner]
                     \/ t.owner = new.owner /\ t.age <= new.age
                     \/ t.owner \in unsaved' \ {new.owner}
    <3>1. CASE t = None
      BY <3>1
    <3>2. CASE t # None
      <4>1. t.owner \in Owners /\ t.age \in Nat
        BY <3>2, TokenIsTyped
      <4>2. t.age <= vault[t.owner] => t.age <= vault'[t.owner]
        BY <2>2, <4>1
      <4> QED
        BY <2>2, <2>4, <3>2, <4>2 DEF IsKept
    <3> QED
      BY <3>1, <3>2
  <2>5. ASSUME NEW d \in Commands PROVE GatheredBy(d)'
    <3>1. GatheredBy(d)
      BY DEF Gathered
    <3>2. token[d] \in Token \cup {None} /\ \A f \in Files : surface[f] \in Token \cup {None}
      BY DEF TypeOK
    <3> QED
      <4>1. /\ pc' = pc /\ token' = token /\ seen' = seen /\ saved' = saved
            /\ alone' => alone /\ surface' = surface
        BY <2>2 DEF local
      <4>2. ASSUME alone', pc[d] \in {"compare", "syncWrite"}, NEW f \in Files
            PROVE  IsKept(surface[f], token[d])'
        <5>1. IsKept(surface[f], token[d])
          BY <3>1, <4>1, <4>2 DEF GatheredBy
        <5> QED
          BY <2>4, <3>2, <4>1, <4>2, <5>1 DEF IsKept
      <4> QED
        BY <3>1, <4>1, <4>2 DEF GatheredBy
  <2> QED
    BY <2>1, <2>3, <2>5 DEF Gathered
<1>3. CASE UNCHANGED vars
  BY <1>3 DEF vars, session, store, local, trouble, TypeOK, Issued, Known, Locked, Kept, KeptBy,
     PutBack, PutBackBy, Chosen, ChosenBy, Gathered, GatheredBy, IsKept
<1> QED
  BY <1>1, <1>2, <1>3 DEF Next, AllEnded

LEMMA SessionInvariant == Spec => []SessionInv
BY SessionStarts, SessionGoesOn, PTL DEF Spec

-----------------------------------------------------------------------------
(* What follows *)

\* All programs are signed in to the account a command has written, with the same
\* token, if nobody but agy-swap has touched the session since it took the lock
\* (writeOAuthFiles, whoever died halfway before).
THEOREM SessionsAgree == Spec => []SurfacesAgree
<1>1. SessionInv => SurfacesAgree
  BY DEF SessionInv, Kept, KeptBy, SurfacesAgree
<1> QED
  BY <1>1, SessionInvariant, PTL

\* Only a switch, a login or a logout changes which account is active where one
\* is: neither Antigravity nor a reconciliation does (Intended of
\* reconcileActiveSession).
THEOREM ChosenAccountStays == Spec => ChoiceStays
<1>1. SessionInv /\ [Next]_vars =>
        (active \notin {None, active'} =>
           \E c \in Commands : lock = c /\ kind[c] # "reconcile" /\ pc[c] \notin
             {"harvest", "compare", "syncWrite", "syncRestore", "syncMirror"})
  <2> SUFFICES ASSUME SessionInv, [Next]_vars, active \notin {None, active'}
               PROVE  \E c \in Commands : lock = c /\ kind[c] # "reconcile" /\ pc[c] \notin Syncing
    BY DEF Syncing
  <2>1. CASE \E c \in Commands : Step(c) \/ AgyLogin(c) \/ Crash(c)
    BY <2>1, ActiveStays DEF SessionInv
  <2>2. CASE AgyRefresh \/ AgySignIn \/ AgySignOut \/ QuotaRefresh
    BY <2>2, OutsideIsSeen DEF SessionInv
  <2>3. CASE UNCHANGED vars
    BY <2>3 DEF vars, session
  <2> QED
    BY <2>1, <2>2, <2>3 DEF Next, AllEnded
<1> QED
  BY <1>1, SessionInvariant, PTL DEF Spec, ChoiceStays

\* While nobody else writes the files, what a reconciliation overwrites in a token
\* file is in the vault or is what it writes, or an older token of the same account.
\* The one exception is a token of another saved account whose saving has failed:
\* reconcileActiveSession ignores the errors of saveAccountSecret and Save.
THEOREM OverwrittenTokensAreSaved == Spec => SyncLosesNoToken
<1>1. SessionInv /\ [Next]_vars =>
        \A c \in Commands, f \in Files :
          pc[c] = "syncWrite" /\ pc'[c] = "syncWrite" /\ alone /\ surface'[f] # surface[f] =>
            LET lost == surface[f] IN
            \/ lost = None
            \/ /\ lost.owner \in saved
               /\ \/ lost.age <= vault[lost.owner]
                  \/ lost.owner = token[c].owner /\ lost.age <= token[c].age
                  \/ lost.owner \in unsaved \ {token[c].owner}
  BY DEF SessionInv, Gathered, GatheredBy, IsKept
<1> QED
  BY <1>1, SessionInvariant, PTL DEF Spec, SyncLosesNoToken

\* A switch or a login that does not go through has put every file back, and the
\* OS store where that has the session, unless a file could not be written or
\* somebody else wrote the files (restoreFiles and the deferred restore of
\* addLoginFlow).
THEOREM FailuresAreUndone == Spec => FailureRestores
<1>1. SessionInv /\ [Next]_vars =>
        \A c \in Commands :
          pc[c] = "restoreSecure" /\ pc'[c] = "failed" /\ alone' =>
            /\ surface' = seen[c].surface /\ active' = seen[c].active
            /\ FileStore \/ keyring' = seen[c].keyring
  <2> SUFFICES ASSUME SessionInv, [Next]_vars, NEW c \in Commands,
                      pc[c] = "restoreSecure", pc'[c] = "failed", alone'
               PROVE  /\ surface' = seen[c].surface /\ active' = seen[c].active
                      /\ FileStore \/ keyring' = seen[c].keyring
    OBVIOUS
  <2> USE DEF SessionInv
  <2>1. CASE Step(c) \/ AgyLogin(c) \/ Crash(c)
    <3>1. RestoreSecure(c)
      BY <2>1, RestoringEnds
    <3>2. alone /\ UNCHANGED <<surface, active>> /\ (FileStore \/ keyring' = seen[c].keyring)
      BY <3>1 DEF RestoreSecure
    <3>3. active = seen[c].active /\ \A f \in Files : surface[f] = seen[c].surface[f]
      BY <3>2 DEF PutBack, PutBackBy, AccountsFile
    <3>4. surface = seen[c].surface
      BY <3>3 DEF TypeOK, Sessions
    <3> QED
      BY <3>2, <3>3, <3>4
  <2>2. ASSUME NEW d \in Commands \ {c}, Step(d) \/ AgyLogin(d) \/ Crash(d) PROVE FALSE
    BY <2>2, OthersStay
  <2>3. CASE AgyRefresh \/ AgySignIn \/ AgySignOut \/ QuotaRefresh
    BY <2>3, OutsideIsSeen
  <2>4. CASE UNCHANGED vars
    BY <2>4 DEF vars
  <2> QED
    BY <2>1, <2>2, <2>3, <2>4 DEF Next, AllEnded
<1> QED
  BY <1>1, SessionInvariant, PTL DEF Spec, FailureRestores
====
