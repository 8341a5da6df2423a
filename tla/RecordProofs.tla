------------------------------ MODULE RecordProofs ------------------------------
(***************************************************************************)
(* The records agy-swap keeps beside the accounts: what it has learned     *)
(* from the logs of agy, what watch has told the user, and the history.    *)
(***************************************************************************)
EXTENDS LogScan, Watch, History, LeastNumber, FiniteSetTheorems, SequenceTheorems, TLAPS

-----------------------------------------------------------------------------
(* The cache of the log scanner *)

AgyModels == Models \cup {NoOne, OtherModel}

Line == [what: {"email", "model", "send", "response", "error", "complete"},
         text: Emails \cup AgyModels, request: Requests \cup {0},
         email: Emails \cup {NoOne}, model: AgyModels]

LogTypeOK ==
  /\ log \in [lines: Seq(Line), file: Nat, logged: Nat]
  /\ agyState \in [email: Emails \cup {NoOne}, model: AgyModels,
                   requests: [Requests -> [email: Emails \cup {NoOne}, model: AgyModels]]]
  /\ scanner \in [pc: {"idle", "read"}, file: Nat, size: Nat]
  /\ cache.file \in Nat /\ cache.size \in Nat

\* A file only grows while it keeps its number, so that what was read of it up
\* to a size stays what it has up to that size.
CacheInv ==
  /\ LogTypeOK
  /\ scanner.pc = "read" =>
       /\ scanner.file <= log.file
       /\ scanner.file = log.file => scanner.size <= Len(log.lines)
  /\ cache.file <= log.file
  /\ cache.file = log.file => cache.size <= Len(log.lines)
  /\ CacheIsCurrent

LEMMA LogStarts == LogInit => CacheInv
<1> SUFFICES ASSUME LogInit PROVE CacheInv
  OBVIOUS
<1>1. PICK e \in Emails, m \in Models,
           before \in {<<>>, <<Told("email", CHOOSE f \in Emails : TRUE)>>} :
        log = [lines |-> before \o <<Told("email", e), Told("model", m)>>, file |-> 1, logged |-> 0]
          /\ agyState = [email |-> e, model |-> m, requests |-> [r \in Requests |-> Idle]]
  BY DEF LogInit
<1>2. \A f \in Emails : Told("email", f) \in Line
  BY DEF Told, Line, AgyModels
<1>3. Told("model", m) \in Line
  BY DEF Told, Line, AgyModels
<1>4. before \in Seq(Line)
  <2> DEFINE someone == CHOOSE f \in Emails : TRUE
  <2>1. someone \in Emails
    OBVIOUS
  <2>2. before \in {<<>>, <<Told("email", someone)>>}
    BY <1>1
  <2> HIDE DEF someone
  <2>3. Told("email", someone) \in Line
    BY <1>2, <2>1
  <2>4. CASE before = <<>>
    BY <2>4
  <2>5. CASE before = <<Told("email", someone)>>
    BY <2>3, <2>5
  <2> QED
    BY <2>2, <2>4, <2>5
<1>5. before \o <<Told("email", e), Told("model", m)>> \in Seq(Line)
  BY <1>2, <1>3, <1>4
<1>6. LogTypeOK
  BY <1>1, <1>5 DEF LogInit, LogTypeOK, Idle, AgyModels
<1> QED
  BY <1>1, <1>6 DEF LogInit, CacheInv, CacheIsCurrent

LEMMA LoggingStays ==
  ASSUME CacheInv, NEW what \in {"email", "model", "send", "response", "error", "complete"},
         NEW text \in Emails \cup AgyModels, NEW request \in Requests \cup {0},
         NEW of \in [email: Emails \cup {NoOne}, model: AgyModels],
         Log(what, text, request, of)
  PROVE  /\ log' \in [lines: Seq(Line), file: Nat, logged: Nat]
         /\ log'.file = log.file /\ Len(log'.lines) = Len(log.lines) + 1
         /\ UNCHANGED <<scanner, cache>>
<1> DEFINE line == [what |-> what, text |-> text, request |-> request,
                    email |-> of.email, model |-> of.model]
<1>1. line \in Line
  BY DEF Line
<1>2. log' = [log EXCEPT !.logged = @ + 1, !.lines = Append(@, line)]
  BY DEF Log
<1> HIDE DEF line
<1>3. Append(log.lines, line) \in Seq(Line) /\ Len(Append(log.lines, line)) = Len(log.lines) + 1
  BY <1>1 DEF CacheInv, LogTypeOK
<1>4. log' = [lines |-> Append(log.lines, line), file |-> log.file, logged |-> log.logged + 1]
  BY <1>2 DEF CacheInv, LogTypeOK
<1>5. log.file \in Nat /\ log.logged + 1 \in Nat
  BY DEF CacheInv, LogTypeOK
<1>6. log' \in [lines: Seq(Line), file: Nat, logged: Nat]
  BY <1>3, <1>4, <1>5
<1> QED
  BY <1>3, <1>4, <1>6 DEF Log

\* A line more makes what the cache has of this file too old.
LEMMA GrownStays ==
  ASSUME CacheInv, LogTypeOK', log'.file = log.file, Len(log'.lines) = Len(log.lines) + 1,
         UNCHANGED <<scanner, cache>>
  PROVE  CacheInv'
<1>1. Len(log.lines) \in Nat
  BY DEF CacheInv, LogTypeOK
<1> QED
  BY <1>1 DEF CacheInv, LogTypeOK, CacheIsCurrent

LEMMA LogStays == CacheInv /\ [LogNext]_logVars => CacheInv'
<1> SUFFICES ASSUME CacheInv, [LogNext]_logVars PROVE CacheInv'
  OBVIOUS
<1> USE DEF CacheInv, LogTypeOK, AgyModels
<1> Idle \in [email: Emails \cup {NoOne}, model: AgyModels]
  BY DEF Idle
<1>1. ASSUME NEW e \in Emails, LogIn(e) PROVE CacheInv'
  BY <1>1, LoggingStays, GrownStays DEF LogIn
<1>2. ASSUME NEW m \in Models \cup {OtherModel}, NameModel(m) PROVE CacheInv'
  BY <1>2, LoggingStays, GrownStays DEF NameModel
<1>3. ASSUME NEW r \in Requests, Send(r) PROVE CacheInv'
  <2> DEFINE of == [email |-> agyState.email, model |-> agyState.model]
  <2>1. of \in [email: Emails \cup {NoOne}, model: AgyModels] /\ Log("send", NoOne, r, of)
    BY <1>3 DEF Send
  <2>2. LogTypeOK'
    <3>1. agyState' = [agyState EXCEPT !.requests[r] = of]
      BY <1>3 DEF Send
    <3>2. agyState' \in [email: Emails \cup {NoOne}, model: AgyModels,
                        requests: [Requests -> [email: Emails \cup {NoOne}, model: AgyModels]]]
      <4> HIDE DEF of
      <4> QED
        BY <2>1, <3>1
    <3> HIDE DEF of
    <3> QED
      BY <2>1, <3>2, LoggingStays
  <2> HIDE DEF of
  <2> QED
    BY <2>1, <2>2, LoggingStays, GrownStays
<1>4. ASSUME NEW r \in Requests, Answer(r) PROVE CacheInv'
  <2>1. PICK what \in {"response", "error"} : Log(what, NoOne, 0, agyState.requests[r])
    BY <1>4 DEF Answer
  <2> DEFINE of == agyState.requests[r]
  <2>2. /\ of \in [email: Emails \cup {NoOne}, model: AgyModels]
        /\ what \in {"email", "model", "send", "response", "error", "complete"}
        /\ NoOne \in Emails \cup AgyModels /\ 0 \in Requests \cup {0}
        /\ Log(what, NoOne, 0, of)
    BY <2>1
  <2> HIDE DEF of
  <2>3. /\ log' \in [lines: Seq(Line), file: Nat, logged: Nat]
        /\ log'.file = log.file /\ Len(log'.lines) = Len(log.lines) + 1
        /\ UNCHANGED <<scanner, cache>>
    <3> HIDE DEF CacheInv, LogTypeOK
    <3> QED
      BY <2>2, LoggingStays
  <2>4. agyState' = agyState
    BY <1>4 DEF Answer
  <2> QED
    BY <2>3, <2>4, GrownStays
<1>5. ASSUME NEW r \in Requests, Complete(r) PROVE CacheInv'
  BY <1>5, LoggingStays, GrownStays DEF Complete
<1>6. CASE Rotate
  <2>1. log' = [lines |-> <<>>, file |-> log.file + 1, logged |-> log.logged]
    BY <1>6 DEF Rotate
  <2>2. <<>> \in Seq(Line) /\ log.file + 1 \in Nat /\ log.logged \in Nat
    OBVIOUS
  <2>3. log' \in [lines: Seq(Line), file: Nat, logged: Nat] /\ log'.file = log.file + 1
    BY <2>1, <2>2
  <2> QED
    BY <1>6, <2>3 DEF Rotate, CacheIsCurrent
<1>7. CASE Discover
  BY <1>7 DEF Discover, CacheIsCurrent
<1>8. CASE ReadLog
  BY <1>8 DEF ReadLog, CacheIsCurrent
<1>9. CASE ReadLogFails
  BY <1>9 DEF ReadLogFails, CacheIsCurrent
<1>10. CASE UNCHANGED logVars
  BY <1>10 DEF logVars, CacheIsCurrent
<1> QED
  BY <1>1, <1>2, <1>3, <1>4, <1>5, <1>6, <1>7, <1>8, <1>9, <1>10 DEF LogNext

\* What the scanner remembers of a file it would find again, whatever is logged
\* and replaced between its look at the file and its reading (logs.go:135-163).
THEOREM CacheStaysCurrent == LogSpec => []CacheIsCurrent
<1>1. CacheInv => CacheIsCurrent
  BY DEF CacheInv
<1> QED
  BY <1>1, LogStarts, LogStays, PTL DEF LogSpec

-----------------------------------------------------------------------------
(* What watch tells *)

Memory == [sent: [Notices -> Nat], last: [Groups -> 0..2]]

WatchTypeOK ==
  /\ watch \in WatchPlans
  /\ snapshot \in [levels: [Groups -> Levels], at: Nat, verify: BOOLEAN]
  /\ state \in Memory
  /\ watcher \in [Watchers -> [pc: {"wait", "tell", "save"}, state: Memory, failed: BOOLEAN, at: Nat]]
  /\ tried \in [Notices -> Nat] /\ lost \in SUBSET Notices
  /\ clock \in 1..MaxClock

\* The times are right but for those a fault has lost, and these are too early.
Right(sent) == \A n \in Notices \ lost : sent[n] = tried[n]
Early(sent) == \A n \in Notices : sent[n] # Never => tried[n] # Never /\ sent[n] <= tried[n]

\* What a watcher that is alone has in the file and in its memory.
Remembered(w) ==
  watch = {w} =>
    /\ Early(state.sent) /\ Early(watcher[w].state.sent)
    /\ watcher[w].pc # "save" => Right(state.sent)
    /\ watcher[w].pc # "wait" => Right(watcher[w].state.sent)
    /\ \A n \in Notices : tried[n] # Never => tried[n] <= watcher[w].at

WatchInv ==
  /\ WatchTypeOK
  /\ \A w \in Watchers : /\ w \notin watch => watcher[w].pc = "wait"
                         /\ watcher[w].at <= clock
                         /\ Remembered(w)

LEMMA LeastIsAGroup == ASSUME NEW levels \in [Groups -> Levels] PROVE Minimum(levels) \in Groups
<1> USE WatchParameters DEF Levels
<1> DEFINE Lowest == {g \in Groups : \A h \in Groups : levels[g] <= levels[h]}
<1>1. Lowest # {}
  <2>1. CASE \E g \in Groups : levels[g] = 0
    BY <2>1
  <2>2. CASE \A g \in Groups : levels[g] = 1
    BY <2>2
  <2> QED
    BY <2>1, <2>2
<1>2. PICK g \in Lowest : \A h \in Lowest : g <= h
  BY <1>1, LeastNatural
<1>3. \A h \in Groups : levels[g] < levels[h] \/ (levels[g] = levels[h] /\ g <= h)
  BY <1>2
<1> QED
  BY <1>2, <1>3 DEF Minimum

LEMMA NothingKnownYet ==
  /\ NoState \in Memory /\ Never \in Nat /\ MaxClock < Never
  /\ \A n \in Notices : NoState.sent[n] = Never
BY WatchParameters DEF NoState, Memory, Never, Unseen

LEMMA WatchStarts == WatchInit => WatchInv
<1> SUFFICES ASSUME WatchInit PROVE WatchInv
  OBVIOUS
<1>1. WatchTypeOK
  BY WatchParameters, NothingKnownYet DEF WatchInit, WatchTypeOK, Levels
<1>2. \A n \in Notices : state.sent[n] = Never /\ tried[n] = Never
  BY NothingKnownYet DEF WatchInit
<1>3. \A w \in Watchers : watcher[w].pc = "wait" /\ watcher[w].state = state /\ watcher[w].at <= clock
  BY DEF WatchInit
<1> QED
  BY <1>1, <1>2, <1>3 DEF WatchInv, Remembered, Early, Right

\* What a watcher remembers after it has told the user.
LEMMA TellingIsRemembered ==
  ASSUME WatchInv, NEW w \in Watchers, Tell(w)
  PROVE  /\ watcher' = [watcher EXCEPT ![w] =
                          [@ EXCEPT !.pc = "save", !.state = watcher'[w].state]]
         /\ watcher'[w].state \in Memory /\ tried' \in [Notices -> Nat]
         /\ watcher[w].pc = "tell"
         /\ \A n \in Notices :
              /\ tried'[n] = IF n \in Reasons(w) /\ Due(watcher[w].state, n, watcher[w].at)
                               THEN watcher[w].at ELSE tried[n]
              /\ watcher'[w].state.sent[n] =
                   IF n \in Reasons(w) /\ Due(watcher[w].state, n, watcher[w].at)
                     THEN watcher[w].at ELSE watcher[w].state.sent[n]
<1> DEFINE memory == watcher[w].state
           at == watcher[w].at
           due == {n \in Reasons(w) : Due(memory, n, at)}
           sent == [n \in Notices |-> IF n \in due THEN at ELSE memory.sent[n]]
           last == IF Known THEN [memory.last EXCEPT ![Least] = snapshot.levels[Least]]
                   ELSE memory.last
<1>1. /\ watcher' = [watcher EXCEPT ![w].pc = "save", ![w].state = [sent |-> sent, last |-> last]]
      /\ tried' = [n \in Notices |-> IF n \in due THEN at ELSE tried[n]]
      /\ watcher[w].pc = "tell"
  BY DEF Tell
<1>2. memory \in Memory /\ at \in Nat
  BY DEF WatchInv, WatchTypeOK
<1>3. sent \in [Notices -> Nat] /\ tried' \in [Notices -> Nat]
  BY <1>1, <1>2 DEF Memory, WatchInv, WatchTypeOK
<1>4. last \in [Groups -> 0..2]
  <2>1. Least \in Groups /\ snapshot.levels[Least] \in 0..2
    BY LeastIsAGroup DEF Least, Levels, WatchInv, WatchTypeOK
  <2> HIDE DEF memory
  <2> QED
    BY <1>2, <2>1 DEF Memory
<1>5. [sent |-> sent, last |-> last] \in Memory
  BY <1>3, <1>4 DEF Memory
<1>6. watcher'[w].state = [sent |-> sent, last |-> last]
  BY <1>1 DEF WatchInv, WatchTypeOK
<1>7. watcher' = [watcher EXCEPT ![w] = [@ EXCEPT !.pc = "save", !.state = watcher'[w].state]]
  BY <1>1, <1>6 DEF WatchInv, WatchTypeOK
<1>8. \A n \in Notices : n \in due <=> n \in Reasons(w) /\ Due(memory, n, at)
  OBVIOUS
<1>9. ASSUME NEW n \in Notices
      PROVE  /\ tried'[n] = IF n \in due THEN at ELSE tried[n]
             /\ watcher'[w].state.sent[n] = IF n \in due THEN at ELSE memory.sent[n]
  <2> HIDE DEF due, memory, at, last
  <2> QED
    BY <1>1, <1>6
<1>10. watcher'[w].state \in Memory
  <2> HIDE DEF sent, last
  <2> QED
    BY <1>5, <1>6
<1> HIDE DEF due
<1> QED
  BY <1>1, <1>3, <1>7, <1>8, <1>9, <1>10

LEMMA WatchStays == WatchInv /\ [WatchNext]_watchVars => WatchInv'
<1> SUFFICES ASSUME WatchInv, [WatchNext]_watchVars PROVE WatchInv'
  OBVIOUS
<1> USE DEF WatchInv, WatchTypeOK
<1> DEFINE Knows == [pc: {"wait", "tell", "save"}, state: Memory, failed: BOOLEAN, at: Nat]
<1>0. ASSUME NEW w \in Watchers, NEW new \in Knows, watcher' = [watcher EXCEPT ![w] = new],
             new.at <= clock, w \in watch, watch' = watch, clock' = clock, WatchTypeOK',
             watch = {w} => Remembered(w)'
      PROVE  WatchInv'
  <2>1. watcher'[w] = new /\ \A v \in Watchers \ {w} : watcher'[v] = watcher[v]
    BY <1>0
  <2>2. ASSUME NEW v \in Watchers PROVE Remembered(v)'
    <3>1. CASE watch = {w}
      BY <1>0, <3>1 DEF Remembered
    <3>2. CASE watch # {w}
      BY <1>0, <3>2 DEF Remembered
    <3> QED
      BY <3>1, <3>2
  <2> QED
    BY <1>0, <2>1, <2>2
<1>1. ASSUME NEW w \in Watchers, ReadQuota(w) PROVE WatchInv'
  <2>1. PICK outcome \in {"read", "refused", "failed"}, loaded \in {state, NoState} :
          /\ \/ /\ outcome = "read"
                /\ \E levels \in [Groups -> Levels] :
                     snapshot' = [levels |-> levels, at |-> clock, verify |-> FALSE]
             \/ outcome = "refused" /\ snapshot' = [snapshot EXCEPT !.verify = TRUE]
             \/ outcome = "failed" /\ UNCHANGED snapshot
          /\ watcher' = [watcher EXCEPT ![w] =
               [pc |-> "tell", state |-> loaded, failed |-> outcome = "failed", at |-> clock]]
          /\ lost' = lost \cup {n \in Notices : loaded.sent[n] # state.sent[n]}
    BY <1>1 DEF ReadQuota
  <2>2. snapshot' \in [levels: [Groups -> Levels], at: Nat, verify: BOOLEAN]
    <3>1. CASE outcome = "read"
      <4>1. PICK levels \in [Groups -> Levels] :
              snapshot' = [levels |-> levels, at |-> clock, verify |-> FALSE]
        BY <2>1, <3>1
      <4> QED
        BY <4>1
    <3>2. CASE outcome = "refused"
      BY <2>1, <3>2
    <3>3. CASE outcome = "failed"
      BY <2>1, <3>3
    <3> QED
      BY <3>1, <3>2, <3>3
  <2> DEFINE new == [pc |-> "tell", state |-> loaded, failed |-> outcome = "failed", at |-> clock]
  <2>3. new \in Knows
    BY NothingKnownYet
  <2>4. watcher' \in [Watchers -> Knows] /\ watcher'[w] = new
    BY <2>1, <2>3
  <2>5. UNCHANGED <<watch, state, tried, clock>> /\ w \in watch /\ watcher[w].pc = "wait"
    BY <1>1 DEF ReadQuota
  <2>6. WatchTypeOK'
    BY <2>1, <2>2, <2>4, <2>5
  <2>7. ASSUME watch = {w} PROVE Remembered(w)'
    <3>1. Early(state.sent) /\ Right(state.sent)
          /\ \A n \in Notices : tried[n] # Never => tried[n] <= clock
      BY <2>5, <2>7 DEF Remembered
    <3>2. \A n \in Notices : loaded.sent[n] = state.sent[n] \/ loaded.sent[n] = Never
      BY NothingKnownYet
    <3>3. \A n \in Notices \ lost' : loaded.sent[n] = state.sent[n] /\ n \notin lost
      BY <2>1
    <3>4. Early(state.sent)' /\ Right(state.sent)'
      BY <2>5, <3>1, <3>3 DEF Early, Right
    <3>5. Early(watcher[w].state.sent)' /\ Right(watcher[w].state.sent)'
      BY <2>4, <2>5, <3>1, <3>2, <3>3 DEF Early, Right
    <3> QED
      BY <2>4, <2>5, <3>1, <3>4, <3>5 DEF Remembered
  <2>8. new.at <= clock /\ watcher' = [watcher EXCEPT ![w] = new]
    BY <2>1
  <2> HIDE DEF new, WatchInv, WatchTypeOK
  <2> QED
    BY <1>0, <2>3, <2>5, <2>6, <2>7, <2>8
<1>2. ASSUME NEW w \in Watchers, Tell(w) PROVE WatchInv'
  <2>1. /\ watcher' = [watcher EXCEPT ![w] =
                         [@ EXCEPT !.pc = "save", !.state = watcher'[w].state]]
        /\ watcher'[w].state \in Memory /\ tried' \in [Notices -> Nat]
        /\ watcher[w].pc = "tell"
        /\ \A n \in Notices :
             /\ tried'[n] = IF n \in Reasons(w) /\ Due(watcher[w].state, n, watcher[w].at)
                              THEN watcher[w].at ELSE tried[n]
             /\ watcher'[w].state.sent[n] =
                  IF n \in Reasons(w) /\ Due(watcher[w].state, n, watcher[w].at)
                    THEN watcher[w].at ELSE watcher[w].state.sent[n]
    BY <1>2, TellingIsRemembered
  <2> DEFINE new == [watcher[w] EXCEPT !.pc = "save", !.state = watcher'[w].state]
  <2>2. new \in Knows /\ watcher' \in [Watchers -> Knows] /\ watcher'[w] = new
        /\ new.at = watcher[w].at /\ new.pc = "save"
    <3>1. watcher[w] \in Knows
      OBVIOUS
    <3>2. new \in Knows /\ new.at = watcher[w].at /\ new.pc = "save"
      BY <2>1, <3>1
    <3>3. watcher' = [watcher EXCEPT ![w] = new]
      BY <2>1
    <3> HIDE DEF new
    <3> QED
      BY <3>2, <3>3
  <2>3. UNCHANGED <<watch, snapshot, state, lost, clock>> /\ w \in watch
    BY <1>2, <2>1 DEF Tell
  <2>4. WatchTypeOK'
    BY <2>1, <2>2, <2>3
  <2>5. ASSUME watch = {w} PROVE Remembered(w)'
    <3>1. /\ Early(state.sent) /\ Early(watcher[w].state.sent) /\ Right(watcher[w].state.sent)
          /\ \A n \in Notices : tried[n] # Never => tried[n] <= watcher[w].at
      BY <2>1, <2>5 DEF Remembered
    <3>2. watcher[w].at # Never /\ watcher[w].at \in Nat
      <4>1. watcher[w].at <= clock /\ clock <= MaxClock /\ watcher[w].at \in Nat
        BY WatchParameters
      <4> QED
        BY <4>1, NothingKnownYet, WatchParameters
    <3>3. state.sent \in [Notices -> Nat] /\ watcher[w].state.sent \in [Notices -> Nat]
      BY DEF Memory
    <3>4. Early(state.sent)'
      BY <2>1, <2>3, <3>1, <3>2, <3>3 DEF Early
    <3>5. Early(watcher[w].state.sent)' /\ Right(watcher[w].state.sent)'
      BY <2>1, <2>3, <3>1, <3>2, <3>3 DEF Early, Right
    <3>6. \A n \in Notices : tried'[n] # Never => tried'[n] <= watcher'[w].at
      <4> HIDE DEF new
      <4>1. watcher'[w].at = watcher[w].at
        BY <2>2
      <4> QED
        BY <2>1, <3>1, <3>2, <4>1
    <3> QED
      BY <2>2, <2>3, <3>4, <3>5, <3>6 DEF Remembered
  <2> QED
    BY <1>0, <2>1, <2>2, <2>3, <2>4, <2>5, ZenonT(60)
\* A watcher that ends its round, with what it leaves in the file.
<1>3. ASSUME NEW w \in Watchers, Forget(w), watcher[w].pc \in {"tell", "save"},
             UNCHANGED <<watch, snapshot, tried, clock>>, lost' \subseteq Notices, state' \in Memory,
             watch = {w} => Early(state.sent)' /\ Right(state.sent)'
      PROVE  WatchInv'
  <2> DEFINE new == [watcher[w] EXCEPT !.pc = "wait", !.state = NoState]
  <2>1. /\ new \in Knows /\ new.pc = "wait" /\ new.state = NoState /\ new.at = watcher[w].at
        /\ watcher' = [watcher EXCEPT ![w] = new]
    <3>1. watcher[w] \in Knows /\ NoState \in Memory
      BY NothingKnownYet
    <3>2. /\ new \in Knows /\ new.pc = "wait" /\ new.state = NoState /\ new.at = watcher[w].at
      BY <3>1
    <3> QED
      BY <1>3, <3>2 DEF Forget
  <2>2. watcher' \in [Watchers -> Knows] /\ watcher'[w] = new /\ w \in watch
    BY <1>3, <2>1
  <2>3. WatchTypeOK'
    BY <1>3, <2>2
  <2>4. ASSUME watch = {w} PROVE Remembered(w)'
    <3>1. \A n \in Notices : tried[n] # Never => tried[n] <= watcher[w].at
      BY <2>4 DEF Remembered
    <3>2. Early(watcher[w].state.sent)'
      BY <2>1, <2>2, NothingKnownYet DEF Early
    <3> QED
      BY <1>3, <2>1, <2>2, <2>4, <3>1, <3>2 DEF Remembered
  <2> QED
    BY <1>0, <1>3, <2>1, <2>2, <2>3, <2>4
<1>4. ASSUME NEW w \in Watchers, SaveState(w) PROVE WatchInv'
  <2>1. /\ state' = watcher[w].state /\ UNCHANGED <<watch, snapshot, tried, clock>> /\ Forget(w)
        /\ watcher[w].pc = "save" /\ lost' = {n \in lost : watcher[w].state.sent[n] # tried[n]}
    BY <1>4 DEF SaveState
  <2>2. ASSUME watch = {w} PROVE Early(state.sent)' /\ Right(state.sent)'
    <3>1. Early(watcher[w].state.sent) /\ Right(watcher[w].state.sent)
      BY <2>1, <2>2 DEF Remembered
    <3> QED
      BY <2>1, <3>1 DEF Early, Right
  <2> QED
    BY <1>3, <2>1, <2>2
<1>5. ASSUME NEW w \in Watchers, SaveFails(w) \/ KillWatcher(w) PROVE WatchInv'
  <2>1. /\ UNCHANGED <<watch, snapshot, state, tried, clock>> /\ Forget(w)
        /\ watcher[w].pc \in {"tell", "save"}
        /\ lost' = IF watcher[w].pc = "save" THEN lost \cup Unsaved(w) ELSE lost
    BY <1>5 DEF SaveFails, KillWatcher
  <2>2. lost' \subseteq Notices /\ lost \subseteq lost'
    BY <2>1 DEF Unsaved
  <2>3. ASSUME watch = {w} PROVE Early(state.sent)' /\ Right(state.sent)'
    <3>1. Early(state.sent)'
      BY <2>1, <2>3 DEF Remembered, Early
    <3>2. CASE watcher[w].pc = "tell"
      BY <2>1, <2>3, <3>1, <3>2 DEF Remembered, Right
    <3>3. CASE watcher[w].pc = "save"
      <4>1. Right(watcher[w].state.sent)
        BY <2>3, <3>3 DEF Remembered
      <4>2. \A n \in Notices \ lost' : n \notin lost /\ watcher[w].state.sent[n] = state.sent[n]
        BY <2>1, <3>3 DEF Unsaved
      <4> QED
        BY <2>1, <3>1, <4>1, <4>2 DEF Right
    <3> QED
      BY <2>1, <3>2, <3>3
  <2> QED
    BY <1>3, <2>1, <2>2, <2>3
<1>6. CASE TimeGoesOn
  BY <1>6, WatchParameters DEF TimeGoesOn, Remembered, Early, Right
<1>7. CASE UNCHANGED watchVars
  BY <1>7 DEF watchVars, Remembered, Early, Right
<1> QED
  BY <1>1, <1>2, <1>4, <1>5, <1>6, <1>7 DEF WatchNext

\* A watcher that is alone runs the command of what there is to tell, and not
\* again within its cooldown but for what a fault has lost, for any pools, any
\* cooldown and any number of rounds, saves that fail and ends (history.go:311-348,
\* 396-434).
THEOREM WatchTellsInTime == WatchSpec => ToldInTime
<1> DEFINE Seldom == LoneWatcher => \A n \in Notices \ lost :
             tried'[n] # tried[n] /\ tried[n] # Never => tried'[n] >= tried[n] + Cooldown
           Heard(w, n) == tried'[n] # Never /\ tried'[n] + Cooldown > watcher[w].at
           Tells1 == LoneWatcher => \A w \in Watchers : watcher[w].pc = "tell" /\ watcher'[w].pc = "save" =>
             (Known => /\ Low => Heard(w, <<Least, "low">>)
                       /\ ~Low /\ watcher[w].state = state /\ state.last[Least] = 0 =>
                            Heard(w, <<Least, "reset">>))
<1>1. WatchInv /\ [WatchNext]_watchVars => [Seldom]_watchVars
  <2> SUFFICES ASSUME WatchInv, WatchNext, NEW w \in Watchers, watch = {w},
                      NEW n \in Notices \ lost, tried'[n] # tried[n], tried[n] # Never
               PROVE  tried'[n] >= tried[n] + Cooldown
    BY DEF LoneWatcher
  <2>1. PICK v \in Watchers : Tell(v)
    BY DEF WatchNext, ReadQuota, SaveState, SaveFails, KillWatcher, TimeGoesOn
  <2>2. v = w /\ watcher[w].state.sent[n] = tried[n]
    BY <2>1 DEF WatchInv, Tell, Remembered, Right
  <2>3. tried'[n] = watcher[w].at /\ Due(watcher[w].state, n, watcher[w].at)
    BY <2>1, <2>2, TellingIsRemembered
  <2>4. tried[n] \in Nat /\ watcher[w].at \in Nat
    BY DEF WatchInv, WatchTypeOK
  <2> QED
    BY <2>2, <2>3, <2>4, WatchParameters DEF Due
<1>2. WatchInv /\ [WatchNext]_watchVars => [Tells1]_watchVars
  <2> SUFFICES ASSUME WatchInv, WatchNext, LoneWatcher,
                      NEW w \in Watchers, watcher[w].pc = "tell", watcher'[w].pc = "save", Known
               PROVE  /\ Low => Heard(w, <<Least, "low">>)
                      /\ ~Low /\ watcher[w].state = state /\ state.last[Least] = 0 =>
                           Heard(w, <<Least, "reset">>)
    OBVIOUS
  <2>1. Tell(w)
    <3> USE DEF WatchInv, WatchTypeOK
    <3>1. CASE TimeGoesOn
      BY <3>1 DEF TimeGoesOn
    <3>2. ASSUME NEW v \in Watchers, ReadQuota(v) PROVE FALSE
      <4>1. watcher[v].pc = "wait" /\ \E new : watcher' = [watcher EXCEPT ![v] = new]
        BY <3>2 DEF ReadQuota
      <4> QED
        BY <4>1, <3>2 DEF ReadQuota
    <3>3. ASSUME NEW v \in Watchers, Forget(v) PROVE FALSE
      BY <3>3 DEF Forget
    <3>4. ASSUME NEW v \in Watchers, Tell(v) PROVE v = w
      BY <3>4, TellingIsRemembered
    <3> QED
      BY <3>1, <3>2, <3>3, <3>4 DEF WatchNext, SaveState, SaveFails, KillWatcher
  <2>2. Early(watcher[w].state.sent)
    <3>1. PICK v \in Watchers : watch = {v}
      BY DEF LoneWatcher
    <3>2. v = w
      BY <3>1 DEF WatchInv
    <3> QED
      BY <3>1, <3>2 DEF WatchInv, Remembered
  <2>3. watcher[w].at \in Nat /\ watcher[w].at # Never /\ watcher[w].at + Cooldown > watcher[w].at
    BY WatchParameters DEF WatchInv, WatchTypeOK, Never
  <2>4. tried \in [Notices -> Nat] /\ watcher[w].state.sent \in [Notices -> Nat]
    BY DEF WatchInv, WatchTypeOK, Memory
  <2>5. ASSUME NEW n \in Reasons(w), n \in Notices PROVE Heard(w, n)
    <3>1. tried'[n] = IF Due(watcher[w].state, n, watcher[w].at) THEN watcher[w].at ELSE tried[n]
      BY <2>1, <2>5, TellingIsRemembered
    <3>2. CASE Due(watcher[w].state, n, watcher[w].at)
      BY <2>3, <3>1, <3>2
    <3>3. CASE ~Due(watcher[w].state, n, watcher[w].at)
      <4>1. watcher[w].state.sent[n] # Never /\ watcher[w].state.sent[n] + Cooldown > watcher[w].at
        BY <2>3, <2>4, <2>5, <3>3, WatchParameters DEF Due
      <4>2. tried[n] # Never /\ watcher[w].state.sent[n] <= tried[n]
        BY <2>2, <2>5, <4>1 DEF Early
      <4> QED
        BY <2>3, <2>4, <2>5, <3>1, <3>3, <4>1, <4>2, WatchParameters
    <3> QED
      BY <3>2, <3>3
  <2>6. Least \in Groups
    BY LeastIsAGroup DEF Least, WatchInv, WatchTypeOK
  <2>7. <<Least, "low">> \in Notices /\ <<Least, "reset">> \in Notices
    BY <2>6 DEF Notices
  <2>8. Low => <<Least, "low">> \in Reasons(w)
    BY <2>7 DEF Reasons
  <2>9. ~Low /\ watcher[w].state = state /\ state.last[Least] = 0 => <<Least, "reset">> \in Reasons(w)
    BY <2>7 DEF Reasons
  <2> QED
    BY <2>5, <2>7, <2>8, <2>9
<1>3. WatchSpec => [][Seldom]_watchVars
  BY <1>1, WatchStarts, WatchStays, PTL DEF WatchSpec
<1>4. WatchSpec => [][Tells1]_watchVars
  BY <1>2, WatchStarts, WatchStays, PTL DEF WatchSpec
<1>5. NotTooOften <=> [][Seldom]_watchVars
  BY DEF NotTooOften
<1>6. NobodyMissesIt <=> [][Tells1]_watchVars
  BY DEF NobodyMissesIt
<1> QED
  BY <1>3, <1>4, <1>5, <1>6 DEF ToldInTime

-----------------------------------------------------------------------------
(* The history *)

HistoryLine == [by: HistoryProcesses \cup {"cut off", "spoiled"}, at: Nat]

Next1(read, sofar, n) ==
  IF read[n] \in Garbage \/ Old(read[n]) THEN sofar ELSE Append(sofar, read[n])

LEMMA SiftedExists ==
  ASSUME NEW read, NEW m \in Nat
  PROVE  \E f : f = [n \in 0..m |-> IF n = 0 THEN <<>> ELSE Next1(read, f[n - 1], n)]
<1> DEFINE Upto(k, f) == f = [n \in 0..k |-> IF n = 0 THEN <<>> ELSE Next1(read, f[n - 1], n)]
           S == {k \in 0..m : \E f : Upto(k, f)}
<1>1. 0 \in S
  <2>1. Upto(0, [n \in 0..0 |-> <<>>])
    OBVIOUS
  <2>2. 0 \in 0..m
    OBVIOUS
  <2> HIDE DEF Upto
  <2> QED
    BY <2>1, <2>2
<1>2. ASSUME NEW k \in 1..m, k - 1 \in S PROVE k \in S
  <2>1. PICK f : Upto(k - 1, f)
    BY <1>2
  <2> DEFINE g == [n \in 0..k |-> IF n = k THEN Next1(read, f[k - 1], k) ELSE f[n]]
  <2>2. ASSUME NEW n \in 0..k
        PROVE  g[n] = IF n = 0 THEN <<>> ELSE Next1(read, g[n - 1], n)
    <3>1. CASE n = k
      BY <1>2, <3>1
    <3>2. CASE n # k
      <4>1. n \in 0..k - 1 /\ f[n] = IF n = 0 THEN <<>> ELSE Next1(read, f[n - 1], n)
        BY <1>2, <2>1, <3>2
      <4>2. n # 0 => g[n - 1] = f[n - 1]
        BY <1>2, <3>2
      <4> QED
        BY <3>2, <4>1, <4>2
    <3> QED
      BY <3>1, <3>2
  <2>3. Upto(k, g)
    BY <2>2
  <2>4. k \in 0..m
    BY <1>2
  <2> HIDE DEF Upto, g
  <2> QED
    BY <2>3, <2>4
<1>3. m \in S
  <2> HIDE DEF S
  <2> QED
    BY <1>1, <1>2, CountingUp
<1> QED
  BY <1>3

LEMMA SiftedDef ==
  ASSUME NEW read, Len(read) \in Nat, NEW n \in 0..Len(read)
  PROVE  Sifted(read)[n] = IF n = 0 THEN <<>> ELSE Next1(read, Sifted(read)[n - 1], n)
<1>1. Sifted(read) = CHOOSE f : f = [k \in 0..Len(read) |->
                                      IF k = 0 THEN <<>> ELSE Next1(read, f[k - 1], k)]
  BY DEF Sifted, Next1
<1>2. Sifted(read) = [k \in 0..Len(read) |->
                        IF k = 0 THEN <<>> ELSE Next1(read, Sifted(read)[k - 1], k)]
  BY <1>1, SiftedExists
<1> QED
  BY <1>2

\* What remains of n lines has every line that is worth keeping, no further from
\* the end than it was.
LEMMA SiftedKeeps ==
  ASSUME NEW read \in Seq(HistoryLine), NEW n \in 0..Len(read)
  PROVE  /\ Sifted(read)[n] \in Seq(HistoryLine)
         /\ \A i \in 1..n : read[i] \notin Garbage /\ ~Old(read[i]) =>
              \E j \in 1..Len(Sifted(read)[n]) :
                /\ Sifted(read)[n][j] = read[i]
                /\ Len(Sifted(read)[n]) - j <= n - i
<1> DEFINE kept(k) == Sifted(read)[k]
           Good(k) == /\ kept(k) \in Seq(HistoryLine)
                      /\ \A i \in 1..k : read[i] \notin Garbage /\ ~Old(read[i]) =>
                           \E j \in 1..Len(kept(k)) :
                             kept(k)[j] = read[i] /\ Len(kept(k)) - j <= k - i
           S == {k \in 0..Len(read) : Good(k)}
<1>1. 0 \in S
  <2>1. 0 \in 0..Len(read) /\ Len(read) \in Nat
    OBVIOUS
  <2>2. kept(0) = <<>>
    BY <2>1, SiftedDef
  <2>3. kept(0) \in Seq(HistoryLine)
    BY <2>2
  <2>4. 1..0 = {}
    OBVIOUS
  <2>5. Good(0)
    BY <2>3, <2>4, Zenon
  <2> HIDE DEF Good
  <2> QED
    BY <2>1, <2>5
<1>2. ASSUME NEW k \in 1..Len(read), k - 1 \in S PROVE k \in S
  <2>1. k - 1 \in 0..Len(read) /\ k \in 0..Len(read)
    OBVIOUS
  <2>2. kept(k - 1) \in Seq(HistoryLine) /\ Good(k - 1)
    BY <1>2
  <2>3. kept(k) = Next1(read, kept(k - 1), k)
    BY <2>1, SiftedDef
  <2>4. read[k] \in HistoryLine
    OBVIOUS
  <2> DEFINE before == kept(k - 1)
             after == kept(k)
  <2>5. CASE read[k] \in Garbage \/ Old(read[k])
    <3>1. after = before
      BY <2>3, <2>5 DEF Next1
    <3>2. ASSUME NEW i \in 1..k, read[i] \notin Garbage /\ ~Old(read[i])
          PROVE  \E j \in 1..Len(after) : after[j] = read[i] /\ Len(after) - j <= k - i
      <4>1. i \in 1..k - 1
        BY <2>5, <3>2
      <4>2. PICK j \in 1..Len(before) : before[j] = read[i] /\ Len(before) - j <= (k - 1) - i
        BY <2>2, <3>2, <4>1
      <4> HIDE DEF before, after
      <4> QED
        BY <2>2, <3>1, <4>1, <4>2
    <3> QED
      BY <2>1, <2>2, <3>1, <3>2
  <2>6. CASE ~(read[k] \in Garbage \/ Old(read[k]))
    <3>1. after = Append(before, read[k])
      BY <2>3, <2>6 DEF Next1
    <3>2. /\ after \in Seq(HistoryLine) /\ Len(after) = Len(before) + 1
          /\ after[Len(after)] = read[k]
          /\ \A j \in 1..Len(before) : after[j] = before[j]
      <4> HIDE DEF before, after
      <4>1. before \in Seq(HistoryLine)
        BY <2>2 DEF before
      <4> QED
        BY <2>4, <3>1, <4>1
    <3>3. ASSUME NEW i \in 1..k, read[i] \notin Garbage /\ ~Old(read[i])
          PROVE  \E j \in 1..Len(after) : after[j] = read[i] /\ Len(after) - j <= k - i
      <4> Len(before) \in Nat
        BY <2>2
      <4>1. CASE i = k
        <5> HIDE DEF before, after
        <5> QED
          BY <3>2, <4>1
      <4>2. CASE i # k
        <5>1. i \in 1..k - 1
          BY <4>2
        <5>2. PICK j \in 1..Len(before) : before[j] = read[i] /\ Len(before) - j <= (k - 1) - i
          BY <2>2, <3>3, <5>1
        <5> HIDE DEF before, after
        <5> QED
          BY <3>2, <5>1, <5>2
      <4> QED
        BY <4>1, <4>2
    <3> QED
      BY <2>1, <3>2, <3>3
  <2> QED
    BY <2>5, <2>6
<1>3. n \in S
  <2> HIDE DEF S
  <2> QED
    BY <1>1, <1>2, CountingUp, SMTT(30)
<1> QED
  BY <1>3

\* The trimmed history has every such line, but for the oldest that do not fit.
LEMMA TrimmedKeeps ==
  ASSUME NEW read \in Seq(HistoryLine)
  PROVE  /\ Trimmed(read) \in Seq(HistoryLine)
         /\ \A i \in 1..Len(read) :
              read[i] \notin Garbage /\ ~Old(read[i]) /\ i + KeptLines > Len(read) =>
                \E j \in DOMAIN Trimmed(read) : Trimmed(read)[j] = read[i]
<1> DEFINE kept == Sifted(read)[Len(read)]
           from == IF Len(kept) > KeptLines THEN Len(kept) - KeptLines + 1 ELSE 1
<1>1. Len(read) \in Nat /\ kept \in Seq(HistoryLine) /\ Len(kept) \in Nat
  <2>1. Len(read) \in 0..Len(read) /\ Len(read) \in Nat
    OBVIOUS
  <2>2. kept \in Seq(HistoryLine)
    BY <2>1, SiftedKeeps
  <2> HIDE DEF kept
  <2> QED
    BY <2>1, <2>2
<1>2. Trimmed(read) = SubSeq(kept, from, Len(kept))
  BY DEF Trimmed
<1>3. from \in 1..Len(kept) + 1
  BY <1>1, HistoryParameters
<1>4. /\ Trimmed(read) \in Seq(HistoryLine) /\ Len(Trimmed(read)) = Len(kept) - from + 1
      /\ \A j \in 1..Len(kept) - from + 1 : Trimmed(read)[j] = kept[from + j - 1]
  <2> HIDE DEF kept, from
  <2> QED
    BY <1>1, <1>2, <1>3, SubSeqProperties
<1>5. ASSUME NEW i \in 1..Len(read), read[i] \notin Garbage, ~Old(read[i]), i + KeptLines > Len(read)
      PROVE  \E j \in DOMAIN Trimmed(read) : Trimmed(read)[j] = read[i]
  <2>1. PICK k \in 1..Len(kept) : kept[k] = read[i] /\ Len(kept) - k <= Len(read) - i
    <3>1. Len(read) \in 0..Len(read)
      OBVIOUS
    <3> QED
      BY <1>5, <3>1, SiftedKeeps
  <2>2. k >= from
    BY <1>1, <1>5, <2>1, HistoryParameters
  <2>3. k - from + 1 \in 1..Len(kept) - from + 1 /\ from + (k - from + 1) - 1 = k
    BY <1>1, <1>3, <2>1, <2>2, SMTT(30)
  <2>4. Trimmed(read)[k - from + 1] = kept[k]
    BY <1>4, <2>3
  <2>5. k - from + 1 \in DOMAIN Trimmed(read)
    BY <1>4, <2>3
  <2> QED
    BY <2>1, <2>4, <2>5
<1> QED
  BY <1>4, <1>5

HistorySteps ==
  {"begin", "off", "lock", "append", "read", "trim", "kept", "clear", "cleared", "killed"}

HistoryTypeOK ==
  /\ lines \in Seq(HistoryLine)
  /\ historyLock \in HistoryProcesses \cup {Free}
  /\ writer \in [HistoryProcesses -> [pc: HistorySteps, read: Seq(HistoryLine)]]
  /\ now \in Nat

\* Who works on the file has the lock, so that the lines it has read to trim are
\* still those of the file.
HistoryInv ==
  /\ HistoryTypeOK
  /\ \A w \in HistoryProcesses :
       /\ writer[w].pc \in {"append", "read", "trim", "clear"} => historyLock = w
       /\ writer[w].pc = "trim" => writer[w].read = lines
       /\ writer[w].pc = "clear" => w \in Clearers

LEMMA HistoryStarts == HistoryInit => HistoryInv
BY DEF HistoryInit, HistoryInv, HistoryTypeOK, HistorySteps

\* A step of the process w changes only what w has in mind, and the file only
\* while w has the lock.
LEMMA HistoryFrame ==
  ASSUME HistoryInv, HistoryTypeOK', NEW w \in HistoryProcesses,
         \A v \in HistoryProcesses \ {w} : writer'[v] = writer[v],
         lines' = lines \/ historyLock = w,
         historyLock' = historyLock \/ historyLock \in {Free, w},
         writer'[w].pc \in {"append", "read", "trim", "clear"} => historyLock' = w,
         writer'[w].pc = "trim" => writer'[w].read = lines',
         writer'[w].pc = "clear" => w \in Clearers
  PROVE  HistoryInv'
<1> SUFFICES ASSUME NEW v \in HistoryProcesses
             PROVE  /\ writer'[v].pc \in {"append", "read", "trim", "clear"} => historyLock' = v
                    /\ writer'[v].pc = "trim" => writer'[v].read = lines'
                    /\ writer'[v].pc = "clear" => v \in Clearers
  BY DEF HistoryInv
<1>1. CASE v = w
  BY <1>1
<1>2. CASE v # w
  BY <1>2, HistoryParameters DEF HistoryInv
<1> QED
  BY <1>1, <1>2

LEMMA HistoryStays == HistoryInv /\ [HistoryNext]_historyVars => HistoryInv'
<1> SUFFICES ASSUME HistoryInv, [HistoryNext]_historyVars PROVE HistoryInv'
  OBVIOUS
<1> DEFINE Knows == [pc: HistorySteps, read: Seq(HistoryLine)]
<1> USE DEF HistoryTypeOK, Has, Turn, HistorySteps
<1>0. HistoryTypeOK
  BY DEF HistoryInv
<1>1. ASSUME NEW w \in HistoryProcesses, ReadEnabled(w) PROVE HistoryInv'
  BY <1>0, <1>1, HistoryFrame DEF ReadEnabled
<1>2. ASSUME NEW w \in HistoryProcesses, BeginClear(w) PROVE HistoryInv'
  BY <1>0, <1>2, HistoryFrame DEF BeginClear
<1>3. ASSUME NEW w \in HistoryProcesses, LockHistory(w) PROVE HistoryInv'
  BY <1>0, <1>3, HistoryFrame, SMTT(30) DEF LockHistory, HistoryProcesses
<1>4. ASSUME NEW w \in HistoryProcesses, AppendLine(w) PROVE HistoryInv'
  <2>1. [by |-> w, at |-> now] \in HistoryLine /\ Spoiled \in HistoryLine
    BY <1>0 DEF HistoryLine, Spoiled
  <2>2. Front(lines) \in Seq(HistoryLine)
    BY <1>0 DEF Front
  <2>3. lines' \in Seq(HistoryLine)
    BY <1>0, <1>4, <2>1, <2>2 DEF AppendLine
  <2> QED
    BY <1>0, <1>4, <2>3, HistoryFrame DEF AppendLine, HistoryInv
<1>5. ASSUME NEW w \in HistoryProcesses, ReadToTrim(w) PROVE HistoryInv'
  BY <1>0, <1>5, HistoryFrame DEF ReadToTrim, HistoryInv
<1>6. ASSUME NEW w \in HistoryProcesses, Trim(w) PROVE HistoryInv'
  <2>1. lines' \in Seq(HistoryLine)
    BY <1>0, <1>6, TrimmedKeeps DEF Trim
  <2>2. [pc |-> "kept", read |-> <<>>] \in Knows
    OBVIOUS
  <2> QED
    BY <1>0, <1>6, <2>1, <2>2, HistoryFrame DEF Trim, HistoryInv
<1>7. ASSUME NEW w \in HistoryProcesses, Clear(w) PROVE HistoryInv'
  <2>1. writer[w].pc = "clear" /\ lines' = <<>> /\ <<>> \in Seq(HistoryLine)
    BY <1>7 DEF Clear
  <2>2. HistoryTypeOK'
    BY <1>0, <1>7, <2>1 DEF Clear
  <2> QED
    BY <1>0, <1>7, <2>1, <2>2, HistoryFrame DEF Clear, HistoryInv
<1>8. ASSUME NEW w \in HistoryProcesses, KillWriter(w) PROVE HistoryInv'
  <2>1. CutOff \in HistoryLine
    BY DEF CutOff, HistoryLine
  <2>2. lines' \in Seq(HistoryLine)
    <3>1. CASE lines' = lines
      BY <1>0, <3>1
    <3>2. CASE lines' = Append(lines, CutOff)
      BY <1>0, <2>1, <3>2
    <3> QED
      BY <1>8, <3>1, <3>2 DEF KillWriter
  <2>3. [pc |-> "killed", read |-> <<>>] \in Knows
    OBVIOUS
  <2> QED
    BY <1>0, <1>8, <2>2, <2>3, HistoryFrame DEF KillWriter, HistoryInv
<1>9. CASE SwitchOff \/ TimePasses \/ UNCHANGED historyVars
  BY <1>9 DEF SwitchOff, TimePasses, historyVars, HistoryInv
<1> QED
  BY <1>1, <1>2, <1>3, <1>4, <1>5, <1>6, <1>7, <1>8, <1>9 DEF HistoryNext, HistoryStep

\* However appends, trims, clears and kills meet: no event is lost that is not
\* cleared, too old or crowded out, and each that is appended is there unless it
\* was glued to a line cut off (history.go:23-108).
THEOREM HistoryKeepsEvents == HistorySpec => EventsKept
<1> DEFINE Kept == \A line \in ToSet(lines) \ Garbage : line \notin ToSet(lines') =>
             \/ \E c \in Clearers : Has(c, "clear")
             \/ Old(line)
             \/ \E i \in DOMAIN lines : i + KeptLines <= Len(lines) /\ lines[i] = line
           Written == \A w \in Writers : Has(w, "append") /\ writer'[w].pc = "read" =>
             Torn \/ \E at \in 0..now : [by |-> w, at |-> at] \in ToSet(lines')
<1>1. ASSUME HistoryInv, HistoryNext PROVE Kept
  <2> SUFFICES ASSUME NEW i \in DOMAIN lines, lines[i] \notin Garbage, ~Old(lines[i]),
                      lines[i] \notin ToSet(lines'), ~\E c \in Clearers : Has(c, "clear")
               PROVE  i + KeptLines <= Len(lines)
    BY DEF ToSet
  <2> USE DEF HistoryInv, HistoryTypeOK
  <2>1. Len(lines) \in Nat /\ i \in 1..Len(lines)
    BY <1>1
  <2>2. ASSUME \E new : lines' = Append(lines, new) PROVE FALSE
    BY <1>1, <2>1, <2>2 DEF ToSet
  <2>3. ASSUME NEW w \in HistoryProcesses, AppendLine(w) PROVE FALSE
    <3>1. CASE Torn
      <4>1. i # Len(lines)
        BY <3>1 DEF Torn, Last, Garbage
      <4>2. lines'[i] = lines[i] /\ i \in DOMAIN lines'
        BY <1>1, <2>1, <2>3, <3>1, <4>1 DEF AppendLine, Front
      <4> QED
        BY <4>2 DEF ToSet
    <3>2. CASE ~Torn
      BY <2>2, <2>3, <3>2 DEF AppendLine
    <3> QED
      BY <3>1, <3>2
  <2>4. ASSUME NEW w \in HistoryProcesses, Trim(w) PROVE i + KeptLines <= Len(lines)
    <3>1. lines' = Trimmed(lines)
      BY <1>1, <2>4 DEF Trim, Has
    <3>2. ~\E j \in DOMAIN Trimmed(lines) : Trimmed(lines)[j] = lines[i]
      BY <3>1 DEF ToSet
    <3>3. lines \in Seq(HistoryLine)
      BY <1>1
    <3>4. ~(i + KeptLines > Len(lines))
      BY <2>1, <3>2, <3>3, TrimmedKeeps
    <3> QED
      BY <2>1, <3>4, HistoryParameters
  <2>5. ASSUME NEW w \in HistoryProcesses, Clear(w) PROVE FALSE
    BY <1>1, <2>5 DEF Clear, Has
  <2>6. lines' = lines => FALSE
    BY <2>1 DEF ToSet
  <2> QED
    BY <1>1, <2>2, <2>3, <2>4, <2>5, <2>6
       DEF HistoryNext, HistoryStep, ReadEnabled, BeginClear, LockHistory, ReadToTrim, KillWriter,
           SwitchOff, TimePasses
<1>2. ASSUME HistoryInv, HistoryNext PROVE Written
  <2> SUFFICES ASSUME NEW w \in Writers, Has(w, "append"), writer'[w].pc = "read", ~Torn
               PROVE  \E at \in 0..now : [by |-> w, at |-> at] \in ToSet(lines')
    OBVIOUS
  <2> USE DEF HistoryInv, HistoryTypeOK
  <2>1. w \in HistoryProcesses
    BY DEF HistoryProcesses
  <2>2. ASSUME NEW v \in HistoryProcesses, HistoryStep(v) \/ KillWriter(v), ~AppendLine(v)
        PROVE  FALSE
    <3> USE DEF Has, Turn
    <3>1. writer[w].pc = "append" /\ writer'[w].pc = "read" /\ writer \in [HistoryProcesses -> [pc: HistorySteps, read: Seq(HistoryLine)]]
      BY <1>2
    <3> HIDE DEF HistoryInv, HistoryTypeOK
    <3>2. ReadEnabled(v) => FALSE
      BY <2>1, <3>1 DEF ReadEnabled
    <3>3. BeginClear(v) => FALSE
      BY <2>1, <3>1 DEF BeginClear
    <3>4. LockHistory(v) => FALSE
      BY <2>1, <3>1 DEF LockHistory
    <3>5. ReadToTrim(v) => FALSE
      BY <2>1, <3>1 DEF ReadToTrim
    <3>6. Trim(v) => FALSE
      BY <2>1, <3>1 DEF Trim
    <3>7. Clear(v) => FALSE
      BY <2>1, <3>1 DEF Clear
    <3>8. KillWriter(v) => FALSE
      BY <2>1, <3>1 DEF KillWriter
    <3> QED
      BY <2>2, <3>2, <3>3, <3>4, <3>5, <3>6, <3>7, <3>8 DEF HistoryStep
  <2>3. ASSUME NEW v \in HistoryProcesses, AppendLine(v)
        PROVE  \E at \in 0..now : [by |-> w, at |-> at] \in ToSet(lines')
    <3>1. v = w
      BY <1>2, <2>1, <2>3 DEF AppendLine, Has, Turn
    <3>2. lines' = Append(lines, [by |-> w, at |-> now])
      BY <2>3, <3>1 DEF AppendLine
    <3>3. lines'[Len(lines) + 1] = [by |-> w, at |-> now] /\ Len(lines) + 1 \in DOMAIN lines'
      BY <1>2, <3>2
    <3>4. [by |-> w, at |-> now] \in ToSet(lines')
      BY <3>3 DEF ToSet
    <3> QED
      BY <1>2, <3>4
  <2>4. CASE SwitchOff \/ TimePasses
    BY <2>4 DEF SwitchOff, TimePasses, Has
  <2> QED
    BY <1>2, <2>2, <2>3, <2>4 DEF HistoryNext
<1>3. HistoryInv /\ [HistoryNext]_historyVars => [Kept /\ Written]_historyVars
  <2> HIDE DEF Kept, Written
  <2> QED
    BY <1>1, <1>2
<1> QED
  BY <1>3, HistoryStarts, HistoryStays, PTL DEF HistorySpec, EventsKept

-----------------------------------------------------------------------------
(* What the log scanner finds *)

Whose == [email: Emails \cup {NoOne}, model: AgyModels]

Read1(before, line) == AfterLine(before, line)

LEMMA ReadingExists ==
  ASSUME NEW text, NEW m \in Nat
  PROVE  \E f : f = [n \in 0..m |-> IF n = 0 THEN NothingRead ELSE Read1(f[n - 1], text[n])]
<1> DEFINE Upto(k, f) == f = [n \in 0..k |-> IF n = 0 THEN NothingRead ELSE Read1(f[n - 1], text[n])]
           S == {k \in 0..m : \E f : Upto(k, f)}
<1>1. 0 \in S
  <2>1. Upto(0, [n \in 0..0 |-> NothingRead])
    OBVIOUS
  <2>2. 0 \in 0..m
    OBVIOUS
  <2> HIDE DEF Upto
  <2> QED
    BY <2>1, <2>2
<1>2. ASSUME NEW k \in 1..m, k - 1 \in S PROVE k \in S
  <2>1. PICK f : Upto(k - 1, f)
    BY <1>2
  <2> DEFINE g == [n \in 0..k |-> IF n = k THEN Read1(f[k - 1], text[k]) ELSE f[n]]
  <2>2. ASSUME NEW n \in 0..k
        PROVE  g[n] = IF n = 0 THEN NothingRead ELSE Read1(g[n - 1], text[n])
    <3>1. CASE n = k
      BY <1>2, <3>1
    <3>2. CASE n # k
      <4>1. n \in 0..k - 1 /\ f[n] = IF n = 0 THEN NothingRead ELSE Read1(f[n - 1], text[n])
        BY <1>2, <2>1, <3>2
      <4>2. n # 0 => g[n - 1] = f[n - 1]
        BY <1>2, <3>2
      <4> QED
        BY <3>2, <4>1, <4>2
    <3> QED
      BY <3>1, <3>2
  <2>3. Upto(k, g)
    BY <2>2
  <2>4. k \in 0..m
    BY <1>2
  <2> HIDE DEF Upto, g
  <2> QED
    BY <2>3, <2>4
<1>3. m \in S
  <2> HIDE DEF S
  <2> QED
    BY <1>1, <1>2, CountingUp
<1> QED
  BY <1>3

LEMMA ReadingDef ==
  ASSUME NEW text, Len(text) \in Nat, NEW n \in 0..Len(text)
  PROVE  Reading(text)[n] = IF n = 0 THEN NothingRead ELSE Read1(Reading(text)[n - 1], text[n])
<1>1. Reading(text) = CHOOSE f : f = [k \in 0..Len(text) |->
                                      IF k = 0 THEN NothingRead ELSE Read1(f[k - 1], text[k])]
  BY DEF Reading, Read1
<1>2. Reading(text) = [k \in 0..Len(text) |->
                        IF k = 0 THEN NothingRead ELSE Read1(Reading(text)[k - 1], text[k])]
  BY <1>1, ReadingExists
<1> QED
  BY <1>2

Found1(text) == Reading(text)[Len(text)]

\* One line more is read after the others.
LEMMA ReadOneMore ==
  ASSUME NEW text \in Seq(Line), NEW line \in Line
  PROVE  Found1(Append(text, line)) = AfterLine(Found1(text), line)
<1> DEFINE longer == Append(text, line)
           size == Len(text)
           S == {k \in 0..size : Reading(longer)[k] = Reading(text)[k]}
<1>1. /\ size \in Nat /\ Len(longer) = size + 1 /\ Len(longer) \in Nat
      /\ longer[size + 1] = line
      /\ \A k \in 1..size : longer[k] = text[k]
  OBVIOUS
<1> HIDE DEF longer, size
<1>2. 0 \in S
  BY <1>1, ReadingDef DEF size
<1>3. ASSUME NEW k \in 1..size, k - 1 \in S PROVE k \in S
  <2>1. k \in 0..size /\ k \in 0..Len(longer) /\ k # 0
    BY <1>1
  <2>2. Reading(longer)[k] = Read1(Reading(longer)[k - 1], longer[k])
    <3> HIDE DEF S
    <3> QED
      BY <1>1, <2>1, ReadingDef
  <2>3. Reading(text)[k] = Read1(Reading(text)[k - 1], text[k])
    BY <1>1, <2>1, ReadingDef DEF size
  <2> QED
    BY <1>1, <1>3, <2>1, <2>2, <2>3
<1>4. size \in S
  <2> HIDE DEF S
  <2>1. \A k \in 1..size : k - 1 \in S => k \in S
    BY <1>3
  <2>2. 0..size \subseteq S
    BY <1>1, <1>2, <2>1, CountingUp
  <2> QED
    BY <1>1, <2>2
<1>5. size + 1 \in 0..Len(longer) /\ size + 1 # 0 /\ size + 1 - 1 = size
  BY <1>1
<1>6. Reading(longer)[size + 1] = Read1(Reading(longer)[size], line)
  BY <1>1, <1>5, ReadingDef
<1> QED
  BY <1>1, <1>4, <1>6 DEF Found1, Read1, longer, size

Asked == [email: Emails \cup {NoOne}, model: Models \cup {NoOne}, response: BOOLEAN, failed: BOOLEAN]
Records == [email: Emails \cup {NoOne}, model: Models \cup {NoOne},
            state: {"limited", "available"}, line: Nat]
Knowledge == [email: Emails \cup {NoOne}, model: Models \cup {NoOne},
              pending: [Requests -> Asked], evidence: SUBSET Records, line: Nat]

\* The request r is under way, and its flags say what was logged since it was sent.
Asks(text, r, asked) ==
  \E s \in 1..Len(text) :
    /\ text[s].what = "send" /\ text[s].request = r
    /\ \A j \in s..Len(text) : ~Ends(text[j], r)
    /\ asked.response =>
         \E i \in s..Len(text) : text[i].what = "response" /\ UnderWay(text, i) = {r}
    /\ ~asked.failed =>
         \A i \in s..Len(text) : text[i].what = "error" => UnderWay(text, i) # {r}

TrueRecord(text, record) ==
  /\ record.line \in 1..Len(text)
  /\ text[record.line].what = (IF record.state = "limited" THEN "error" ELSE "complete")
  /\ text[record.line].email = record.email /\ text[record.line].model = record.model
  /\ record.state = "available" => Served(text, record.line)

\* The requests that agy has under way.
Busy(of) == {r \in Requests : of.requests[r] # Idle}

\* Who has read the whole of the first file knows the account, the model, if it is
\* one to know, and the requests of agy, and has recorded only what is so.
Follows(known, text, of) ==
  /\ known \in Knowledge
  /\ known.line = Len(text)
  /\ known.email = of.email
  /\ of.model # OtherModel => known.model = of.model
  /\ UnderWay(text, Len(text)) = Busy(of)
  /\ \A r \in Requests :
       /\ known.pending[r] = NotPending <=> of.requests[r] = Idle
       /\ known.pending[r].email = of.requests[r].email
       /\ known.pending[r].model = of.requests[r].model
       /\ r \in Busy(of) => Asks(text, r, known.pending[r])
  /\ \A record \in known.evidence : TrueRecord(text, record)

\* agy names no model before its account, and sends nothing before a model.
AgyNames ==
  /\ agyState.model # NoOne => agyState.email # NoOne
  /\ \A r \in Requests :
       agyState.requests[r] \in [email: Emails, model: Models \cup {OtherModel}] \cup {Idle}

\* All requests are of models the scanner knows.
SendsKnown(text) == \A i \in 1..Len(text) : text[i].what = "send" => text[i].model \in Models

EvidenceInv ==
  /\ CacheInv /\ AgyNames /\ log.file # 0
  /\ log.file = 1 /\ SendsKnown(log.lines) => Follows(Found1(log.lines), log.lines, agyState)

LEMMA Longer ==
  ASSUME NEW text \in Seq(Line), NEW line \in Line
  PROVE  /\ Len(Append(text, line)) = Len(text) + 1 /\ Len(text) \in Nat
         /\ Append(text, line)[Len(text) + 1] = line
         /\ \A i \in 1..Len(text) : Append(text, line)[i] = text[i]
OBVIOUS

LEMMA SentKnown ==
  ASSUME NEW text \in Seq(Line), NEW line \in Line, SendsKnown(Append(text, line))
  PROVE  SendsKnown(text) /\ (line.what = "send" => line.model \in Models)
<1> DEFINE longer == Append(text, line)
<1>1. /\ Len(text) \in Nat /\ Len(longer) = Len(text) + 1 /\ longer[Len(text) + 1] = line
      /\ \A i \in 1..Len(text) : longer[i] = text[i]
  BY Longer
<1>2. SendsKnown(longer)
  OBVIOUS
<1> HIDE DEF longer
<1> QED
  BY <1>1, <1>2 DEF SendsKnown

\* The requests under way at a line do not change when more is logged ...
LEMMA UnderWayStays ==
  ASSUME NEW text \in Seq(Line), NEW line \in Line, NEW i \in 0..Len(text)
  PROVE  UnderWay(Append(text, line), i) = UnderWay(text, i)
<1> DEFINE longer == Append(text, line)
<1>1. Len(text) \in Nat /\ \A k \in 1..Len(text) : longer[k] = text[k]
  BY Longer
<1>2. \A k \in 1..i : k \in 1..Len(text) /\ \A j \in k..i : j \in 1..Len(text)
  BY <1>1
<1> HIDE DEF longer
<1>3. UnderWay(longer, i) = UnderWay(text, i)
  BY <1>1, <1>2 DEF UnderWay
<1> QED
  BY <1>3 DEF longer

\* ... but for the one that the next line sends or ends.
LEMMA UnderWayNext ==
  ASSUME NEW text \in Seq(Line), NEW line \in Line
  PROVE  UnderWay(Append(text, line), Len(text) + 1) =
           {r \in Requests : \/ line.what = "send" /\ line.request = r
                             \/ r \in UnderWay(text, Len(text)) /\ ~Ends(line, r)}
<1> DEFINE longer == Append(text, line)
           n == Len(text)
<1>1. n \in Nat /\ longer[n + 1] = line /\ \A k \in 1..n : longer[k] = text[k]
  BY Longer
<1> HIDE DEF longer, n
<1>2. ASSUME NEW r \in Requests, NEW s \in 1..n + 1, longer[s].what = "send", longer[s].request = r,
             \A j \in s..n + 1 : ~Ends(longer[j], r)
      PROVE  (line.what = "send" /\ line.request = r) \/ (r \in UnderWay(text, n) /\ ~Ends(line, r))
  <2>1. CASE s = n + 1
    BY <1>1, <1>2, <2>1
  <2>2. CASE s # n + 1
    <3>1. s \in 1..n /\ n + 1 \in s..n + 1 /\ \A j \in s..n : j \in 1..n /\ j \in s..n + 1
      BY <1>1, <2>2
    <3>2. text[s].what = "send" /\ text[s].request = r /\ \A j \in s..n : ~Ends(text[j], r)
      BY <1>1, <1>2, <3>1
    <3> QED
      BY <1>1, <1>2, <3>1, <3>2 DEF UnderWay
  <2> QED
    BY <2>1, <2>2
<1>3. ASSUME NEW r \in Requests, line.what = "send", line.request = r
      PROVE  r \in UnderWay(longer, n + 1)
  <2>1. n + 1 \in 1..n + 1 /\ \A j \in n + 1..n + 1 : j = n + 1
    BY <1>1
  <2>2. ~Ends(line, r)
    BY <1>3 DEF Ends
  <2> QED
    BY <1>1, <1>3, <2>1, <2>2 DEF UnderWay
<1>4. ASSUME NEW r \in Requests, r \in UnderWay(text, n), ~Ends(line, r)
      PROVE  r \in UnderWay(longer, n + 1)
  <2>1. PICK s \in 1..n : /\ text[s].what = "send" /\ text[s].request = r
                          /\ \A j \in s..n : ~Ends(text[j], r)
    BY <1>4 DEF UnderWay
  <2>2. s \in 1..n + 1 /\ \A j \in s..n + 1 : j = n + 1 \/ (j \in s..n /\ j \in 1..n)
    BY <1>1
  <2> QED
    BY <1>1, <1>4, <2>1, <2>2 DEF UnderWay
<1>5. UnderWay(longer, n + 1) =
        {r \in Requests : \/ line.what = "send" /\ line.request = r
                          \/ r \in UnderWay(text, n) /\ ~Ends(line, r)}
  <2>1. \A r \in UnderWay(longer, n + 1) : r \in Requests /\
          ((line.what = "send" /\ line.request = r) \/ (r \in UnderWay(text, n) /\ ~Ends(line, r)))
    BY <1>2 DEF UnderWay
  <2> QED
    BY <1>3, <1>4, <2>1
<1> QED
  BY <1>5 DEF longer, n

\* What was true of a text is true of a longer one.
LEMMA StaysTrue ==
  ASSUME NEW text \in Seq(Line), NEW line \in Line, NEW record, TrueRecord(text, record)
  PROVE  TrueRecord(Append(text, line), record)
<1> DEFINE longer == Append(text, line)
           n == record.line
<1>1. /\ Len(text) \in Nat /\ Len(longer) = Len(text) + 1
      /\ \A i \in 1..Len(text) : longer[i] = text[i]
  BY Longer
<1>2. \A i \in 1..Len(text) : UnderWay(longer, i) = UnderWay(text, i)
  BY <1>1, UnderWayStays
<1> HIDE DEF longer
<1>3. n \in 1..Len(text) /\ n \in 1..Len(longer) /\ longer[n] = text[n]
  BY <1>1 DEF TrueRecord
<1>4. \A s \in 1..n : s \in 1..Len(text) /\ \A j \in s..n : j \in 1..Len(text)
  BY <1>1, <1>3
<1>5. \A s \in 1..n : \A j \in s..n - 1 : j \in 1..Len(text)
  BY <1>1, <1>3
<1> HIDE DEF n
<1>6. ASSUME Served(text, n) PROVE Served(longer, n)
  <2> DEFINE r == text[n].request
  <2>1. PICK s \in 1..n :
          /\ text[s].what = "send" /\ text[s].request = r
          /\ \A j \in s..n - 1 : ~Ends(text[j], r)
          /\ \E i \in s..n : text[i].what = "response" /\ UnderWay(text, i) = {r}
          /\ \A i \in s..n : text[i].what = "error" => UnderWay(text, i) # {r}
    BY <1>6 DEF Served
  <2>2. longer[n].request = r
    BY <1>3
  <2> HIDE DEF r
  <2>3. longer[s].what = "send" /\ longer[s].request = r /\ \A j \in s..n - 1 : ~Ends(longer[j], r)
    BY <1>1, <1>4, <1>5, <2>1
  <2>4. \E i \in s..n : longer[i].what = "response" /\ UnderWay(longer, i) = {r}
    <3>1. PICK i \in s..n : text[i].what = "response" /\ UnderWay(text, i) = {r}
      BY <2>1
    <3> QED
      BY <1>1, <1>2, <1>4, <3>1
  <2>5. \A i \in s..n : longer[i].what = "error" => UnderWay(longer, i) # {r}
    BY <1>1, <1>2, <1>4, <2>1
  <2> QED
    BY <2>2, <2>3, <2>4, <2>5 DEF Served
<1>7. TrueRecord(longer, record)
  BY <1>3, <1>6 DEF TrueRecord, n
<1> QED
  BY <1>7 DEF longer

\* A request that does not end goes on with the flags it had, or with new ones:
\* what the next line shows of it when it is the only one.
LEMMA AskingStays ==
  ASSUME NEW text \in Seq(Line), NEW line \in Line, NEW r \in Requests, NEW asked, NEW new,
         Asks(text, r, asked), ~Ends(line, r),
         new.response => \/ asked.response
                         \/ line.what = "response" /\ UnderWay(text, Len(text)) = {r},
         ~new.failed => /\ ~asked.failed
                        /\ line.what = "error" => UnderWay(text, Len(text)) # {r}
  PROVE  Asks(Append(text, line), r, new)
<1> DEFINE longer == Append(text, line)
           n == Len(text)
<1>1. /\ n \in Nat /\ Len(longer) = n + 1 /\ longer[n + 1] = line
      /\ \A i \in 1..n : longer[i] = text[i]
  BY Longer
<1>2. \A i \in 1..n : UnderWay(longer, i) = UnderWay(text, i)
  BY <1>1, UnderWayStays
<1>3. line.what \in {"response", "error"} => UnderWay(longer, n + 1) = UnderWay(text, n)
  <2>1. SUFFICES ASSUME line.what \in {"response", "error"}
                 PROVE  UnderWay(longer, n + 1) = UnderWay(text, n)
    OBVIOUS
  <2>2. UnderWay(longer, n + 1) = {q \in Requests : \/ line.what = "send" /\ line.request = q
                                                    \/ q \in UnderWay(text, n) /\ ~Ends(line, q)}
    BY UnderWayNext
  <2>3. line.what # "send" /\ (\A q : ~Ends(line, q)) /\ UnderWay(text, n) \subseteq Requests
    BY <2>1 DEF Ends, UnderWay
  <2> HIDE DEF longer, n
  <2> QED
    BY <2>2, <2>3
<1> HIDE DEF longer
<1>4. PICK s \in 1..n :
        /\ text[s].what = "send" /\ text[s].request = r
        /\ \A j \in s..n : ~Ends(text[j], r)
        /\ asked.response => \E i \in s..n : text[i].what = "response" /\ UnderWay(text, i) = {r}
        /\ ~asked.failed => \A i \in s..n : text[i].what = "error" => UnderWay(text, i) # {r}
  BY DEF Asks
<1>5. /\ s \in 1..n + 1 /\ n + 1 \in s..n + 1
      /\ \A j \in s..n : j \in 1..n /\ j \in s..n + 1
      /\ \A j \in s..n + 1 : j = n + 1 \/ j \in s..n
  BY <1>1
<1>6. longer[s].what = "send" /\ longer[s].request = r /\ \A j \in s..n + 1 : ~Ends(longer[j], r)
  BY <1>1, <1>4, <1>5
<1>7. new.response => \E i \in s..n + 1 : longer[i].what = "response" /\ UnderWay(longer, i) = {r}
  <2>1. CASE asked.response
    <3>1. PICK i \in s..n : text[i].what = "response" /\ UnderWay(text, i) = {r}
      BY <1>4, <2>1
    <3> QED
      BY <1>1, <1>2, <1>5, <3>1
  <2>2. CASE line.what = "response" /\ UnderWay(text, n) = {r}
    BY <1>1, <1>3, <1>5, <2>2
  <2> QED
    BY <2>1, <2>2 DEF n
<1>8. ~new.failed => \A i \in s..n + 1 : longer[i].what = "error" => UnderWay(longer, i) # {r}
  <2>1. SUFFICES ASSUME ~new.failed, NEW i \in s..n + 1, longer[i].what = "error"
                 PROVE  UnderWay(longer, i) # {r}
    OBVIOUS
  <2>2. CASE i = n + 1
    BY <1>1, <1>3, <2>1, <2>2 DEF n
  <2>3. CASE i \in s..n
    BY <1>1, <1>2, <1>4, <1>5, <2>1, <2>3
  <2> QED
    BY <1>5, <2>2, <2>3
<1>9. Asks(longer, r, new)
  BY <1>1, <1>5, <1>6, <1>7, <1>8 DEF Asks
<1> QED
  BY <1>9 DEF longer

\* A request that is sent asks.
LEMMA AskingBegins ==
  ASSUME NEW text \in Seq(Line), NEW line \in Line, NEW r \in Requests, NEW new,
         line.what = "send", line.request = r, ~new.response
  PROVE  Asks(Append(text, line), r, new)
<1> DEFINE longer == Append(text, line)
           n == Len(text) + 1
<1>1. Len(text) \in Nat /\ Len(longer) = n /\ longer[n] = line
  BY Longer
<1>2. n \in 1..n /\ \A j \in n..n : j = n
  BY <1>1
<1>3. ~Ends(line, r)
  BY DEF Ends
<1> HIDE DEF longer, n
<1>4. Asks(longer, r, new)
  BY <1>1, <1>2, <1>3 DEF Asks
<1> QED
  BY <1>4 DEF longer

\* A request that ends was served as its flags say.
LEMMA ServedAtItsEnd ==
  ASSUME NEW text \in Seq(Line), NEW line \in Line, NEW r \in Requests, NEW asked,
         Asks(text, r, asked), Ends(line, r), asked.response, ~asked.failed
  PROVE  Served(Append(text, line), Len(text) + 1)
<1> DEFINE longer == Append(text, line)
           n == Len(text)
<1>1. /\ n \in Nat /\ Len(longer) = n + 1 /\ longer[n + 1] = line
      /\ \A i \in 1..n : longer[i] = text[i]
  BY Longer
<1>2. \A i \in 1..n : UnderWay(longer, i) = UnderWay(text, i)
  BY <1>1, UnderWayStays
<1> HIDE DEF longer
<1>3. PICK s \in 1..n :
        /\ text[s].what = "send" /\ text[s].request = r
        /\ \A j \in s..n : ~Ends(text[j], r)
        /\ \E i \in s..n : text[i].what = "response" /\ UnderWay(text, i) = {r}
        /\ \A i \in s..n : text[i].what = "error" => UnderWay(text, i) # {r}
  BY DEF Asks
<1>4. /\ s \in 1..n + 1 /\ n + 1 - 1 = n
      /\ \A j \in s..n : j \in 1..n /\ j \in s..n + 1
      /\ \A j \in s..n + 1 : j = n + 1 \/ j \in s..n
  BY <1>1
<1>5. longer[n + 1].request = r /\ longer[n + 1].what = "complete"
  BY <1>1 DEF Ends
<1>6. longer[s].what = "send" /\ longer[s].request = r /\ \A j \in s..n + 1 - 1 : ~Ends(longer[j], r)
  BY <1>1, <1>3, <1>4
<1>7. \E i \in s..n + 1 : longer[i].what = "response" /\ UnderWay(longer, i) = {r}
  <2>1. PICK i \in s..n : text[i].what = "response" /\ UnderWay(text, i) = {r}
    BY <1>3
  <2> QED
    BY <1>1, <1>2, <1>4, <2>1
<1>8. ASSUME NEW i \in s..n + 1, longer[i].what = "error" PROVE UnderWay(longer, i) # {r}
  <2>1. i \in s..n
    BY <1>4, <1>5, <1>8
  <2> QED
    BY <1>1, <1>2, <1>3, <1>4, <1>8, <2>1
<1>9. Served(longer, n + 1)
  <2> DEFINE m == n + 1
  <2>1. longer[m].request = r /\ s \in 1..m
    BY <1>4, <1>5
  <2>2. \A j \in s..m - 1 : ~Ends(longer[j], r)
    BY <1>6
  <2>3. \E i \in s..m : longer[i].what = "response" /\ UnderWay(longer, i) = {r}
    BY <1>7
  <2>4. \A i \in s..m : longer[i].what = "error" => UnderWay(longer, i) # {r}
    BY <1>8
  <2> HIDE DEF m
  <2>5. Served(longer, m)
    BY <1>6, <2>1, <2>2, <2>3, <2>4 DEF Served
  <2> QED
    BY <2>5 DEF m
<1> QED
  BY <1>9 DEF longer

LEMMA OnlyRequest ==
  ASSUME NEW S \in SUBSET Requests, Cardinality(S) = 1, NEW r \in S PROVE S = {r}
<1>1. IsFiniteSet(S)
  BY LogParameters, FS_Subset
<1>2. PICK q : S = {q}
  BY <1>1, FS_Singleton
<1> QED
  BY <1>2

\* A new record of what the next line shows.
LEMMA RecordedIsTrue ==
  ASSUME NEW text \in Seq(Line), NEW line \in Line, NEW known \in Knowledge,
         \A record \in known.evidence : TrueRecord(text, record),
         NEW of, NEW state1 \in {"limited", "available"},
         of.email \in Emails \cup {NoOne}, of.model \in Models \cup {NoOne},
         line.what = (IF state1 = "limited" THEN "error" ELSE "complete"),
         line.email = of.email, line.model = of.model,
         state1 = "available" => Served(Append(text, line), Len(text) + 1),
         known.line = Len(text) + 1
  PROVE  /\ Recorded(known, of, state1) \subseteq Records
         /\ \A record \in Recorded(known, of, state1) : TrueRecord(Append(text, line), record)
<1> DEFINE new == [email |-> of.email, model |-> of.model, state |-> state1, line |-> known.line]
           longer == Append(text, line)
<1>1. Recorded(known, of, state1) \subseteq known.evidence \cup {new}
  BY DEF Recorded
<1>2. new \in Records
  BY DEF Records, Knowledge
<1>3. known.evidence \subseteq Records
  BY DEF Knowledge
<1>4. TrueRecord(longer, new)
  <2>1. Len(longer) = Len(text) + 1 /\ Len(text) \in Nat /\ longer[Len(text) + 1] = line
    BY Longer
  <2>2. state1 = "available" => Served(longer, Len(text) + 1)
    OBVIOUS
  <2>3. new.line \in 1..Len(longer) /\ longer[new.line] = line
    <3> HIDE DEF longer
    <3> QED
      BY <2>1
  <2> HIDE DEF longer
  <2> QED
    BY <2>2, <2>3 DEF TrueRecord
<1>5. \A record \in known.evidence : TrueRecord(longer, record)
  BY StaysTrue
<1> HIDE DEF new, longer
<1> QED
  BY <1>1, <1>2, <1>3, <1>4, <1>5 DEF longer

\* Agy's state is a record of its account, its model and its requests.
AgyStates == [email: Emails \cup {NoOne}, model: AgyModels, requests: [Requests -> Whose]]

\* A line that neither sends nor ends a request, and is not the error of one.
LEMMA FollowsQuietLine ==
  ASSUME NEW text \in Seq(Line), NEW line \in Line, NEW known, NEW of \in AgyStates, NEW next,
         NEW of2 \in AgyStates, Follows(known, text, of),
         line.what \notin {"send", "complete"},
         line.what = "error" => \A r \in Requests : UnderWay(text, Len(text)) # {r},
         next.email \in Emails \cup {NoOne}, next.model \in Models \cup {NoOne},
         next = [known EXCEPT !.line = Len(text) + 1, !.email = next.email, !.model = next.model],
         next.email = of2.email, of2.model # OtherModel => next.model = of2.model,
         of2.requests = of.requests
  PROVE  Follows(next, Append(text, line), of2)
<1> DEFINE longer == Append(text, line)
<1>1. Len(longer) = Len(text) + 1 /\ Len(text) \in Nat
  BY Longer
<1>2. next \in Knowledge
  <2>1. known \in Knowledge
    BY DEF Follows
  <2>2. next = [email |-> next.email, model |-> next.model, pending |-> known.pending,
                evidence |-> known.evidence, line |-> Len(text) + 1]
    BY <2>1 DEF Knowledge
  <2>3. known.pending \in [Requests -> Asked] /\ known.evidence \in SUBSET Records
    BY <2>1 DEF Knowledge
  <2> QED
    BY <1>1, <2>2, <2>3 DEF Knowledge
<1>3. next.line = Len(text) + 1 /\ next.pending = known.pending /\ next.evidence = known.evidence
  BY DEF Follows, Knowledge
<1>4. \A record \in next.evidence : TrueRecord(longer, record)
  BY <1>3, StaysTrue DEF Follows
<1>5. Busy(of2) = Busy(of)
  BY DEF Busy
<1>6. \A r : ~Ends(line, r)
  BY DEF Ends
<1>7. UnderWay(longer, Len(longer)) = Busy(of2)
  <2>1. UnderWay(longer, Len(text) + 1) =
          {r \in Requests : \/ line.what = "send" /\ line.request = r
                            \/ r \in UnderWay(text, Len(text)) /\ ~Ends(line, r)}
    BY UnderWayNext
  <2>2. UnderWay(text, Len(text)) = Busy(of) /\ Busy(of) \subseteq Requests
    BY DEF Follows, Busy
  <2> HIDE DEF longer
  <2> QED
    BY <1>1, <1>5, <1>6, <2>1, <2>2
<1>8. ASSUME NEW r \in Requests
      PROVE  /\ next.pending[r] = NotPending <=> of2.requests[r] = Idle
             /\ next.pending[r].email = of2.requests[r].email
             /\ next.pending[r].model = of2.requests[r].model
             /\ r \in Busy(of2) => Asks(longer, r, next.pending[r])
  <2>1. r \in Busy(of2) => Asks(text, r, known.pending[r])
    BY <1>5 DEF Follows
  <2>2. line.what = "error" => UnderWay(text, Len(text)) # {r}
    OBVIOUS
  <2>3. ASSUME r \in Busy(of2) PROVE Asks(longer, r, known.pending[r])
    BY <1>6, <2>1, <2>2, <2>3, AskingStays
  <2> HIDE DEF longer
  <2> QED
    BY <1>3, <2>3 DEF Follows
<1> HIDE DEF longer
<1>9. Follows(next, longer, of2)
  BY <1>1, <1>2, <1>3, <1>4, <1>7, <1>8 DEF Follows
<1> QED
  BY <1>9 DEF longer

\* A line after which one request is known anew.
LEMMA FollowsRequest ==
  ASSUME NEW text \in Seq(Line), NEW line \in Line, NEW known, NEW of \in AgyStates,
         NEW of2 \in AgyStates, Follows(known, text, of),
         NEW r \in Requests, NEW new \in Asked, NEW evidence \in SUBSET Records,
         \A record \in evidence : TrueRecord(Append(text, line), record),
         new = NotPending <=> of2.requests[r] = Idle,
         new.email = of2.requests[r].email, new.model = of2.requests[r].model,
         UnderWay(Append(text, line), Len(text) + 1) = Busy(of2),
         r \in Busy(of2) => Asks(Append(text, line), r, new),
         \A q \in Requests \ {r} : ~Ends(line, q),
         line.what = "error" => \A q \in Requests \ {r} : UnderWay(text, Len(text)) # {q},
         of2.email = of.email, of2.model = of.model,
         \A q \in Requests \ {r} : of2.requests[q] = of.requests[q]
  PROVE  Follows([known EXCEPT !.line = Len(text) + 1, !.pending[r] = new, !.evidence = evidence],
                 Append(text, line), of2)
<1> DEFINE longer == Append(text, line)
           next == [known EXCEPT !.line = Len(text) + 1, !.pending[r] = new, !.evidence = evidence]
           pending == [known.pending EXCEPT ![r] = new]
<1>1. Len(longer) = Len(text) + 1 /\ Len(text) \in Nat
  BY Longer
<1>2. known \in Knowledge
  BY DEF Follows
<1>3. next = [email |-> known.email, model |-> known.model, pending |-> pending,
              evidence |-> evidence, line |-> Len(text) + 1]
  <2>1. known = [email |-> known.email, model |-> known.model, pending |-> known.pending,
                 evidence |-> known.evidence, line |-> known.line]
    BY <1>2 DEF Knowledge
  <2>2. next = [known EXCEPT !.line = Len(text) + 1, !.pending = pending, !.evidence = evidence]
    BY <2>1
  <2> HIDE DEF pending, next
  <2> QED
    BY <2>1, <2>2
<1>4. pending \in [Requests -> Asked]
  <2>1. known.pending \in [Requests -> Asked]
    BY <1>2 DEF Knowledge
  <2> QED
    BY <2>1
<1>5. next \in Knowledge
  BY <1>1, <1>2, <1>3, <1>4 DEF Knowledge
<1>6. r \in Busy(of2) => Asks(longer, r, new)
  OBVIOUS
<1>7. ASSUME NEW q \in Requests
      PROVE  /\ pending[q] = NotPending <=> of2.requests[q] = Idle
             /\ pending[q].email = of2.requests[q].email
             /\ pending[q].model = of2.requests[q].model
             /\ q \in Busy(of2) => Asks(longer, q, pending[q])
  <2>1. CASE q = r
    <3>1. pending[q] = new
      BY <1>2, <2>1 DEF Knowledge
    <3> HIDE DEF pending, longer
    <3> QED
      BY <1>6, <2>1, <3>1
  <2>2. CASE q # r
    <3>1. pending[q] = known.pending[q] /\ of2.requests[q] = of.requests[q]
      BY <1>2, <2>2 DEF Knowledge
    <3>2. q \in Busy(of2) => q \in Busy(of)
      BY <3>1 DEF Busy
    <3>3. ASSUME q \in Busy(of2) PROVE Asks(longer, q, known.pending[q])
      <4>1. Asks(text, q, known.pending[q])
        BY <3>2, <3>3 DEF Follows
      <4>2. ~Ends(line, q) /\ (line.what = "error" => UnderWay(text, Len(text)) # {q})
        BY <2>2
      <4> HIDE DEF pending
      <4> QED
        BY <4>1, <4>2, AskingStays
    <3> HIDE DEF pending, longer
    <3> QED
      BY <3>1, <3>3 DEF Follows
  <2> QED
    BY <2>1, <2>2
<1>8. UnderWay(longer, Len(text) + 1) = Busy(of2)
  OBVIOUS
<1>9. \A record \in evidence : TrueRecord(longer, record)
  OBVIOUS
<1> HIDE DEF pending
<1>10. /\ next.email = of2.email /\ next.pending = pending
       /\ of2.model # OtherModel => next.model = of2.model
       /\ next.line = Len(text) + 1 /\ next.evidence = evidence
  BY <1>3 DEF Follows
<1> HIDE DEF next, longer
<1>11. Follows(next, longer, of2)
  BY <1>1, <1>5, <1>7, <1>8, <1>9, <1>10 DEF Follows
<1> QED
  BY <1>11 DEF next, longer

LEMMA FollowsLogIn ==
  ASSUME EvidenceInv, log.file = 1, SendsKnown(log'.lines), NEW e \in Emails, LogIn(e)
  PROVE  Follows(Found1(log'.lines), log'.lines, agyState')
<1> DEFINE line == [what |-> "email", text |-> e, request |-> 0, email |-> NoOne, model |-> NoOne]
           known == Found1(log.lines)
           next == AfterLine(known, line)
<1>1. line \in Line /\ log.lines \in Seq(Line) /\ agyState \in AgyStates
  BY DEF Line, AgyModels, EvidenceInv, CacheInv, LogTypeOK, AgyStates, Whose
<1>2. log'.lines = Append(log.lines, line)
  BY DEF LogIn, Log, Idle, EvidenceInv, CacheInv, LogTypeOK
<1>3. Follows(known, log.lines, agyState)
  BY <1>1, <1>2, SentKnown DEF EvidenceInv
<1>4. agyState' = [agyState EXCEPT !.email = e, !.model = NoOne]
  BY DEF LogIn
<1>5. agyState' \in AgyStates /\ agyState'.email = e /\ agyState'.model = NoOne
      /\ agyState'.requests = agyState.requests
  BY <1>1, <1>4 DEF AgyStates, AgyModels
<1>6. next = [known EXCEPT !.line = Len(log.lines) + 1, !.email = e, !.model = NoOne]
  <2>1. known \in Knowledge /\ known.line = Len(log.lines)
    BY <1>3 DEF Follows
  <2> HIDE DEF known
  <2> QED
    BY <2>1 DEF AfterLine, Knowledge
<1>7. next.email = e /\ next.model = NoOne
  <2>1. known \in Knowledge
    BY <1>3 DEF Follows
  <2> HIDE DEF known, next
  <2> QED
    BY <1>6, <2>1 DEF Knowledge
<1>8. line.what \notin {"send", "complete", "error"}
  OBVIOUS
<1> HIDE DEF line, known, next
<1>9. Follows(next, Append(log.lines, line), agyState')
  BY <1>1, <1>3, <1>5, <1>6, <1>7, <1>8, FollowsQuietLine
<1> QED
  BY <1>1, <1>2, <1>9, ReadOneMore DEF next, known

LEMMA FollowsNameModel ==
  ASSUME EvidenceInv, log.file = 1, SendsKnown(log'.lines),
         NEW m \in Models \cup {OtherModel}, NameModel(m)
  PROVE  Follows(Found1(log'.lines), log'.lines, agyState')
<1> DEFINE line == [what |-> "model", text |-> m, request |-> 0, email |-> NoOne, model |-> NoOne]
           known == Found1(log.lines)
           next == AfterLine(known, line)
<1>1. line \in Line /\ log.lines \in Seq(Line) /\ agyState \in AgyStates
  BY DEF Line, AgyModels, EvidenceInv, CacheInv, LogTypeOK, AgyStates, Whose
<1>2. log'.lines = Append(log.lines, line)
  BY DEF NameModel, Log, Idle, EvidenceInv, CacheInv, LogTypeOK
<1>3. Follows(known, log.lines, agyState)
  BY <1>1, <1>2, SentKnown DEF EvidenceInv
<1>4. agyState' = [agyState EXCEPT !.model = m]
  BY DEF NameModel
<1>5. agyState' \in AgyStates /\ agyState'.email = agyState.email /\ agyState'.model = m
      /\ agyState'.requests = agyState.requests
  BY <1>1, <1>4 DEF AgyStates, AgyModels
<1>6. known \in Knowledge /\ known.line = Len(log.lines) /\ known.email = agyState.email
  BY <1>3 DEF Follows
<1> DEFINE named == IF m \in Models THEN m ELSE known.model
<1>7. next = [known EXCEPT !.line = Len(log.lines) + 1, !.model = named]
  <2>1. line.what = "model" /\ line.text = m
    OBVIOUS
  <2> HIDE DEF known, line
  <2> QED
    BY <1>6, <2>1 DEF AfterLine, Knowledge
<1>8. /\ named \in Models \cup {NoOne}
      /\ m # OtherModel => named = m
  <2> HIDE DEF known
  <2> QED
    BY <1>6 DEF Knowledge
<1>9. next.email = known.email /\ next.model = named
      /\ next = [known EXCEPT !.line = Len(log.lines) + 1, !.email = known.email, !.model = named]
  <2> HIDE DEF known, next, named
  <2> QED
    BY <1>6, <1>7 DEF Knowledge
<1>10. line.what \notin {"send", "complete", "error"}
  OBVIOUS
<1> HIDE DEF line, known, next, named
<1>11. Follows(next, Append(log.lines, line), agyState')
  <2>1. next.email \in Emails \cup {NoOne} /\ next.model \in Models \cup {NoOne}
    BY <1>6, <1>8, <1>9 DEF Knowledge
  <2> QED
    BY <1>1, <1>3, <1>5, <1>6, <1>8, <1>9, <1>10, <2>1, FollowsQuietLine
<1> QED
  BY <1>1, <1>2, <1>11, ReadOneMore DEF next, known

LEMMA FollowsSend ==
  ASSUME EvidenceInv, log.file = 1, SendsKnown(log'.lines), NEW r \in Requests, Send(r)
  PROVE  Follows(Found1(log'.lines), log'.lines, agyState')
<1> DEFINE of == [email |-> agyState.email, model |-> agyState.model]
           line == [what |-> "send", text |-> NoOne, request |-> r,
                    email |-> agyState.email, model |-> agyState.model]
           known == Found1(log.lines)
           next == AfterLine(known, line)
           new == [NotPending EXCEPT !.email = agyState.email, !.model = agyState.model]
<1>1. line \in Line /\ log.lines \in Seq(Line) /\ agyState \in AgyStates /\ of \in Whose
  BY DEF Line, AgyModels, EvidenceInv, CacheInv, LogTypeOK, AgyStates, Whose
<1>2. log'.lines = Append(log.lines, line)
  <2>1. Log("send", NoOne, r, of) /\ of.email = agyState.email /\ of.model = agyState.model
    BY DEF Send
  <2> HIDE DEF of
  <2> QED
    BY <2>1 DEF Log, EvidenceInv, CacheInv, LogTypeOK
<1>3. SendsKnown(log.lines) /\ agyState.model \in Models
  <2>1. line.what = "send" /\ line.model = agyState.model
    OBVIOUS
  <2> HIDE DEF line
  <2> QED
    BY <1>1, <1>2, <2>1, SentKnown
<1>4. Follows(known, log.lines, agyState)
  BY <1>3 DEF EvidenceInv
<1>5. /\ agyState.email # NoOne /\ agyState.model # NoOne
      /\ agyState' = [agyState EXCEPT !.requests[r] = of]
  BY DEF Send, EvidenceInv, AgyNames
<1>6. /\ agyState' \in AgyStates /\ agyState'.requests[r] = of
      /\ agyState'.email = agyState.email /\ agyState'.model = agyState.model
      /\ \A q \in Requests \ {r} : agyState'.requests[q] = agyState.requests[q]
  <2> HIDE DEF of
  <2> QED
    BY <1>1, <1>5 DEF AgyStates
<1>7. known \in Knowledge /\ known.line = Len(log.lines) /\ known.email = agyState.email
      /\ known.model = agyState.model
  BY <1>3, <1>4, LogParameters DEF Follows
<1>8. next = [known EXCEPT !.line = Len(log.lines) + 1, !.pending[r] = new]
  <2>1. line.what = "send" /\ line.request = r
    OBVIOUS
  <2> HIDE DEF known, line
  <2> QED
    BY <1>5, <1>7, <2>1 DEF AfterLine, Knowledge
<1>9. next = [known EXCEPT !.line = Len(log.lines) + 1, !.pending[r] = new, !.evidence = known.evidence]
  <2> HIDE DEF known, next, new
  <2> QED
    BY <1>7, <1>8 DEF Knowledge
<1>10. /\ new \in Asked /\ new # NotPending /\ ~new.response
       /\ new.email = agyState.email /\ new.model = agyState.model
  BY <1>1, <1>3, <1>5 DEF Asked, NotPending, AgyStates
<1>11. known.evidence \in SUBSET Records
       /\ \A record \in known.evidence : TrueRecord(Append(log.lines, line), record)
  <2> HIDE DEF known, line
  <2> QED
    BY <1>1, <1>4, <1>7, StaysTrue DEF Follows, Knowledge
<1>12. /\ agyState'.requests[r] # Idle
       /\ new.email = agyState'.requests[r].email /\ new.model = agyState'.requests[r].model
  <2>1. of.email = agyState.email /\ of.model = agyState.model
    OBVIOUS
  <2> HIDE DEF of, new
  <2> QED
    BY <1>5, <1>6, <1>10, <2>1 DEF Idle
<1>13. line.what = "send" /\ line.request = r /\ \A q : ~Ends(line, q)
  BY DEF Ends
<1> HIDE DEF line, known, next, new, of
<1>14. Asks(Append(log.lines, line), r, new)
  BY <1>1, <1>10, <1>13, AskingBegins
<1>15. UnderWay(Append(log.lines, line), Len(log.lines) + 1) = Busy(agyState')
  <2>1. UnderWay(Append(log.lines, line), Len(log.lines) + 1) =
          {q \in Requests : \/ line.what = "send" /\ line.request = q
                            \/ q \in UnderWay(log.lines, Len(log.lines)) /\ ~Ends(line, q)}
    BY <1>1, UnderWayNext
  <2>2. UnderWay(log.lines, Len(log.lines)) = Busy(agyState)
    BY <1>4 DEF Follows
  <2>3. \A q \in Requests : q \in Busy(agyState') <=> (q = r \/ q \in Busy(agyState))
    BY <1>6, <1>12 DEF Busy
  <2>4. Busy(agyState') \subseteq Requests
    BY DEF Busy
  <2> QED
    BY <1>13, <2>1, <2>2, <2>3, <2>4
<1>16. Follows(next, Append(log.lines, line), agyState')
  BY <1>1, <1>4, <1>6, <1>9, <1>10, <1>11, <1>12, <1>13, <1>14, <1>15, FollowsRequest
<1> QED
  BY <1>1, <1>2, <1>16, ReadOneMore DEF next, known

LEMMA FollowsComplete ==
  ASSUME EvidenceInv, log.file = 1, SendsKnown(log'.lines), NEW r \in Requests, Complete(r)
  PROVE  Follows(Found1(log'.lines), log'.lines, agyState')
<1> DEFINE of == agyState.requests[r]
           line == [what |-> "complete", text |-> NoOne, request |-> r,
                    email |-> of.email, model |-> of.model]
           known == Found1(log.lines)
           next == AfterLine(known, line)
           counted == [known EXCEPT !.line = @ + 1]
           request == known.pending[r]
           evidence == IF request.response /\ ~request.failed
                         THEN Recorded(counted, request, "available") ELSE known.evidence
<1>1. log.lines \in Seq(Line) /\ agyState \in AgyStates /\ of \in Whose
  BY DEF EvidenceInv, CacheInv, LogTypeOK, AgyStates, Whose
<1>2. line \in Line
  BY <1>1 DEF Line, Whose, AgyModels
<1>3. log'.lines = Append(log.lines, line)
  BY DEF Complete, Log, EvidenceInv, CacheInv, LogTypeOK
<1>4. Follows(known, log.lines, agyState)
  BY <1>1, <1>2, <1>3, SentKnown DEF EvidenceInv
<1>5. /\ agyState' \in AgyStates /\ agyState'.requests[r] = Idle
      /\ agyState'.email = agyState.email /\ agyState'.model = agyState.model
      /\ \A q \in Requests \ {r} : agyState'.requests[q] = agyState.requests[q]
  <2>1. Idle \in Whose
    BY DEF Idle, Whose, AgyModels
  <2> QED
    BY <1>1, <2>1 DEF Complete, AgyStates
<1>6. /\ known \in Knowledge /\ known.line = Len(log.lines)
      /\ request \in Asked /\ request.email = of.email /\ request.model = of.model
      /\ Asks(log.lines, r, request)
  <2>1. r \in Busy(agyState)
    BY DEF Busy, Complete
  <2> HIDE DEF known
  <2> QED
    BY <1>4, <2>1 DEF Follows, Knowledge
<1>7. /\ counted \in Knowledge /\ counted.line = Len(log.lines) + 1
      /\ counted.evidence = known.evidence /\ counted.pending = known.pending
  <2> HIDE DEF known
  <2> QED
    BY <1>1, <1>6 DEF Knowledge
<1>8. next = [counted EXCEPT !.pending[r] = NotPending, !.evidence = evidence]
  <2> HIDE DEF known, counted
  <2> QED
    BY <1>7 DEF AfterLine, AfterComplete, counted
<1>9. next = [known EXCEPT !.line = Len(log.lines) + 1, !.pending[r] = NotPending, !.evidence = evidence]
  <2> HIDE DEF known, evidence, next
  <2> QED
    BY <1>6, <1>8 DEF Knowledge
<1>10. line.what = "complete" /\ Ends(line, r) /\ \A q \in Requests \ {r} : ~Ends(line, q)
  BY DEF Ends
<1>11. evidence \subseteq Records
       /\ \A record \in evidence : TrueRecord(Append(log.lines, line), record)
  <2>1. CASE request.response /\ ~request.failed
    <3>1. evidence = Recorded(counted, request, "available")
      BY <2>1
    <3>2. \A record \in counted.evidence : TrueRecord(log.lines, record)
      BY <1>4, <1>7 DEF Follows
    <3>3. line.what = "complete" /\ line.email = request.email /\ line.model = request.model
          /\ request.email \in Emails \cup {NoOne} /\ request.model \in Models \cup {NoOne}
      BY <1>6 DEF Asked
    <3> HIDE DEF evidence, line, request, counted
    <3>4. Served(Append(log.lines, line), Len(log.lines) + 1)
      BY <1>1, <1>2, <1>6, <1>10, <2>1, ServedAtItsEnd
    <3> QED
      BY <1>1, <1>2, <1>6, <1>7, <2>1, <3>1, <3>2, <3>3, <3>4, RecordedIsTrue
  <2>2. CASE ~(request.response /\ ~request.failed)
    <3>1. evidence = known.evidence
      BY <2>2
    <3> HIDE DEF evidence, line, known
    <3> QED
      BY <1>1, <1>2, <1>4, <1>6, <3>1, StaysTrue DEF Follows, Knowledge
  <2> QED
    BY <2>1, <2>2
<1>12. NotPending \in Asked /\ ~NotPending.response
       /\ NotPending.email = Idle.email /\ NotPending.model = Idle.model
  BY DEF Asked, NotPending, Idle
<1> HIDE DEF line, known, next, evidence
<1>13. UnderWay(Append(log.lines, line), Len(log.lines) + 1) = Busy(agyState') /\ r \notin Busy(agyState')
  <2>1. UnderWay(Append(log.lines, line), Len(log.lines) + 1) =
          {q \in Requests : \/ line.what = "send" /\ line.request = q
                            \/ q \in UnderWay(log.lines, Len(log.lines)) /\ ~Ends(line, q)}
    BY <1>1, <1>2, UnderWayNext
  <2>2. UnderWay(log.lines, Len(log.lines)) = Busy(agyState)
    BY <1>4 DEF Follows
  <2>3. \A q \in Requests : q \in Busy(agyState') <=> (q # r /\ q \in Busy(agyState))
    BY <1>5 DEF Busy
  <2>4. Busy(agyState') \subseteq Requests
    BY DEF Busy
  <2> QED
    BY <1>10, <2>1, <2>2, <2>3, <2>4
<1>14. Follows(next, Append(log.lines, line), agyState')
  BY <1>1, <1>2, <1>4, <1>5, <1>9, <1>11, <1>12, <1>10, <1>13, FollowsRequest
<1> QED
  BY <1>1, <1>2, <1>3, <1>14, ReadOneMore DEF next, known

LEMMA FollowsAnswer ==
  ASSUME EvidenceInv, log.file = 1, SendsKnown(log'.lines), NEW r \in Requests, Answer(r)
  PROVE  Follows(Found1(log'.lines), log'.lines, agyState')
<1> DEFINE of == agyState.requests[r]
           known == Found1(log.lines)
           counted == [known EXCEPT !.line = @ + 1]
<1>1. PICK what \in {"response", "error"} : Log(what, NoOne, 0, of)
  BY DEF Answer
<1> DEFINE line == [what |-> what, text |-> NoOne, request |-> 0,
                    email |-> of.email, model |-> of.model]
           next == AfterLine(known, line)
<1>2. log.lines \in Seq(Line) /\ agyState \in AgyStates /\ of \in Whose
  BY DEF EvidenceInv, CacheInv, LogTypeOK, AgyStates, Whose
<1>3. line \in Line
  BY <1>1, <1>2 DEF Line, Whose, AgyModels
<1>4. log'.lines = Append(log.lines, line)
  BY <1>1 DEF Log, EvidenceInv, CacheInv, LogTypeOK
<1>5. agyState' = agyState
  BY DEF Answer
<1>6. Follows(known, log.lines, agyState)
  BY <1>2, <1>3, <1>4, SentKnown DEF EvidenceInv
<1>7. /\ known \in Knowledge /\ known.line = Len(log.lines)
      /\ known.pending[r] # NotPending
  <2> HIDE DEF known
  <2> QED
    BY <1>6 DEF Follows, Answer
<1>8. /\ counted \in Knowledge /\ counted.line = Len(log.lines) + 1
      /\ counted.evidence = known.evidence /\ counted.pending = known.pending
  <2> HIDE DEF known
  <2> QED
    BY <1>2, <1>7 DEF Knowledge
<1>9. r \in Pending(counted) /\ Pending(counted) \in SUBSET Requests
  <2> HIDE DEF counted, known
  <2> QED
    BY <1>7, <1>8 DEF Pending
<1>10. next = AfterAnswer(counted, what)
  <2> HIDE DEF counted, known
  <2>1. line.what = what /\ what \in {"response", "error"}
    BY <1>1
  <2> HIDE DEF line
  <2> QED
    BY <2>1 DEF AfterLine, counted
<1>11. /\ line.what = what /\ line.what \notin {"send", "complete"}
       /\ \A q : ~Ends(line, q)
  BY <1>1 DEF Ends
<1>12. /\ UnderWay(log.lines, Len(log.lines)) = Busy(agyState)
       /\ Pending(counted) = Busy(agyState)
  <2> HIDE DEF known, counted
  <2> QED
    BY <1>6, <1>8 DEF Follows, Busy, Pending
<1>13. CASE Cardinality(Pending(counted)) # 1
  <2>1. Latest(counted) = {} /\ Pending(counted) # {}
    BY <1>9, <1>13 DEF Latest
  <2>2. [q \in Requests |-> counted.pending[q]] = counted.pending
    <3> HIDE DEF counted
    <3> QED
      BY <1>8 DEF Knowledge
  <2>3. next = counted
    <3> HIDE DEF counted, line, next
    <3>1. next = [counted EXCEPT !.pending = [q \in Requests |-> counted.pending[q]],
                                 !.evidence = counted.evidence]
      BY <1>10, <2>1 DEF AfterAnswer
    <3> QED
      BY <1>8, <2>2, <3>1 DEF Knowledge
  <2>4. next.email = known.email /\ next.model = known.model
        /\ next.email \in Emails \cup {NoOne} /\ next.model \in Models \cup {NoOne}
        /\ next = [known EXCEPT !.line = Len(log.lines) + 1, !.email = next.email, !.model = next.model]
    <3> HIDE DEF known, next, line
    <3> QED
      BY <1>7, <2>3 DEF Knowledge
  <2>5. /\ known.email = agyState.email
        /\ agyState.model # OtherModel => known.model = agyState.model
    BY <1>6 DEF Follows
  <2>6. \A q \in Requests : UnderWay(log.lines, Len(log.lines)) # {q}
    <3> HIDE DEF counted
    <3> QED
      BY <1>12, <1>13, FS_Singleton
  <2> HIDE DEF line, known, next
  <2>7. Follows(next, Append(log.lines, line), agyState)
    BY <1>2, <1>3, <1>6, <1>11, <2>4, <2>5, <2>6, FollowsQuietLine
  <2> QED
    BY <1>2, <1>3, <1>4, <1>5, <2>7, ReadOneMore DEF next, known
<1>14. CASE Cardinality(Pending(counted)) = 1
  <2> DEFINE before == known.pending[r]
             new == IF what = "response" THEN [before EXCEPT !.response = TRUE]
                    ELSE [before EXCEPT !.failed = TRUE]
             evidence == IF what = "error" /\ before.email # NoOne /\ before.model # NoOne
                           THEN Recorded(counted, before, "limited") ELSE known.evidence
  <2>1. Latest(counted) = {r}
    BY <1>9, <1>14, OnlyRequest DEF Latest
  <2>2. /\ before \in Asked /\ before.email = of.email /\ before.model = of.model
        /\ Asks(log.lines, r, before) /\ r \in Busy(agyState)
        /\ UnderWay(log.lines, Len(log.lines)) = {r}
    <3>1. r \in Busy(agyState)
      BY DEF Busy, Answer
    <3>2. UnderWay(log.lines, Len(log.lines)) = {r}
      <4> HIDE DEF counted
      <4> QED
        BY <1>9, <1>12, <1>14, OnlyRequest
    <3> HIDE DEF known
    <3> QED
      BY <1>6, <1>7, <3>1, <3>2 DEF Follows, Knowledge
  <2>3. (CHOOSE q \in {r} : TRUE) = r
    OBVIOUS
  <2>4. [q \in Requests |-> IF q \notin {r} THEN counted.pending[q]
           ELSE IF what = "response" THEN [counted.pending[q] EXCEPT !.response = TRUE]
           ELSE [counted.pending[q] EXCEPT !.failed = TRUE]] = [known.pending EXCEPT ![r] = new]
    <3>1. counted.pending = known.pending /\ known.pending \in [Requests -> Asked]
      BY <1>7, <1>8 DEF Knowledge
    <3> HIDE DEF counted, known
    <3> QED
      BY <3>1
  <2>5. next = [counted EXCEPT !.pending = [known.pending EXCEPT ![r] = new], !.evidence = evidence]
    <3>1. counted.pending[r] = before /\ counted.evidence = known.evidence
      BY <1>8
    <3> HIDE DEF counted, line, next, new, known, before
    <3> QED
      BY <1>10, <2>1, <2>3, <2>4, <3>1 DEF AfterAnswer
  <2>6. next = [known EXCEPT !.line = Len(log.lines) + 1, !.pending[r] = new, !.evidence = evidence]
    <3> HIDE DEF known, evidence, next, new
    <3> QED
      BY <1>7, <2>5 DEF Knowledge
  <2>7. evidence \subseteq Records
        /\ \A record \in evidence : TrueRecord(Append(log.lines, line), record)
    <3>1. CASE what = "error" /\ before.email # NoOne /\ before.model # NoOne
      <4>1. evidence = Recorded(counted, before, "limited")
        BY <3>1
      <4>2. \A record \in counted.evidence : TrueRecord(log.lines, record)
        BY <1>6, <1>8 DEF Follows
      <4>3. line.what = "error" /\ line.email = before.email /\ line.model = before.model
            /\ before.email \in Emails \cup {NoOne} /\ before.model \in Models \cup {NoOne}
        BY <2>2, <3>1 DEF Asked
      <4> HIDE DEF evidence, line, before, counted
      <4> QED
        BY <1>2, <1>3, <1>8, <4>1, <4>2, <4>3, RecordedIsTrue
    <3>2. CASE ~(what = "error" /\ before.email # NoOne /\ before.model # NoOne)
      <4>1. evidence = known.evidence
        BY <3>2
      <4> HIDE DEF evidence, line, known
      <4> QED
        BY <1>2, <1>3, <1>6, <1>7, <4>1, StaysTrue DEF Follows, Knowledge
    <3> QED
      BY <3>1, <3>2
  <2>8. /\ new \in Asked /\ new.email = of.email /\ new.model = of.model
        /\ new.response => before.response \/ what = "response"
        /\ ~new.failed => ~before.failed /\ what # "error"
    BY <1>1, <2>2 DEF Asked
  <2>9. Asks(Append(log.lines, line), r, new)
    <3>1. /\ new.response => \/ before.response
                             \/ line.what = "response" /\ UnderWay(log.lines, Len(log.lines)) = {r}
          /\ ~new.failed => /\ ~before.failed
                            /\ line.what = "error" => UnderWay(log.lines, Len(log.lines)) # {r}
      <4> HIDE DEF new, before, line
      <4> QED
        BY <1>11, <2>2, <2>8
    <3> HIDE DEF new, before, line
    <3> QED
      BY <1>2, <1>3, <1>11, <2>2, <3>1, AskingStays
  <2>10. of # Idle /\ new # NotPending
    <3>1. of # Idle
      BY DEF Answer
    <3>2. of.email # NoOne
      <4>1. of \in [email: Emails, model: Models \cup {OtherModel}]
        BY <3>1 DEF EvidenceInv, AgyNames
      <4>2. of.email \in Emails
        BY <4>1
      <4> QED
        BY <4>2, LogParameters
    <3> QED
      BY <2>8, <3>1, <3>2, LogParameters DEF NotPending
  <2>11. UnderWay(Append(log.lines, line), Len(log.lines) + 1) = Busy(agyState)
    <3>1. UnderWay(Append(log.lines, line), Len(log.lines) + 1) =
            {q \in Requests : \/ line.what = "send" /\ line.request = q
                              \/ q \in UnderWay(log.lines, Len(log.lines)) /\ ~Ends(line, q)}
      BY <1>2, <1>3, UnderWayNext
    <3>2. Busy(agyState) \subseteq Requests
      BY DEF Busy
    <3> HIDE DEF line
    <3> QED
      BY <1>11, <1>12, <3>1, <3>2
  <2>12. \A q \in Requests \ {r} : UnderWay(log.lines, Len(log.lines)) # {q}
    BY <2>2
  <2> HIDE DEF line, known, next, evidence, new
  <2>13. Follows(next, Append(log.lines, line), agyState)
    BY <1>2, <1>3, <1>6, <1>11, <2>6, <2>7, <2>8, <2>9, <2>10, <2>11, <2>12, FollowsRequest
  <2> QED
    BY <1>2, <1>3, <1>4, <1>5, <2>13, ReadOneMore DEF next, known
<1> QED
  BY <1>13, <1>14

LEMMA EvidenceStarts == LogInit => EvidenceInv
<1> SUFFICES ASSUME LogInit PROVE EvidenceInv
  OBVIOUS
<1> DEFINE someone == CHOOSE f \in Emails : TRUE
<1>1. PICK e \in Emails, m \in Models, before \in {<<>>, <<Told("email", someone)>>} :
        log = [lines |-> before \o <<Told("email", e), Told("model", m)>>, file |-> 1, logged |-> 0]
          /\ agyState = [email |-> e, model |-> m, requests |-> [r \in Requests |-> Idle]]
  BY DEF LogInit
<1>2. someone \in Emails
  OBVIOUS
<1> HIDE DEF someone
<1> DEFINE E(x) == Told("email", x)
           M == Told("model", m)
           Fresh(x, y, n) == [email |-> x, model |-> y, pending |-> [r \in Requests |-> NotPending],
                              evidence |-> {}, line |-> n]
<1>3. M \in Line /\ \A x \in Emails : E(x) \in Line
  BY DEF Told, Line, AgyModels
<1>4. Found1(<<>>) = NothingRead
  <2>1. Len(<<>>) \in Nat /\ Len(<<>>) = 0 /\ 0 \in 0..Len(<<>>)
    OBVIOUS
  <2> QED
    BY <2>1, ReadingDef DEF Found1
<1>5. ASSUME NEW x, NEW y, NEW n, NEW z
      PROVE  AfterLine(Fresh(x, y, n), E(z)) = Fresh(z, NoOne, n + 1)
  <2>1. E(z).what = "email" /\ E(z).text = z
    BY DEF Told
  <2>2. Fresh(x, y, n).line = n
    OBVIOUS
  <2>3. [[Fresh(x, y, n) EXCEPT !.line = n + 1] EXCEPT !.email = z, !.model = NoOne]
          = Fresh(z, NoOne, n + 1)
    <3> DEFINE p == [r \in Requests |-> NotPending]
               none == {}
               k == n + 1
    <3>1. PICK a, b : a = Fresh(x, y, n) /\ b = [[a EXCEPT !.line = n + 1] EXCEPT !.email = z, !.model = NoOne]
      OBVIOUS
    <3>2. /\ a = [email |-> x, model |-> y, pending |-> p, evidence |-> none, line |-> n]
          /\ Fresh(z, NoOne, n + 1) =
               [email |-> z, model |-> NoOne, pending |-> p, evidence |-> none, line |-> n + 1]
      BY <3>1
    <3> HIDE DEF p, none, k, Fresh
    <3>3. b = [email |-> z, model |-> NoOne, pending |-> p, evidence |-> none, line |-> k]
      <4>1. b = [[a EXCEPT !.line = k] EXCEPT !.email = z, !.model = NoOne]
        BY <3>1 DEF k
      <4>2. a = [email |-> x, model |-> y, pending |-> p, evidence |-> none, line |-> n]
        BY <3>2
      <4> QED
        BY <4>1, <4>2
    <3> QED
      BY <3>1, <3>2, <3>3 DEF k
  <2> HIDE DEF E, Fresh
  <2> QED
    BY <2>1, <2>2, <2>3 DEF AfterLine
<1>6. ASSUME NEW x, NEW n PROVE AfterLine(Fresh(x, NoOne, n), M) = Fresh(x, m, n + 1)
  <2>1. M.what = "model" /\ M.text = m
    BY DEF Told
  <2>2. Fresh(x, NoOne, n).line = n /\ Fresh(x, NoOne, n).email = x
    OBVIOUS
  <2>3. [[Fresh(x, NoOne, n) EXCEPT !.line = n + 1] EXCEPT !.model = m] = Fresh(x, m, n + 1)
    <3> DEFINE p == [r \in Requests |-> NotPending]
               none == {}
               k == n + 1
    <3>1. PICK a, b : a = Fresh(x, NoOne, n) /\ b = [[a EXCEPT !.line = n + 1] EXCEPT !.model = m]
      OBVIOUS
    <3>2. /\ a = [email |-> x, model |-> NoOne, pending |-> p, evidence |-> none, line |-> n]
          /\ Fresh(x, m, n + 1) =
               [email |-> x, model |-> m, pending |-> p, evidence |-> none, line |-> n + 1]
      BY <3>1
    <3> HIDE DEF p, none, k, Fresh
    <3>3. b = [email |-> x, model |-> m, pending |-> p, evidence |-> none, line |-> k]
      <4>1. b = [[a EXCEPT !.line = k] EXCEPT !.model = m]
        BY <3>1 DEF k
      <4>2. a = [email |-> x, model |-> NoOne, pending |-> p, evidence |-> none, line |-> n]
        BY <3>2
      <4> QED
        BY <4>1, <4>2
    <3> QED
      BY <3>1, <3>2, <3>3 DEF k
  <2> HIDE DEF M, Fresh
  <2> QED
    BY <2>1, <2>2, <2>3 DEF AfterLine
<1>7. NothingRead = Fresh(NoOne, NoOne, 0)
  BY DEF NothingRead
<1> HIDE DEF E, M, Fresh
<1>8. /\ Found1(log.lines) = Fresh(e, m, Len(log.lines)) /\ log.lines \in Seq(Line)
      /\ Len(log.lines) \in Nat
  <2>1. CASE before = <<>>
    <3> DEFINE s1 == Append(<<>>, E(e))
               s2 == Append(s1, M)
    <3>1. log.lines = s2 /\ s1 \in Seq(Line) /\ s2 \in Seq(Line) /\ Len(s2) = 2
      BY <1>1, <1>3, <2>1 DEF E, M
    <3>2. Found1(s1) = Fresh(e, NoOne, 1)
      <4>1. <<>> \in Seq(Line) /\ E(e) \in Line
        BY <1>3
      <4>2. Found1(s1) = AfterLine(NothingRead, E(e))
        BY <1>4, <4>1, ReadOneMore
      <4> QED
        BY <1>5, <1>7, <4>2
    <3>3. Found1(s2) = AfterLine(Found1(s1), M)
      <4> HIDE DEF s1
      <4> QED
        BY <1>3, <3>1, ReadOneMore
    <3> HIDE DEF s1, s2
    <3> QED
      BY <1>6, <3>1, <3>2, <3>3
  <2>2. CASE before = <<E(someone)>>
    <3> DEFINE s0 == Append(<<>>, E(someone))
               s1 == Append(s0, E(e))
               s2 == Append(s1, M)
    <3>1. log.lines = s2 /\ s0 \in Seq(Line) /\ s1 \in Seq(Line) /\ s2 \in Seq(Line) /\ Len(s2) = 3
      BY <1>1, <1>2, <1>3, <2>2 DEF E, M
    <3>2. Found1(s0) = Fresh(someone, NoOne, 1)
      <4>1. <<>> \in Seq(Line) /\ E(someone) \in Line
        BY <1>2, <1>3
      <4>2. Found1(s0) = AfterLine(NothingRead, E(someone))
        BY <1>4, <4>1, ReadOneMore
      <4> QED
        BY <1>5, <1>7, <4>2
    <3>3. Found1(s1) = AfterLine(Found1(s0), E(e))
      <4> HIDE DEF s0
      <4> QED
        BY <1>3, <3>1, ReadOneMore
    <3>4. Found1(s2) = AfterLine(Found1(s1), M)
      <4> HIDE DEF s1
      <4> QED
        BY <1>3, <3>1, ReadOneMore
    <3> HIDE DEF s0, s1, s2
    <3>5. Found1(s1) = Fresh(e, NoOne, 2)
      BY <1>5, <3>2, <3>3
    <3> QED
      BY <1>6, <3>1, <3>4, <3>5
  <2> QED
    BY <1>1, <2>1, <2>2 DEF E
<1>9. CacheInv /\ AgyNames /\ log.file # 0
  <2>1. e # NoOne /\ \A r \in Requests : agyState.requests[r] = Idle
    BY <1>1, LogParameters
  <2> QED
    BY <1>1, <2>1, LogStarts DEF AgyNames
<1>10. UnderWay(log.lines, Len(log.lines)) = {} /\ Busy(agyState) = {}
  <2>1. \A i \in 1..Len(log.lines) : log.lines[i].what # "send"
    BY <1>1 DEF Told
  <2>2. Busy(agyState) = {}
    BY <1>1 DEF Busy
  <2> QED
    BY <2>1, <2>2 DEF UnderWay
<1>11. Fresh(e, m, Len(log.lines)) \in Knowledge
  BY <1>8 DEF Fresh, NothingRead, NotPending, Knowledge, Asked
<1>12. Follows(Fresh(e, m, Len(log.lines)), log.lines, agyState)
  <2>1. /\ Fresh(e, m, Len(log.lines)).email = e /\ Fresh(e, m, Len(log.lines)).model = m
        /\ Fresh(e, m, Len(log.lines)).line = Len(log.lines)
        /\ Fresh(e, m, Len(log.lines)).evidence = {}
        /\ \A r \in Requests : Fresh(e, m, Len(log.lines)).pending[r] = NotPending
    BY DEF Fresh, NothingRead
  <2>2. /\ agyState.email = e /\ agyState.model = m
        /\ \A r \in Requests : agyState.requests[r] = Idle
    BY <1>1
  <2>3. NotPending.email = Idle.email /\ NotPending.model = Idle.model /\ ~NotPending.response
    BY DEF NotPending, Idle
  <2> QED
    BY <1>10, <1>11, <2>1, <2>2, <2>3 DEF Follows
<1> QED
  BY <1>8, <1>9, <1>12 DEF EvidenceInv

LEMMA EvidenceStays == EvidenceInv /\ [LogNext]_logVars => EvidenceInv'
<1> SUFFICES ASSUME EvidenceInv, [LogNext]_logVars PROVE EvidenceInv'
  OBVIOUS
<1>1. CacheInv'
  BY LogStays DEF EvidenceInv
<1>2. log'.file # 0 /\ (log'.file = 1 => log.file = 1)
  <2> USE DEF EvidenceInv, CacheInv, LogTypeOK
  <2>1. ASSUME NEW what, NEW text, NEW request, NEW of, Log(what, text, request, of)
        PROVE  log'.file = log.file
    BY <2>1 DEF Log
  <2>2. CASE Rotate
    BY <2>2 DEF Rotate
  <2>3. ASSUME ~Rotate PROVE log'.file = log.file
    BY <2>1, <2>3 DEF LogNext, LogIn, NameModel, Send, Answer, Complete, Discover, ReadLog,
                      ReadLogFails, logVars
  <2> QED
    BY <2>2, <2>3
<1>3. AgyNames'
  <2> USE LogParameters DEF EvidenceInv, CacheInv, LogTypeOK, AgyNames
  <2>1. ASSUME NEW e \in Emails, LogIn(e) PROVE AgyNames'
    BY <2>1 DEF LogIn
  <2>2. ASSUME NEW m \in Models \cup {OtherModel}, NameModel(m) PROVE AgyNames'
    BY <2>2 DEF NameModel
  <2>3. ASSUME NEW r \in Requests, Send(r) PROVE AgyNames'
    <3>1. agyState.email \in Emails /\ agyState.model \in Models \cup {OtherModel}
      BY <2>3 DEF Send, AgyModels
    <3> QED
      BY <2>3, <3>1 DEF Send
  <2>4. ASSUME NEW r \in Requests, Answer(r) PROVE AgyNames'
    BY <2>4 DEF Answer
  <2>5. ASSUME NEW r \in Requests, Complete(r) PROVE AgyNames'
    BY <2>5 DEF Complete
  <2>6. CASE Rotate \/ Discover \/ ReadLog \/ ReadLogFails \/ UNCHANGED logVars
    BY <2>6 DEF Rotate, Discover, ReadLog, ReadLogFails, logVars
  <2> QED
    BY <2>1, <2>2, <2>3, <2>4, <2>5, <2>6 DEF LogNext
<1>4. ASSUME log'.file = 1, SendsKnown(log'.lines) PROVE Follows(Found1(log'.lines), log'.lines, agyState')
  <2>1. log.file = 1
    BY <1>2, <1>4
  <2>2. CASE Rotate
    BY <1>4, <2>1, <2>2 DEF Rotate, EvidenceInv, CacheInv, LogTypeOK
  <2>3. CASE Discover \/ ReadLog \/ ReadLogFails \/ UNCHANGED logVars
    <3>1. log' = log /\ agyState' = agyState
      BY <2>3 DEF Discover, ReadLog, ReadLogFails, logVars
    <3> QED
      BY <1>4, <2>1, <3>1 DEF EvidenceInv
  <2> QED
    BY <1>4, <2>1, <2>2, <2>3, FollowsLogIn, FollowsNameModel, FollowsSend, FollowsAnswer,
       FollowsComplete
       DEF LogNext
<1> QED
  BY <1>1, <1>2, <1>3, <1>4 DEF EvidenceInv

\* Whatever accounts, models and requests of agy are in a log that tells of them,
\* in whatever order, and whatever models of other families it names between: a
\* limit that the scanner records was met by the only request under way, and what
\* is available had a request with a response and no error while it was the only
\* one (logs.go:302-428).
THEOREM EvidenceStaysTrue == LogSpec => []EvidenceIsTrue
<1>1. EvidenceInv => EvidenceIsTrue
  <2> SUFFICES ASSUME EvidenceInv, log.file = 1, Len(log.lines) <= Window, Tells(log.lines),
                      NEW record \in Evidence(log.lines, Len(log.lines))
               PROVE  TrueRecord(log.lines, record)
    BY DEF EvidenceIsTrue, Tells, TrueRecord
  <2>1. log.lines \in Seq(Line) /\ Len(log.lines) \in Nat
    BY DEF EvidenceInv, CacheInv, LogTypeOK
  <2>2. View(log.lines, Len(log.lines)) = SubSeq(log.lines, 1, Len(log.lines))
    <3>1. ~(Len(log.lines) > Window) /\ ~(Len(log.lines) < Len(log.lines))
      BY <2>1, LogParameters
    <3> QED
      BY <3>1 DEF View
  <2>3. View(log.lines, Len(log.lines)) = log.lines
    BY <2>1, <2>2, SubSeqFull
  <2>4. Evidence(log.lines, Len(log.lines)) = Found1(log.lines).evidence
    BY <2>3 DEF Evidence, Found1
  <2>5. SendsKnown(log.lines)
    BY <2>1 DEF Tells, SendsKnown
  <2> QED
    BY <2>4, <2>5 DEF EvidenceInv, Follows
<1> QED
  BY <1>1, EvidenceStarts, EvidenceStays, PTL DEF LogSpec
================================================================================
