-------------------------------- MODULE LogScan --------------------------------
(***************************************************************************)
(* What agy-swap learns from the logs of agy (src/internal/app/logs.go):   *)
(* which account has used up, or not, its quota of which model.            *)
(*                                                                         *)
(* agy logs the account it uses, the model of a request, that a request is *)
(* sent, its responses and errors, and its end.  Responses and errors do   *)
(* not say whose they are.  The scanner reads the end of a log file up to  *)
(* the size the file had when it was found, and keeps what it has read in  *)
(* a cache under the size and time of the file.                            *)
(***************************************************************************)
EXTENDS Naturals, FiniteSets, Sequences

CONSTANTS
  Emails,
  Models,     \* of the families the scanner knows
  Requests,   \* that are under way at a time; conversations are numbered
  Window,     \* how many lines at the end of the file are read
  MaxLines,   \* bound: what is logged after the first lines
  MaxFiles    \* bound: the file is replaced MaxFiles - 1 times

VARIABLES
  log,       \* the lines of the file, how often it was replaced, and how many were logged
  agyState,  \* the account of agy, the model it has named, and the requests under way
  scanner,   \* where the scanner is and what it found
  cache      \* the evidence of a file of this age and size

logVars == <<log, agyState, scanner, cache>>

NoOne == "no one"
OtherModel == "other"   \* of a family the scanner does not know

ASSUME LogParameters ==
  /\ NoOne \notin Emails \cup Models /\ OtherModel \notin Models
  /\ Requests \subseteq Nat /\ IsFiniteSet(Requests)
  /\ Window \in Nat \ {0} /\ MaxLines \in Nat /\ MaxFiles \in Nat \ {0}

\* A line ("email", "model", "send", "response", "error" or "complete"), and whose
\* request, response or error it really is, which it does not say.
Told(what, text) ==
  [what |-> what, text |-> text, request |-> 0, email |-> NoOne, model |-> NoOne]

Idle == [email |-> NoOne, model |-> NoOne]

\* agy has logged its account and a model, and perhaps a login before that.
LogInit ==
  /\ \E e \in Emails, m \in Models, before \in {<<>>, <<Told("email", CHOOSE e \in Emails : TRUE)>>} :
       /\ log = [lines |-> before \o <<Told("email", e), Told("model", m)>>, file |-> 1, logged |-> 0]
       /\ agyState = [email |-> e, model |-> m, requests |-> [r \in Requests |-> Idle]]
  /\ scanner = [pc |-> "idle", file |-> 0, size |-> 0]
  /\ cache = [file |-> 0, size |-> 0, evidence |-> {}]

-----------------------------------------------------------------------------
(* agy *)

Log(what, text, request, of) ==
  /\ log.logged < MaxLines
  /\ log' = [log EXCEPT !.logged = @ + 1, !.lines = Append(@,
       [what |-> what, text |-> text, request |-> request, email |-> of.email, model |-> of.model])]
  /\ UNCHANGED <<scanner, cache>>

LogIn(e) ==
  /\ agyState.email # e
  /\ Log("email", e, 0, Idle)
  /\ agyState' = [agyState EXCEPT !.email = e, !.model = NoOne]

NameModel(m) ==
  /\ m # agyState.model /\ agyState.email # NoOne
  /\ Log("model", m, 0, Idle)
  /\ agyState' = [agyState EXCEPT !.model = m]

Send(r) ==
  /\ agyState.requests[r] = Idle /\ agyState.model # NoOne
  /\ \A q \in Requests : q < r => agyState.requests[q] # Idle
  /\ Log("send", NoOne, r, [email |-> agyState.email, model |-> agyState.model])
  /\ agyState' = [agyState EXCEPT !.requests[r] = [email |-> agyState.email, model |-> agyState.model]]

Answer(r) ==
  /\ agyState.requests[r] # Idle
  /\ \E what \in {"response", "error"} : Log(what, NoOne, 0, agyState.requests[r])
  /\ UNCHANGED agyState

Complete(r) ==
  /\ agyState.requests[r] # Idle
  /\ Log("complete", NoOne, r, agyState.requests[r])
  /\ agyState' = [agyState EXCEPT !.requests[r] = Idle]

\* agy begins a new file under the same name.
Rotate ==
  /\ log.file < MaxFiles /\ log.lines # <<>>
  /\ log' = [log EXCEPT !.lines = <<>>, !.file = @ + 1]
  /\ UNCHANGED <<agyState, scanner, cache>>

-----------------------------------------------------------------------------
(* scanLogFile *)

NotPending == [email |-> NoOne, model |-> NoOne, response |-> FALSE, failed |-> FALSE]
NothingRead == [email |-> NoOne, model |-> NoOne, pending |-> [r \in Requests |-> NotPending],
            evidence |-> {}, line |-> 0]

Pending(known) == {r \in Requests : known.pending[r] # NotPending}

\* The record of an account and model is replaced by what was observed later.
Recorded(known, of, state) ==
  {record \in known.evidence : <<record.email, record.model>> # <<of.email, of.model>>}
    \cup {[email |-> of.email, model |-> of.model, state |-> state, line |-> known.line]}

\* Faulty: of several requests any is taken.
AnyRequest(known) ==
  IF Pending(known) # {} THEN {CHOOSE r \in Requests : r \in Pending(known)} ELSE {}

\* The request that a response or an error is taken to belong to.
Latest(known) == IF Cardinality(Pending(known)) = 1 THEN Pending(known) ELSE {}

AfterAnswer(known, what) ==
  LET latest == Latest(known)
      pending == [r \in Requests |-> IF r \notin latest THEN known.pending[r]
                    ELSE IF what = "response" THEN [known.pending[r] EXCEPT !.response = TRUE]
                    ELSE [known.pending[r] EXCEPT !.failed = TRUE]]
      of == IF latest = {} THEN [email |-> known.email, model |-> known.model]
            ELSE known.pending[CHOOSE r \in latest : TRUE]
      counts == what = "error" /\ (latest # {} \/ Pending(known) = {})
                  /\ of.email # NoOne /\ of.model # NoOne
  IN [known EXCEPT !.pending = pending,
        !.evidence = IF counts THEN Recorded(known, of, "limited") ELSE @]

AfterComplete(known, r) ==
  LET request == known.pending[r] IN
    [known EXCEPT !.pending[r] = NotPending,
       !.evidence = IF request.response /\ ~request.failed
                      THEN Recorded(known, request, "available") ELSE @]

AfterLine(before, line) ==
  LET known == [before EXCEPT !.line = @ + 1] IN
    CASE line.what = "email"    -> [known EXCEPT !.email = line.text, !.model = NoOne]
      [] line.what = "model"    -> IF line.text \in Models THEN [known EXCEPT !.model = line.text]
                                   ELSE known
      [] line.what = "send"     -> IF known.email = NoOne \/ known.model = NoOne THEN known
                                   ELSE [known EXCEPT !.pending[line.request] =
                                     [NotPending EXCEPT !.email = known.email, !.model = known.model]]
      [] line.what \in {"response", "error"} -> AfterAnswer(known, line.what)
      [] line.what = "complete" -> AfterComplete(known, line.request)

\* The first line is cut off when the file is longer.
View(lines, size) ==
  SubSeq(lines, IF size > Window THEN size - Window + 2 ELSE 1, IF size < Len(lines) THEN size ELSE Len(lines))

\* What is known after the first n lines.
Reading(lines) ==
  LET known[n \in 0..Len(lines)] ==
        IF n = 0 THEN NothingRead ELSE AfterLine(known[n - 1], lines[n])
  IN known

Evidence(lines, size) == LET view == View(lines, size) IN Reading(view)[Len(view)].evidence

-----------------------------------------------------------------------------
(* Scan *)

Discover ==
  /\ scanner.pc = "idle"
  /\ scanner' = IF cache.file = log.file /\ cache.size = Len(log.lines)
                  THEN scanner
                  ELSE [pc |-> "read", file |-> log.file, size |-> Len(log.lines)]
  /\ UNCHANGED <<log, agyState, cache>>

\* Faulty: the size is taken when the file has been read.
ReadThenStat ==
  /\ scanner.pc = "read"
  /\ cache' = [file |-> log.file, size |-> Len(log.lines), evidence |-> Evidence(log.lines, scanner.size)]
  /\ scanner' = [scanner EXCEPT !.pc = "idle"]
  /\ UNCHANGED <<log, agyState>>

\* The file is read, up to the size it had, and the cache is written.
ReadLog ==
  /\ scanner.pc = "read"
  /\ cache' = [file |-> scanner.file, size |-> scanner.size, evidence |-> Evidence(log.lines, scanner.size)]
  /\ scanner' = [scanner EXCEPT !.pc = "idle"]
  /\ UNCHANGED <<log, agyState>>

ReadLogFails ==
  /\ scanner.pc = "read"
  /\ scanner' = [scanner EXCEPT !.pc = "idle"]
  /\ UNCHANGED <<log, agyState, cache>>

LogNext ==
  \/ \E e \in Emails : LogIn(e)
  \/ \E m \in Models \cup {OtherModel} : NameModel(m)
  \/ \E r \in Requests : Send(r) \/ Answer(r) \/ Complete(r)
  \/ Rotate \/ Discover \/ ReadLog \/ ReadLogFails

LogSpec == LogInit /\ [][LogNext]_logVars

-----------------------------------------------------------------------------
(* Properties *)

\* What the cache has of a file that has not changed since is what reading the
\* file would tell, whatever agy has logged and replaced while it was read
\* (logs.go:135-163).
CacheIsCurrent ==
  cache.file = log.file /\ cache.size = Len(log.lines) =>
    cache.evidence = Evidence(log.lines, cache.size)

\* Nothing is cut off, and all requests are of models the scanner knows.  A model
\* of another family leaves the one before current: its requests are taken for
\* requests of that one (logs.go:263-267, 351-359).
Tells(lines) ==
  /\ Len(lines) <= Window
  /\ \A i \in DOMAIN lines : lines[i].what = "send" => lines[i].model \in Models

Ends(line, r) == line.what = "complete" /\ line.request = r

\* The requests that are under way at the line i.
UnderWay(lines, i) ==
  {r \in Requests : \E s \in 1..i : /\ lines[s].what = "send" /\ lines[s].request = r
                                   /\ \A j \in s..i : ~Ends(lines[j], r)}

\* The request that ends at the line n was the only one under way at a response,
\* and at no error.
Served(lines, n) ==
  LET r == lines[n].request IN
    \E s \in 1..n :
      /\ lines[s].what = "send" /\ lines[s].request = r
      /\ \A j \in s..n - 1 : ~Ends(lines[j], r)
      /\ \E i \in s..n : lines[i].what = "response" /\ UnderWay(lines, i) = {r}
      /\ \A i \in s..n : lines[i].what = "error" => UnderWay(lines, i) # {r}

\* What the scanner makes of the file that agy began with, as far as it tells of
\* its requests: a limit is one that this account met with this model; and an
\* account and model are available when a request of theirs has ended that had a
\* response, and no error, while it was the only one (logs.go:302-428).  Errors
\* that come while several requests are under way are charged to none of them, so
\* that a request with such an error may count as one without.
EvidenceIsTrue ==
  log.file = 1 /\ Tells(log.lines) =>
    \A record \in Evidence(log.lines, Len(log.lines)) :
      LET line == log.lines[record.line] IN
        /\ line.what = (IF record.state = "limited" THEN "error" ELSE "complete")
        /\ line.email = record.email /\ line.model = record.model
        /\ record.state = "available" => Served(log.lines, record.line)
=============================================================================
