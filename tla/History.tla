-------------------------------- MODULE History --------------------------------
(***************************************************************************)
(* The history file (src/internal/app/history.go): one line per event,     *)
(* appended and then trimmed under the lock of the file, by age and by     *)
(* size.  A clear removes it under the same lock.                          *)
(*                                                                         *)
(* A process can be killed in the middle of its write, which leaves part   *)
(* of a line; what is appended next becomes part of that line.             *)
(***************************************************************************)
EXTENDS Naturals, Sequences, SequencesExt

CONSTANTS
  Writers,
  Clearers,
  KeptLines,      \* how many lines fit (all lines are of one size here)
  Retention,      \* how long an event is kept
  MaxTime         \* bound

VARIABLES
  lines,       \* of the file: whose event, and when it was
  historyLock, \* who has it
  writer,      \* what each process does; what it has read to trim
  enabled,     \* whether the settings have the history on
  now

historyVars == <<lines, historyLock, writer, enabled, now>>

\* A line that a kill has cut off, and one with the next event at its end.
CutOff == [by |-> "cut off", at |-> 0]
Spoiled == [by |-> "spoiled", at |-> 0]
Garbage == {CutOff, Spoiled}
Free == "free"
HistoryProcesses == Writers \cup Clearers

ASSUME HistoryParameters ==
  /\ Free \notin HistoryProcesses
  /\ KeptLines \in Nat \ {0} /\ Retention \in Nat \ {0} /\ MaxTime \in Nat

HistoryInit ==
  /\ lines = <<>>
  /\ historyLock = Free
  /\ writer = [w \in HistoryProcesses |-> [pc |-> "begin", read |-> <<>>]]
  /\ enabled = TRUE
  /\ now = 0

Has(w, step) == writer[w].pc = step
Turn(w, next) == writer' = [writer EXCEPT ![w].pc = next]

-----------------------------------------------------------------------------
(* appendHistory *)

\* The settings are read before the lock is taken.
ReadEnabled(w) ==
  /\ Has(w, "begin") /\ w \in Writers
  /\ Turn(w, IF enabled THEN "lock" ELSE "off")
  /\ UNCHANGED <<lines, historyLock, enabled, now>>

\* Faulty: nobody waits for the lock.
LockNotTaken(w) ==
  /\ Has(w, "lock")
  /\ historyLock' = w
  /\ Turn(w, IF w \in Writers THEN "append" ELSE "clear")
  /\ UNCHANGED <<lines, enabled, now>>

LockHistory(w) ==
  /\ Has(w, "lock")
  /\ historyLock = Free
  /\ historyLock' = w
  /\ Turn(w, IF w \in Writers THEN "append" ELSE "clear")
  /\ UNCHANGED <<lines, enabled, now>>

Torn == lines # <<>> /\ Last(lines) = CutOff

AppendLine(w) ==
  /\ Has(w, "append")
  /\ lines' = IF Torn THEN Append(Front(lines), Spoiled) ELSE Append(lines, [by |-> w, at |-> now])
  /\ Turn(w, "read")
  /\ UNCHANGED <<historyLock, enabled, now>>

ReadToTrim(w) ==
  /\ Has(w, "read")
  /\ writer' = [writer EXCEPT ![w] = [pc |-> "trim", read |-> lines]]
  /\ UNCHANGED <<lines, historyLock, enabled, now>>

Old(line) == line.at + Retention < now

\* What is left of the first n lines without garbage and what is too old.
Sifted(read) ==
  LET sifted[n \in 0..Len(read)] ==
        IF n = 0 THEN <<>>
        ELSE IF read[n] \in Garbage \/ Old(read[n]) THEN sifted[n - 1]
        ELSE Append(sifted[n - 1], read[n])
  IN sifted

\* The newest of these that fit.
Trimmed(read) ==
  LET kept == Sifted(read)[Len(read)]
  IN SubSeq(kept, IF Len(kept) > KeptLines THEN Len(kept) - KeptLines + 1 ELSE 1, Len(kept))

\* trimHistoryUnlocked replaces the file, and the lock is released.
Trim(w) ==
  /\ Has(w, "trim")
  /\ lines' = Trimmed(writer[w].read)
  /\ historyLock' = Free
  /\ writer' = [writer EXCEPT ![w] = [pc |-> "kept", read |-> <<>>]]
  /\ UNCHANGED <<enabled, now>>

-----------------------------------------------------------------------------

\* clearHistory
BeginClear(c) ==
  /\ Has(c, "begin") /\ c \in Clearers
  /\ Turn(c, "lock")
  /\ UNCHANGED <<lines, historyLock, enabled, now>>

Clear(c) ==
  /\ Has(c, "clear")
  /\ lines' = <<>>
  /\ historyLock' = Free
  /\ Turn(c, "cleared")
  /\ UNCHANGED <<enabled, now>>

SwitchOff ==
  /\ enabled
  /\ enabled' = FALSE
  /\ UNCHANGED <<lines, historyLock, writer, now>>

\* The lock goes with the process.
KillWriter(w) ==
  /\ writer[w].pc \in {"append", "read", "trim"}
  /\ \/ Has(w, "append") /\ ~Torn /\ lines' = Append(lines, CutOff)
     \/ lines' = lines
  /\ historyLock' = Free
  /\ writer' = [writer EXCEPT ![w] = [pc |-> "killed", read |-> <<>>]]
  /\ UNCHANGED <<enabled, now>>

TimePasses ==
  /\ now < MaxTime
  /\ now' = now + 1
  /\ UNCHANGED <<lines, historyLock, writer, enabled>>

HistoryStep(w) ==
  \/ ReadEnabled(w) \/ BeginClear(w) \/ LockHistory(w) \/ AppendLine(w) \/ ReadToTrim(w)
  \/ Trim(w) \/ Clear(w)

HistoryNext ==
  \/ \E w \in HistoryProcesses : HistoryStep(w) \/ KillWriter(w)
  \/ SwitchOff \/ TimePasses

HistorySpec == HistoryInit /\ [][HistoryNext]_historyVars

-----------------------------------------------------------------------------
(* Properties *)

\* An event leaves the history only by a clear, because it is too old, or to make
\* room for newer ones: no other process that appends or trims drops it; and only
\* a line cut off by a kill can swallow one (history.go:23-108).
EventsKept ==
  [][/\ \A line \in ToSet(lines) \ Garbage : line \notin ToSet(lines') =>
          \/ \E c \in Clearers : Has(c, "clear")
          \/ Old(line)
          \/ \E i \in DOMAIN lines : i + KeptLines <= Len(lines) /\ lines[i] = line
     /\ \A w \in Writers : Has(w, "append") /\ writer'[w].pc = "read" =>
          Torn \/ \E at \in 0..now : [by |-> w, at |-> at] \in ToSet(lines')]_historyVars

=============================================================================
