--------------------------------- MODULE Watch ---------------------------------
(***************************************************************************)
(* agy-swap watch (src/internal/app/history.go, watchOnce): reads the      *)
(* quota of an account again and again and tells the user when it is low,  *)
(* when it is back, and when it cannot be read, each at most once in a     *)
(* while.  What was told when is kept in a file of its own, which nobody   *)
(* locks: it is loaded after the quota was read and saved at the end.      *)
(* Neither a notification that fails nor a save that fails is noticed.     *)
(***************************************************************************)
EXTENDS Naturals

CONSTANTS
  Watchers,
  WatchPlans,   \* who watches
  Groups,       \* the pools of the account, numbered in their order
  Cooldown,
  MaxClock      \* bound

ASSUME WatchParameters ==
  /\ WatchPlans \subseteq SUBSET Watchers
  /\ Groups \subseteq Nat /\ Groups # {}
  /\ Cooldown \in Nat \ {0} /\ MaxClock \in Nat \ {0}

VARIABLES
  watch,     \* one of WatchPlans; does not change
  snapshot,  \* what is left of each pool in accounts.json (0 is low), since when, and
             \* whether the account must be verified
  state,     \* the file: when each notification was sent last, and the level seen last
  watcher,   \* what each watcher does, and what it has in memory
  tried,     \* when the command of each notification was run last
  lost,      \* those of which a fault has lost that time
  clock

watchVars == <<watch, snapshot, state, watcher, tried, lost, clock>>

Never == MaxClock + Cooldown + 1   \* no time
Unseen == 2                        \* no level
Levels == 0..1
Notices == {<<g, what>> : g \in Groups, what \in {"low", "reset", "stale"}} \cup {<<0, "auth">>}
NoState == [sent |-> [notice \in Notices |-> Never], last |-> [g \in Groups |-> Unseen]]

WatchInit ==
  /\ watch \in WatchPlans
  /\ snapshot = [levels |-> [g \in Groups |-> 1], at |-> Never, verify |-> FALSE]
  /\ state = NoState
  /\ watcher = [w \in Watchers |-> [pc |-> "wait", state |-> NoState, failed |-> FALSE, at |-> 0]]
  /\ tried = [notice \in Notices |-> Never] /\ lost = {}
  /\ clock = 1

\* snapshotMinimum: the first of the pools with the least.
Minimum(levels) ==
  CHOOSE g \in Groups : \A h \in Groups : levels[g] < levels[h] \/ (levels[g] = levels[h] /\ g <= h)

\* A minute has passed.  The quota is read, Google wants the account verified,
\* or the read fails; then what was told before is loaded, if it can be read.
ReadQuota(w) ==
  /\ w \in watch /\ watcher[w].pc = "wait" /\ watcher[w].at < clock
  /\ \E outcome \in {"read", "refused", "failed"}, loaded \in {state, NoState} :
       /\ \/ /\ outcome = "read"
             /\ \E levels \in [Groups -> Levels] :
                  snapshot' = [levels |-> levels, at |-> clock, verify |-> FALSE]
          \/ outcome = "refused" /\ snapshot' = [snapshot EXCEPT !.verify = TRUE]
          \/ outcome = "failed" /\ UNCHANGED snapshot
       /\ watcher' = [watcher EXCEPT ![w] =
            [pc |-> "tell", state |-> loaded, failed |-> outcome = "failed", at |-> clock]]
       /\ lost' = lost \cup {n \in Notices : loaded.sent[n] # state.sent[n]}
  /\ UNCHANGED <<watch, state, tried, clock>>

\* notifyIfDue
Due(memory, notice, at) ==
  memory.sent[notice] = Never \/ memory.sent[notice] + Cooldown <= at

Known == snapshot.at # Never /\ ~snapshot.verify
Least == Minimum(snapshot.levels)
Low == snapshot.levels[Least] = 0

\* Faulty: the level is noted before it is compared.
ReasonsNotedFirst(w) ==
  {n \in Notices :
     \/ n = <<0, "auth">> /\ watcher[w].failed
     \/ Known /\ n = <<Least, "low">> /\ Low}

\* Why the user may be told something now.
Reasons(w) ==
  {n \in Notices :
     \/ n = <<0, "auth">> /\ watcher[w].failed
     \/ Known /\ \/ n = <<Least, "low">> /\ Low
                 \/ n = <<Least, "reset">> /\ ~Low /\ watcher[w].state.last[Least] = 0
                 \/ n = <<Least, "stale">> /\ snapshot.at + 2 < watcher[w].at}

\* Whether the command of a notification works, or is there, is not looked at.
Tell(w) ==
  LET memory == watcher[w].state
      now == watcher[w].at
      due == {n \in Reasons(w) : Due(memory, n, now)}
  IN /\ watcher[w].pc = "tell"
     /\ tried' = [n \in Notices |-> IF n \in due THEN now ELSE tried[n]]
     /\ watcher' = [watcher EXCEPT ![w].pc = "save",
          ![w].state = [sent |-> [n \in Notices |-> IF n \in due THEN now ELSE memory.sent[n]],
                        last |-> IF Known THEN [memory.last EXCEPT ![Least] = snapshot.levels[Least]]
                                 ELSE memory.last]]
     /\ UNCHANGED <<watch, snapshot, state, lost, clock>>

Forget(w) == watcher' = [watcher EXCEPT ![w] = [@ EXCEPT !.pc = "wait", !.state = NoState]]

\* What the file does not have of what this watcher has told.
Unsaved(w) == {n \in Notices : watcher[w].state.sent[n] # state.sent[n]}

\* saveNotificationState
SaveState(w) ==
  /\ watcher[w].pc = "save"
  /\ state' = watcher[w].state
  /\ lost' = {n \in lost : watcher[w].state.sent[n] # tried[n]}
  /\ Forget(w)
  /\ UNCHANGED <<watch, snapshot, tried, clock>>

\* Its error is dropped.
SaveFails(w) ==
  /\ watcher[w].pc = "save"
  /\ lost' = lost \cup Unsaved(w)
  /\ Forget(w)
  /\ UNCHANGED <<watch, snapshot, state, tried, clock>>

\* It is started again.
KillWatcher(w) ==
  /\ watcher[w].pc \in {"tell", "save"}
  /\ lost' = IF watcher[w].pc = "save" THEN lost \cup Unsaved(w) ELSE lost
  /\ Forget(w)
  /\ UNCHANGED <<watch, snapshot, state, tried, clock>>

TimeGoesOn ==
  /\ clock < MaxClock
  /\ clock' = clock + 1
  /\ UNCHANGED <<watch, snapshot, state, watcher, tried, lost>>

WatchNext ==
  \/ \E w \in Watchers : ReadQuota(w) \/ Tell(w) \/ SaveState(w) \/ SaveFails(w) \/ KillWatcher(w)
  \/ TimeGoesOn

WatchSpec == WatchInit /\ [][WatchNext]_watchVars

-----------------------------------------------------------------------------
(* Properties *)

LoneWatcher == \E w \in Watchers : watch = {w}

NotTooOften ==
  [][LoneWatcher => \A n \in Notices \ lost :
       tried'[n] # tried[n] /\ tried[n] # Never => tried'[n] >= tried[n] + Cooldown]_watchVars

NobodyMissesIt ==
  [][LoneWatcher => \A w \in Watchers : watcher[w].pc = "tell" /\ watcher'[w].pc = "save" =>
       LET Heard(n) == tried'[n] # Never /\ tried'[n] + Cooldown > watcher[w].at
       IN Known => /\ Low => Heard(<<Least, "low">>)
                   /\ ~Low /\ watcher[w].state = state /\ state.last[Least] = 0 =>
                        Heard(<<Least, "reset">>)]_watchVars

\* For a watcher that is alone, whatever pools, levels and failures come and go,
\* and whenever it is killed: the command of a notification is not run again
\* within its cooldown, unless a save that failed, a file that could not be read
\* or an end before the save has lost the time; and in each round in which the
\* least pool is low, or no longer low where the file it read has it low, that
\* command is run or was within the cooldown, whatever saves have failed.
\* Whether the user sees anything the code does not know (history.go:311-348,
\* 396-434).
ToldInTime == NotTooOften /\ NobodyMissesIt
=============================================================================
