------------------------------ MODULE HubLauncher ------------------------------
(***************************************************************************)
(* The hub of Antigravity IDE under the wrapper script that the guard      *)
(* writes (src/internal/app/session_guard.go, buildAgyLauncherScriptForPaths) *)
(* and the switches that stop it (credentials.go, reloadRunningIDEHubs).   *)
(* The wrapper starts the hub again only when the marker file has changed  *)
(* while the hub ran.  A switch does what it can to reach the hub, and     *)
(* counts as done when it cannot.                                          *)
(***************************************************************************)
EXTENDS Naturals

CONSTANTS
  MaxSwitches,  \* bound
  MaxRestarts   \* within ten seconds (10 in the code)

ASSUME HubParameters == MaxSwitches \in Nat /\ MaxRestarts \in Nat \ {0}

VARIABLES
  session,      \* the session that agy-swap has put in the files, numbered
  marker,       \* how often the marker file has changed
  switch,       \* what the one switch that holds the session lock does
  launcher,     \* where the wrapper is, the marker it saw and its restarts
  hub           \* the hub that was started last: whether it runs, the session it has
                \* read, the session of the switch that stops it (0 for none), whether
                \* the session was changed without stopping it, and how many were started

hubVars == <<session, marker, switch, launcher, hub>>

HubInit ==
  /\ session = 0
  /\ marker = 0
  /\ switch = "none"
  /\ launcher = [pc |-> "mark", seen |-> 0, restarts |-> 0]
  /\ hub = [runs |-> FALSE, session |-> 0, told |-> 0, missed |-> FALSE, starts |-> 0]

-----------------------------------------------------------------------------
(* The session lock is held *)

\* applyUnlocked: another account, or another refresh token of the same.
WriteSession ==
  /\ switch = "none"
  /\ session < MaxSwitches
  /\ session' = session + 1
  /\ switch' = "mark"
  /\ UNCHANGED <<marker, launcher, hub>>

\* The session changes and no hub is meant to hear of it: signing out, the
\* reconciliation of --sync-session, a session kept in the OS keyring, a token
\* where the same account had none.
WriteQuietly ==
  /\ switch = "none"
  /\ session < MaxSwitches
  /\ session' = session + 1
  /\ hub' = [hub EXCEPT !.missed = TRUE]
  /\ UNCHANGED <<marker, switch, launcher>>

WriteMarker ==
  /\ switch = "mark"
  /\ marker' = marker + 1
  /\ switch' = "stop"
  /\ UNCHANGED <<session, launcher, hub>>

\* Nothing is mirrored to the OS keyring, there is no pkill, the directory or
\* the marker cannot be written (it may have been emptied), or the switch is
\* killed: the hub is not stopped.
MarkNothing ==
  /\ switch = "mark"
  /\ marker' \in {marker, marker + 1}
  /\ switch' = "none"
  /\ hub' = [hub EXCEPT !.missed = TRUE]
  /\ UNCHANGED <<session, launcher>>

\* pkill tells the hub to end; it ends in its own time.
StopHub ==
  /\ switch = "stop"
  /\ hub' = IF hub.runs THEN [hub EXCEPT !.told = session] ELSE hub
  /\ switch' = "none"
  /\ UNCHANGED <<session, marker, launcher>>

\* pkill fails, takes longer than two seconds or matches nothing, as it does
\* where the wrapper was made of a link to another name; or the switch is killed.
StopNothing ==
  /\ switch = "stop"
  /\ switch' = "none"
  /\ hub' = [hub EXCEPT !.missed = TRUE]
  /\ UNCHANGED <<session, marker, launcher>>

-----------------------------------------------------------------------------
(* The wrapper *)

ReadMarker ==
  /\ launcher.pc = "mark"
  /\ launcher' = [launcher EXCEPT !.pc = "start", !.seen = marker]
  /\ UNCHANGED <<session, marker, switch, hub>>

StartHub ==
  /\ launcher.pc = "start"
  /\ hub' = [runs |-> TRUE, session |-> session, told |-> 0, missed |-> FALSE,
             starts |-> hub.starts + 1]
  /\ launcher' = [launcher EXCEPT !.pc = "wait"]
  /\ UNCHANGED <<session, marker, switch>>

\* Because it was told, or by itself.
HubEnds ==
  /\ hub.runs
  /\ hub' = [hub EXCEPT !.runs = FALSE]
  /\ UNCHANGED <<session, marker, switch, launcher>>

\* Faulty: the marker is read once, before the loop.
RestartWithOldMarker ==
  /\ launcher.pc = "wait" /\ ~hub.runs
  /\ marker # launcher.seen
  /\ \E restarts \in {launcher.restarts + 1, 1} :
       /\ restarts < MaxRestarts
       /\ launcher' = [launcher EXCEPT !.pc = "start", !.restarts = restarts]
  /\ UNCHANGED <<session, marker, switch, hub>>

\* Ten seconds may have passed since restarts were first counted.
Restart ==
  /\ launcher.pc = "wait" /\ ~hub.runs
  /\ marker # launcher.seen
  /\ \E restarts \in {launcher.restarts + 1, 1} :
       /\ restarts < MaxRestarts
       /\ launcher' = [launcher EXCEPT !.pc = "mark", !.restarts = restarts]
  /\ UNCHANGED <<session, marker, switch, hub>>

GiveUp ==
  /\ launcher.pc = "wait" /\ ~hub.runs
  /\ marker = launcher.seen \/ launcher.restarts + 1 >= MaxRestarts
  /\ launcher' = [launcher EXCEPT !.pc = "exited"]
  /\ UNCHANGED <<session, marker, switch, hub>>

\* The IDE stops the wrapper, and the wrapper its hub.
Terminate ==
  /\ launcher.pc # "exited"
  /\ launcher' = [launcher EXCEPT !.pc = "exited"]
  /\ hub' = [hub EXCEPT !.runs = FALSE]
  /\ UNCHANGED <<session, marker, switch>>

HubNext ==
  \/ WriteSession \/ WriteQuietly \/ WriteMarker \/ MarkNothing \/ StopHub \/ StopNothing
  \/ ReadMarker \/ StartHub \/ HubEnds \/ Restart \/ GiveUp \/ Terminate

HubSpec == HubInit /\ [][HubNext]_hubVars

-----------------------------------------------------------------------------
(* Properties *)

\* When no switch is under way, a hub that runs has the current session, or has
\* been told to end, or was running when the session was changed without
\* reaching it (MarkNothing, StopNothing, WriteQuietly).  When a hub with an
\* older session is stopped by a switch, the wrapper does not take that for a
\* crash: it finds another marker than the one it saw.  And the wrapper never
\* starts more hubs than the marker has changed, and one, so that a hub that
\* crashes is not started in a loop (session_guard.go:277-280,
\* credentials.go:173-177).
HubFresh ==
  /\ switch = "none" /\ hub.runs => hub.session = session \/ hub.told # 0 \/ hub.missed
  /\ launcher.pc = "wait" /\ hub.told > hub.session => marker # launcher.seen
  /\ hub.starts <= marker + 1

=============================================================================
