------------------------------ MODULE MCMachines ------------------------------
\* The small machines, each on its own: "machine" names the one that runs.
EXTENDS Updater, AgyInstall, HubLauncher, History, Watch, LogScan

CONSTANTS u1, u2, g1, i1, w1, w2, c1

VARIABLE machine

\* A machine that does not run stays in one of its initial states, with nothing to do.
NoUpdates == [platform |-> "posix", asked |-> {}, forced |-> {}]
NoInstall == [actors |-> {}, default |-> TRUE, first |-> "none"]
NoWatch == {}

MCUpdatePlans ==
  {[platform |-> p, asked |-> {u1}, forced |-> f] :
     p \in {"posix", "windows", "brew"}, f \in {{}, {u1}}}
  \cup {[platform |-> p, asked |-> {u1, u2}, forced |-> {}] : p \in {"posix", "windows"}} \cup {NoUpdates}

MCInstallPlans ==
  {[actors |-> {a}, default |-> d, first |-> f] :
     a \in {g1, i1}, d \in BOOLEAN, f \in {"native", "wrapper", "old", "link", "linked", "oldlinked", "none"}} \cup {NoInstall}

MCWatchPlans == {{w1}, NoWatch}

MCGroups == {1, 2}

UpdaterOff == UpdaterInit /\ updates = NoUpdates /\ latest = [release |-> 1, site |-> 1, tap |-> 1]
AgyOff == AgyInit /\ install = NoInstall
HubOff == HubInit
HistoryOff == HistoryInit
WatchOff == WatchInit /\ watch = NoWatch
\* Which account and model come first does not matter.
LogOn == LogInit /\ agyState.email = "a@example" /\ agyState.model = "pro"
LogOff == LogOn /\ Len(log.lines) = 2

MCInit ==
  \/ machine = "updater" /\ UpdaterInit /\ AgyOff /\ HubOff /\ HistoryOff /\ WatchOff /\ LogOff
  \/ machine = "agy" /\ UpdaterOff /\ AgyInit /\ HubOff /\ HistoryOff /\ WatchOff /\ LogOff
  \/ machine = "hub" /\ UpdaterOff /\ AgyOff /\ HubInit /\ HistoryOff /\ WatchOff /\ LogOff
  \/ machine = "history" /\ UpdaterOff /\ AgyOff /\ HubOff /\ HistoryInit /\ WatchOff /\ LogOff
  \/ machine = "watch" /\ UpdaterOff /\ AgyOff /\ HubOff /\ HistoryOff /\ WatchInit /\ LogOff
  \/ machine = "logs" /\ UpdaterOff /\ AgyOff /\ HubOff /\ HistoryOff /\ WatchOff /\ LogOn

MCNext ==
  \/ machine = "updater" /\ UpdaterNext /\ UNCHANGED <<machine, installVars, hubVars, historyVars, watchVars, logVars>>
  \/ machine = "agy" /\ AgyNext /\ UNCHANGED <<machine, updaterVars, hubVars, historyVars, watchVars, logVars>>
  \/ machine = "hub" /\ HubNext /\ UNCHANGED <<machine, updaterVars, installVars, historyVars, watchVars, logVars>>
  \/ machine = "history" /\ HistoryNext /\ UNCHANGED <<machine, updaterVars, installVars, hubVars, watchVars, logVars>>
  \/ machine = "watch" /\ WatchNext /\ UNCHANGED <<machine, updaterVars, installVars, hubVars, historyVars, logVars>>
  \/ machine = "logs" /\ LogNext /\ UNCHANGED <<machine, updaterVars, installVars, hubVars, historyVars, watchVars>>

mcVars == <<machine, updaterVars, installVars, hubVars, historyVars, watchVars, logVars>>

MCSpec == MCInit /\ [][MCNext]_mcVars
=============================================================================
