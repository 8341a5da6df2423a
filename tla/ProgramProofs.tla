----------------------------- MODULE ProgramProofs -----------------------------
(***************************************************************************)
(* The programs on disk: the hub of Antigravity IDE under its wrapper, the *)
(* agy command under the guard, and agy-swap's own executable under an     *)
(* update.  Each part has an inductive invariant, one step per action.     *)
(***************************************************************************)
EXTENDS Updater, AgyInstall, HubLauncher, FiniteSetTheorems, TLAPS

-----------------------------------------------------------------------------
(* The hub *)

HubTypeOK ==
  /\ session \in Nat /\ marker \in Nat
  /\ switch \in {"none", "mark", "stop"}
  /\ launcher \in [pc: {"mark", "start", "wait", "exited"}, seen: Nat, restarts: Nat]
  /\ hub \in [runs: BOOLEAN, session: Nat, told: Nat, missed: BOOLEAN, starts: Nat]

\* A hub is started once for every marker the wrapper has looked at; and while a
\* hub runs whose session is older than the one of the switch under way, the
\* wrapper has seen an older marker than the one that switch leaves.
HubInv ==
  /\ HubTypeOK
  /\ hub.runs => launcher.pc = "wait" /\ hub.session <= session
  /\ switch = "none" /\ hub.runs => hub.session = session \/ hub.told # 0 \/ hub.missed
  /\ switch = "stop" /\ hub.runs /\ hub.session # session => launcher.seen < marker
  /\ launcher.pc = "wait" /\ hub.told > hub.session => launcher.seen < marker
  /\ launcher.seen <= marker
  /\ hub.starts <= launcher.seen + 1
  /\ launcher.pc = "mark" => hub.starts <= marker
  /\ launcher.pc = "start" => hub.starts <= launcher.seen

LEMMA HubStarts == HubInit => HubInv
BY DEF HubInit, HubInv, HubTypeOK

LEMMA HubStays == HubInv /\ [HubNext]_hubVars => HubInv'
<1> SUFFICES ASSUME HubInv, [HubNext]_hubVars PROVE HubInv'
  OBVIOUS
<1> USE DEF HubInv, HubTypeOK
<1>1. CASE WriteSession
  BY <1>1 DEF WriteSession
<1>2. CASE WriteMarker
  BY <1>2 DEF WriteMarker
<1>3. CASE StopHub
  BY <1>3 DEF StopHub
<1>4. CASE ReadMarker
  <2>1. HubTypeOK'
    BY <1>4 DEF ReadMarker
  <2>2. launcher'.seen = marker /\ launcher'.pc = "start"
    BY <1>4 DEF ReadMarker
  <2> QED
    BY <1>4, <2>1, <2>2 DEF ReadMarker
<1>5. CASE StartHub
  BY <1>5 DEF StartHub
<1>6. CASE HubEnds
  BY <1>6 DEF HubEnds
<1>7. CASE Restart
  <2>1. PICK restarts \in {launcher.restarts + 1, 1} :
          launcher' = [launcher EXCEPT !.pc = "mark", !.restarts = restarts]
    BY <1>7 DEF Restart
  <2>2. restarts \in Nat
    BY <2>1
  <2>3. HubTypeOK'
    BY <1>7, <2>1, <2>2 DEF Restart
  <2> QED
    BY <1>7, <2>1, <2>3 DEF Restart
<1>8. CASE GiveUp
  BY <1>8 DEF GiveUp
<1>9. CASE Terminate
  BY <1>9 DEF Terminate
<1>10. CASE WriteQuietly
  <2>1. hub' = [hub EXCEPT !.missed = TRUE] /\ HubTypeOK'
    <3>1. hub' = [hub EXCEPT !.missed = TRUE]
      BY <1>10 DEF WriteQuietly
    <3>2. hub' \in [runs: BOOLEAN, session: Nat, told: Nat, missed: BOOLEAN, starts: Nat]
      BY <3>1
    <3>3. session' \in Nat
      BY <1>10 DEF WriteQuietly
    <3> QED
      BY <1>10, <3>1, <3>2, <3>3 DEF WriteQuietly
  <2>2. hub'.missed /\ hub'.runs = hub.runs /\ hub'.session = hub.session /\ hub'.told = hub.told
        /\ hub'.starts = hub.starts
    BY <2>1
  <2> QED
    BY <1>10, <2>1, <2>2 DEF WriteQuietly
<1>11. CASE MarkNothing
  <2>1. hub' = [hub EXCEPT !.missed = TRUE] /\ HubTypeOK' /\ marker' >= marker
    <3>1. hub' = [hub EXCEPT !.missed = TRUE]
      BY <1>11 DEF MarkNothing
    <3>2. hub' \in [runs: BOOLEAN, session: Nat, told: Nat, missed: BOOLEAN, starts: Nat]
      BY <3>1
    <3>3. marker' \in Nat /\ marker' >= marker
      BY <1>11 DEF MarkNothing
    <3> QED
      BY <1>11, <3>1, <3>2, <3>3 DEF MarkNothing
  <2>2. hub'.missed /\ hub'.runs = hub.runs /\ hub'.session = hub.session /\ hub'.told = hub.told
        /\ hub'.starts = hub.starts
    BY <2>1
  <2> QED
    BY <1>11, <2>1, <2>2 DEF MarkNothing
<1>12. CASE StopNothing
  BY <1>12 DEF StopNothing
<1>13. CASE UNCHANGED hubVars
  BY <1>13 DEF hubVars
<1> QED
  BY <1>1, <1>2, <1>3, <1>4, <1>5, <1>6, <1>7, <1>8, <1>9, <1>10, <1>11, <1>12, <1>13 DEF HubNext

\* However switches that reach the hub and switches that fail to, ends and
\* restarts of the hub meet: a hub keeps an older session only where the change
\* did not reach it, one that a switch stops is not taken for a crash, and none
\* is started without a new marker (buildAgyLauncherScriptForPaths,
\* reloadRunningIDEHubs).
THEOREM HubStaysFresh == HubSpec => []HubFresh
<1>1. HubInv => HubFresh
  BY DEF HubInv, HubTypeOK, HubFresh
<1> QED
  BY <1>1, HubStarts, HubStays, PTL DEF HubSpec
-----------------------------------------------------------------------------
(* The update *)

UpdateSteps ==
  {"begin", "decide", "download", "build", "test", "remove", "move", "install", "rollback",
   "shadow", "upgrade", "verify", "refresh"} \cup Ended

File == [version: Nat, kind: {"none", "released", "built", "corrupt", "foreign"}]

KnownToUpdate == [pc: UpdateSteps, own: Nat, target: Nat, candidate: File,
                  expired: BOOLEAN, again: BOOLEAN]

UpdaterTypeOK ==
  /\ updates \in UpdatePlans
  /\ latest \in [release: Nat, site: Nat, tap: Nat]
  /\ files \in [current: File, backup: File, shadow: BOOLEAN]
  /\ updater \in [Updaters -> KnownToUpdate]
  /\ faults \in Nat

\* What an update carries through its steps: a candidate of the release it is
\* after, tried before it replaces anything; and the way through Homebrew
\* begins with the removal of the program that would come first.
Carried ==
  \A u \in Updaters :
    /\ updater[u].pc # "begin" => u \in updates.asked
    /\ updater[u].target <= latest.release
    /\ updater[u].pc \in {"test", "remove", "move", "install", "rollback"} =>
         /\ updater[u].candidate.version = updater[u].target
         /\ Sound(updater[u].candidate) \/ (updater[u].pc = "test" /\ updater[u].candidate.kind = "corrupt")
    /\ updater[u].pc \notin {"begin", "decide"} \cup Ended =>
         u \in updates.forced \/ updater[u].target > updater[u].own
    /\ updater[u].pc \in {"download", "build", "test", "remove", "move", "install", "rollback"} =>
         updates.platform # "brew"
    /\ updater[u].pc \in {"upgrade", "verify", "refresh"} => ~files.shadow

FilesSound ==
  /\ files.current = None \/ Sound(files.current)
  /\ files.backup = None \/ Sound(files.backup)
  /\ files.shadow => updates.platform = "brew"

\* The program is missing only while an update is about to put it there ...
Between ==
  files.current = None /\ faults = 0 => \E u \in updates.asked : updater[u].pc = "install"

\* ... and an update that has no other beside it leaves it as the backup, or
\* has failed twice.
Lone ==
  \A u \in Updaters : updates.asked = {u} /\ files.current = None =>
    /\ files.backup # None
    /\ updater[u].pc \in {"install", "rollback", "failed", "killed"}
    /\ updater[u].pc = "rollback" => faults >= 1
    /\ updater[u].pc = "failed" => faults >= 2

UpdaterInv == UpdaterTypeOK /\ Carried /\ FilesSound /\ Between /\ Lone


LEMMA UpdaterStarts == UpdaterInit => UpdaterInv
<1> SUFFICES ASSUME UpdaterInit PROVE UpdaterInv
  OBVIOUS
<1> USE UpdateParameters DEF UpdaterInit, Start, None, File, UpdateSteps, Ended, Versions, Sound
<1>1. UpdaterTypeOK
  <2>1. Start \in KnownToUpdate
    BY DEF KnownToUpdate
  <2>2. updater \in [Updaters -> KnownToUpdate]
    BY <2>1
  <2>3. files \in [current: File, backup: File, shadow: BOOLEAN]
    OBVIOUS
  <2>4. latest \in [release: Nat, site: Nat, tap: Nat]
    <3>1. Versions \subseteq Nat
      OBVIOUS
    <3> QED
      BY <3>1
  <2> QED
    BY <2>2, <2>3, <2>4 DEF UpdaterTypeOK
<1>2. Carried
  BY DEF Carried
<1>3. FilesSound
  BY DEF FilesSound
<1>4. Between /\ Lone
  BY DEF Between, Lone
<1> QED
  BY <1>1, <1>2, <1>3, <1>4 DEF UpdaterInv

LEMMA UpdaterTypeStays ==
  ASSUME UpdaterTypeOK, NEW u \in Updaters, Update(u) \/ DeadlinePasses(u) \/ Kill(u)
  PROVE  UpdaterTypeOK'
<1> USE DEF UpdaterTypeOK, At, Goto, UpdateSteps, Ended, KnownToUpdate
<1> None \in File
  BY DEF None, File
<1>1. CASE FetchLatestRelease(u)
  <2>1. PICK version \in {latest.release, latest.site} :
          updater' = [updater EXCEPT ![u].pc = "decide", ![u].own = files.current.version,
                                     ![u].target = version]
    BY <1>1 DEF FetchLatestRelease
  <2>2. version \in Nat /\ files.current.version \in Nat
    BY <2>1 DEF File
  <2>3. [updater[u] EXCEPT !.pc = "decide", !.own = files.current.version, !.target = version]
          \in KnownToUpdate
    BY <2>2, ZenonT(60)
  <2>4. updater' \in [Updaters -> KnownToUpdate]
    BY <2>1, <2>3 DEF KnownToUpdate
  <2> QED
    BY <1>1, <2>4 DEF FetchLatestRelease
<1>2. CASE FetchFails(u)
  BY <1>2 DEF FetchFails
<1>3. CASE Decide(u)
  BY <1>3 DEF Decide
<1>4. CASE OnlyCheck(u)
  BY <1>4 DEF OnlyCheck
<1>5. CASE Download(u)
  BY <1>5 DEF Download
<1>6. CASE DownloadFails(u)
  <2>1. CASE Goto(u, "failed")
    BY <1>6, <2>1 DEF DownloadFails
  <2>2. CASE Goto(u, "build")
    BY <1>6, <2>2 DEF DownloadFails
  <2> QED
    BY <1>6, <2>1, <2>2 DEF DownloadFails
<1>7. CASE Build(u)
  <2>1. PICK kind \in {"built", "corrupt"} :
          updater' = [updater EXCEPT ![u].pc = "test",
            ![u].candidate = [version |-> updater[u].target, kind |-> kind]]
    BY <1>7 DEF Build
  <2>2. [version |-> updater[u].target, kind |-> kind] \in File
    BY <2>1 DEF File
  <2>3. [updater[u] EXCEPT !.pc = "test", !.candidate = [version |-> updater[u].target, kind |-> kind]]
          \in KnownToUpdate
    BY <2>2, ZenonT(60)
  <2>4. updater' \in [Updaters -> KnownToUpdate]
    BY <2>1, <2>3 DEF KnownToUpdate
  <2> QED
    BY <1>7, <2>4 DEF Build
<1>8. CASE TryCandidate(u)
  BY <1>8 DEF TryCandidate
<1>9. CASE RemoveBackup(u)
  BY <1>9 DEF RemoveBackup
<1>10. CASE MoveAway(u)
  BY <1>10, ZenonT(60) DEF MoveAway
<1>11. CASE MoveFails(u)
  BY <1>11 DEF MoveFails
<1>12. CASE Install(u)
  BY <1>12 DEF Install
<1>13. CASE InstallFails(u)
  BY <1>13 DEF InstallFails
<1>14. CASE RollBack(u)
  BY <1>14, ZenonT(60) DEF RollBack
<1>15. CASE RollBackFails(u)
  BY <1>15 DEF RollBackFails
<1>16. CASE CleanShadowed(u)
  BY <1>16, ZenonT(60) DEF CleanShadowed
<1>17. CASE BrewUpgrade(u)
  <2>1. [version |-> latest.tap, kind |-> "released"] \in File
    BY DEF File
  <2>2. files' \in [current: File, backup: File, shadow: BOOLEAN]
    BY <1>17, <2>1 DEF BrewUpgrade
  <2> QED
    BY <1>17, <2>2 DEF BrewUpgrade
<1>18. CASE BrewFails(u)
  BY <1>18 DEF BrewFails
<1>19. CASE BrewVerify(u)
  BY <1>19 DEF BrewVerify
<1>20. CASE BrewUpdate(u)
  <2>1. PICK version \in latest.tap..latest.release : latest' = [latest EXCEPT !.tap = version]
    BY <1>20 DEF BrewUpdate
  <2>2. version \in Nat
    BY <2>1
  <2>3. latest' \in [release: Nat, site: Nat, tap: Nat]
    BY <2>1, <2>2
  <2>4. updater' = [updater EXCEPT ![u].pc = "upgrade", ![u].again = TRUE]
    BY <1>20 DEF BrewUpdate
  <2>5. [updater[u] EXCEPT !.pc = "upgrade", !.again = TRUE] \in KnownToUpdate
    BY ZenonT(60)
  <2>6. updater' \in [Updaters -> KnownToUpdate]
    BY <2>4, <2>5 DEF KnownToUpdate
  <2> QED
    BY <1>20, <2>3, <2>6 DEF BrewUpdate
<1>21. CASE DeadlinePasses(u)
  BY <1>21, ZenonT(60) DEF DeadlinePasses
<1>22. CASE Kill(u)
  BY <1>22 DEF Kill
<1> QED
  BY <1>1, <1>2, <1>3, <1>4, <1>5, <1>6, <1>7, <1>8, <1>9, <1>10, <1>11, <1>12, <1>13,
     <1>14, <1>15, <1>16, <1>17, <1>18, <1>19, <1>20, <1>21, <1>22 DEF Update

LEMMA UpdateStays ==
  ASSUME UpdaterInv, NEW u \in Updaters, Update(u) \/ DeadlinePasses(u) \/ Kill(u)
  PROVE  Carried' /\ FilesSound' /\ Between' /\ Lone'
<1> USE DEF UpdaterInv, UpdaterTypeOK, At, Goto, Windows, Ended, KnownToUpdate, Sound
<1>1. CASE FetchLatestRelease(u)
  <2>1. Carried'
    BY <1>1 DEF FetchLatestRelease, Carried
  <2>2. FilesSound'
    BY <1>1 DEF FetchLatestRelease, FilesSound, None
  <2>3. Between' /\ Lone'
    BY <1>1 DEF FetchLatestRelease, Between, Lone, None
  <2> QED
    BY <2>1, <2>2, <2>3
<1>2. CASE FetchFails(u)
  <2>1. Carried'
    BY <1>2 DEF FetchFails, Carried
  <2>2. FilesSound'
    BY <1>2 DEF FetchFails, FilesSound, None
  <2>3. Between' /\ Lone'
    BY <1>2 DEF FetchFails, Between, Lone, None
  <2> QED
    BY <2>1, <2>2, <2>3
<1>3. CASE Decide(u)
  <2>1. Carried'
    BY <1>3 DEF Decide, Carried
  <2>2. FilesSound'
    BY <1>3 DEF Decide, FilesSound, None
  <2>3. Between' /\ Lone'
    BY <1>3 DEF Decide, Between, Lone, None
  <2> QED
    BY <2>1, <2>2, <2>3
<1>4. CASE OnlyCheck(u)
  <2>1. Carried'
    BY <1>4 DEF OnlyCheck, Carried
  <2>2. FilesSound'
    BY <1>4 DEF OnlyCheck, FilesSound, None
  <2>3. Between' /\ Lone'
    BY <1>4 DEF OnlyCheck, Between, Lone, None
  <2> QED
    BY <2>1, <2>2, <2>3
<1>5. CASE Download(u)
  <2>1. Carried'
    BY <1>5 DEF Download, Carried
  <2>2. FilesSound'
    BY <1>5 DEF Download, FilesSound, None
  <2>3. Between' /\ Lone'
    <3>1. updater'[u].pc \in {"test", "failed"} /\ UNCHANGED <<updates, files, faults>>
      BY <1>5 DEF Download
    <3>2. \A v \in Updaters \ {u} : updater'[v] = updater[v]
      BY <1>5 DEF Download
    <3>3. updater[u].pc = "download" /\ updates.asked \subseteq Updaters
      BY <1>5, UpdateParameters DEF Download
    <3>4. Between'
      BY <3>1, <3>2, <3>3 DEF Between
    <3>5. Lone'
      BY <3>1, <3>2, <3>3 DEF Lone
    <3> QED
      BY <3>4, <3>5
  <2> QED
    BY <2>1, <2>2, <2>3
<1>6. CASE DownloadFails(u)
  <2>1. Carried'
    BY <1>6 DEF DownloadFails, Carried
  <2>2. FilesSound'
    BY <1>6 DEF DownloadFails, FilesSound, None
  <2>3. Between' /\ Lone'
    <3>1. updater'[u].pc \in {"build", "failed"} /\ UNCHANGED <<updates, files, faults>>
      BY <1>6 DEF DownloadFails
    <3>2. \A v \in Updaters \ {u} : updater'[v] = updater[v]
      BY <1>6 DEF DownloadFails
    <3>3. updater[u].pc = "download" /\ updates.asked \subseteq Updaters
      BY <1>6, UpdateParameters DEF DownloadFails
    <3>4. Between'
      BY <3>1, <3>2, <3>3 DEF Between
    <3>5. Lone'
      BY <3>1, <3>2, <3>3 DEF Lone
    <3> QED
      BY <3>4, <3>5
  <2> QED
    BY <2>1, <2>2, <2>3
<1>7. CASE Build(u)
  <2>1. Carried'
    BY <1>7 DEF Build, Carried
  <2>2. FilesSound'
    BY <1>7 DEF Build, FilesSound, None
  <2>3. Between' /\ Lone'
    <3>1. updater'[u].pc = "test" /\ UNCHANGED <<updates, files, faults>>
      BY <1>7 DEF Build
    <3>2. \A v \in Updaters \ {u} : updater'[v] = updater[v]
      BY <1>7 DEF Build
    <3>3. updater[u].pc = "build" /\ updates.asked \subseteq Updaters
      BY <1>7, UpdateParameters DEF Build
    <3>4. Between'
      BY <3>1, <3>2, <3>3 DEF Between
    <3>5. Lone'
      BY <3>1, <3>2, <3>3 DEF Lone
    <3> QED
      BY <3>4, <3>5
  <2> QED
    BY <2>1, <2>2, <2>3
<1>8. CASE TryCandidate(u)
  <2>1. Carried'
    BY <1>8 DEF TryCandidate, Carried
  <2>2. FilesSound'
    BY <1>8 DEF TryCandidate, FilesSound, None
  <2>3. Between' /\ Lone'
    BY <1>8 DEF TryCandidate, Between, Lone, None
  <2> QED
    BY <2>1, <2>2, <2>3
<1>9. CASE RemoveBackup(u)
  <2>1. Carried'
    BY <1>9 DEF RemoveBackup, Carried
  <2>2. FilesSound'
    BY <1>9 DEF RemoveBackup, FilesSound, None
  <2>3. Between' /\ Lone'
    BY <1>9 DEF RemoveBackup, Between, Lone, None
  <2> QED
    BY <2>1, <2>2, <2>3
<1>10. CASE MoveAway(u)
  <2>1. Carried'
    BY <1>10 DEF MoveAway, Carried
  <2>2. FilesSound'
    BY <1>10 DEF MoveAway, FilesSound, None
  <2>3. Between' /\ Lone'
    BY <1>10 DEF MoveAway, Between, Lone, None
  <2> QED
    BY <2>1, <2>2, <2>3
<1>11. CASE MoveFails(u)
  <2>1. Carried'
    BY <1>11 DEF MoveFails, Carried
  <2>2. FilesSound'
    BY <1>11 DEF MoveFails, FilesSound, None
  <2>3. Between' /\ Lone'
    BY <1>11 DEF MoveFails, Between, Lone, None
  <2> QED
    BY <2>1, <2>2, <2>3
<1>12. CASE Install(u)
  <2>1. Carried'
    BY <1>12 DEF Install, Carried
  <2>2. FilesSound'
    BY <1>12 DEF Install, Carried, FilesSound, None
  <2>3. Between' /\ Lone'
    <3>1. files'.current = updater[u].candidate
      BY <1>12 DEF Install
    <3>2. files'.current # None
      BY <1>12, <3>1 DEF Install, Carried, None
    <3> QED
      BY <3>2 DEF Between, Lone
  <2> QED
    BY <2>1, <2>2, <2>3
<1>13. CASE InstallFails(u)
  <2>1. Carried'
    BY <1>13 DEF InstallFails, Carried
  <2>2. FilesSound'
    BY <1>13 DEF InstallFails, FilesSound, None
  <2>3. Between' /\ Lone'
    BY <1>13 DEF InstallFails, Between, Lone, None
  <2> QED
    BY <2>1, <2>2, <2>3
<1>14. CASE RollBack(u)
  <2>1. Carried'
    BY <1>14 DEF RollBack, Carried
  <2>2. FilesSound'
    BY <1>14 DEF RollBack, FilesSound, None
  <2>3. Between' /\ Lone'
    BY <1>14 DEF RollBack, Between, Lone, None
  <2> QED
    BY <2>1, <2>2, <2>3
<1>15. CASE RollBackFails(u)
  <2>1. Carried'
    BY <1>15 DEF RollBackFails, Carried
  <2>2. FilesSound'
    BY <1>15 DEF RollBackFails, FilesSound, None
  <2>3. Between' /\ Lone'
    BY <1>15 DEF RollBackFails, Between, Lone, None
  <2> QED
    BY <2>1, <2>2, <2>3
<1>16. CASE CleanShadowed(u)
  <2>1. Carried'
    BY <1>16 DEF CleanShadowed, Carried
  <2>2. FilesSound'
    BY <1>16 DEF CleanShadowed, FilesSound, None
  <2>3. Between' /\ Lone'
    BY <1>16 DEF CleanShadowed, Between, Lone, None
  <2> QED
    BY <2>1, <2>2, <2>3
<1>17. CASE BrewUpgrade(u)
  <2>1. Carried'
    BY <1>17 DEF BrewUpgrade, Carried
  <2>2. FilesSound'
    BY <1>17 DEF BrewUpgrade, FilesSound, None
  <2>3. Between' /\ Lone'
    BY <1>17 DEF BrewUpgrade, Between, Lone, None
  <2> QED
    BY <2>1, <2>2, <2>3
<1>18. CASE BrewFails(u)
  <2>1. Carried'
    BY <1>18 DEF BrewFails, Carried
  <2>2. FilesSound'
    BY <1>18 DEF BrewFails, FilesSound, None
  <2>3. Between' /\ Lone'
    BY <1>18 DEF BrewFails, Between, Lone, None
  <2> QED
    BY <2>1, <2>2, <2>3
<1>19. CASE BrewVerify(u)
  <2>1. Carried'
    BY <1>19 DEF BrewVerify, Carried
  <2>2. FilesSound'
    BY <1>19 DEF BrewVerify, FilesSound, None
  <2>3. Between' /\ Lone'
    BY <1>19 DEF BrewVerify, Between, Lone, None
  <2> QED
    BY <2>1, <2>2, <2>3
<1>20. CASE BrewUpdate(u)
  <2>1. Carried'
    BY <1>20 DEF BrewUpdate, Carried
  <2>2. FilesSound'
    BY <1>20 DEF BrewUpdate, FilesSound, None
  <2>3. Between' /\ Lone'
    <3>1. updater'[u].pc = "upgrade" /\ UNCHANGED <<updates, files, faults>>
      BY <1>20 DEF BrewUpdate
    <3>2. \A v \in Updaters \ {u} : updater'[v] = updater[v]
      BY <1>20 DEF BrewUpdate
    <3>3. updater[u].pc = "refresh" /\ updates.asked \subseteq Updaters
      BY <1>20, UpdateParameters DEF BrewUpdate
    <3>4. Between'
      BY <3>1, <3>2, <3>3 DEF Between
    <3>5. Lone'
      BY <3>1, <3>2, <3>3 DEF Lone
    <3> QED
      BY <3>4, <3>5
  <2> QED
    BY <2>1, <2>2, <2>3
<1>21. CASE DeadlinePasses(u)
  <2>1. Carried'
    BY <1>21 DEF DeadlinePasses, Carried
  <2>2. FilesSound'
    BY <1>21 DEF DeadlinePasses, FilesSound, None
  <2>3. Between' /\ Lone'
    BY <1>21 DEF DeadlinePasses, Between, Lone, None
  <2> QED
    BY <2>1, <2>2, <2>3
<1>22. CASE Kill(u)
  <2>1. Carried'
    BY <1>22 DEF Kill, Carried
  <2>2. FilesSound'
    BY <1>22 DEF Kill, FilesSound, None
  <2>3. Between' /\ Lone'
    BY <1>22 DEF Kill, Between, Lone, None
  <2> QED
    BY <2>1, <2>2, <2>3
<1> QED
  BY <1>1, <1>2, <1>3, <1>4, <1>5, <1>6, <1>7, <1>8, <1>9, <1>10, <1>11, <1>12, <1>13,
     <1>14, <1>15, <1>16, <1>17, <1>18, <1>19, <1>20, <1>21, <1>22 DEF Update

LEMMA PublishStays == ASSUME UpdaterInv, Publish PROVE UpdaterInv'
<1> USE DEF UpdaterInv, UpdaterTypeOK, Publish
<1>1. latest'.release = latest.release + 1 /\ UNCHANGED <<updates, files, updater, faults>>
  OBVIOUS
<1>2. UpdaterTypeOK'
  BY <1>1
<1>3. Carried'
  <2> SUFFICES ASSUME NEW v \in Updaters PROVE updater[v].target <= latest'.release
    BY <1>1 DEF Carried, Sound
  <2>1. updater[v].target \in Nat
    BY DEF KnownToUpdate
  <2> QED
    BY <1>1, <2>1 DEF Carried
<1> QED
  BY <1>1, <1>2, <1>3 DEF FilesSound, Between, Lone, Sound

LEMMA UpdaterStays == UpdaterInv /\ [UpdaterNext]_updaterVars => UpdaterInv'
<1> SUFFICES ASSUME UpdaterInv, [UpdaterNext]_updaterVars PROVE UpdaterInv'
  OBVIOUS
<1>1. CASE \E u \in Updaters : Update(u) \/ DeadlinePasses(u) \/ Kill(u)
  <2>1. PICK u \in Updaters : Update(u) \/ DeadlinePasses(u) \/ Kill(u)
    BY <1>1
  <2>2. UpdaterTypeOK'
    BY <2>1, UpdaterTypeStays DEF UpdaterInv
  <2> QED
    BY <2>1, <2>2, UpdateStays DEF UpdaterInv
<1>2. CASE Publish
  BY <1>2, PublishStays
<1>3. CASE UNCHANGED updaterVars
  BY <1>3 DEF updaterVars, UpdaterInv, UpdaterTypeOK, Carried, FilesSound, Between, Lone, Sound
<1> QED
  BY <1>1, <1>2, <1>3 DEF UpdaterNext

LEMMA OnlyOne == ASSUME NEW S, IsFiniteSet(S), Cardinality(S) = 1 PROVE \E u \in S : S = {u}
BY FS_Singleton

\* Wherever the updates are killed and whatever fails, however many there are
\* (updater.go:358-474): what is installed was checked, and a lone update leaves
\* a program that works.
THEOREM UpdateKeepsProgram == UpdaterSpec => []ExecutableKept
<1>1. UpdaterInv => ExecutableKept
  <2> SUFFICES ASSUME UpdaterInv PROVE ExecutableKept
    OBVIOUS
  <2> USE DEF UpdaterInv, UpdaterTypeOK
  <2>1. updates.asked \subseteq Updaters /\ IsFiniteSet(updates.asked)
    BY UpdateParameters, FS_Subset
  <2>2. ASSUME Cardinality(updates.asked) = 1
        PROVE  files.current # None \/ files.backup # None
    BY <2>1, <2>2, OnlyOne DEF Lone
  <2>3. ASSUME faults = 0, \A u \in updates.asked : updater[u].pc \in Ended
        PROVE  files.current # None
    BY <2>3 DEF Between, Ended
  <2>4. ASSUME NEW u \in updates.asked, updates.asked = {u},
               updater[u].pc \in Ended \ {"killed"}, faults <= 1
        PROVE  files.current # None
    BY <2>1, <2>4 DEF Lone, Ended
  <2> QED
    BY <2>2, <2>3, <2>4 DEF FilesSound, ExecutableKept
<1> QED
  BY <1>1, UpdaterStarts, UpdaterStays, PTL DEF UpdaterSpec

\* An update that says it has updated the program has, to the release it was
\* after (cmdUpdate, upgradeViaHomebrew).
THEOREM UpdateTellsTheTruth == UpdaterSpec => UpdatedIsLatest
<1> DEFINE Truth == \A u \in Updaters :
       updater[u].pc # "updated" /\ updater'[u].pc = "updated" =>
         /\ files'.current.version = updater[u].target
         /\ updater[u].target <= latest.release
         /\ ~files'.shadow
         /\ u \in updates.forced \/ updater[u].target > updater[u].own
<1>1. UpdaterInv /\ [UpdaterNext]_updaterVars => [Truth]_updaterVars
  <2> SUFFICES ASSUME UpdaterInv, NEW v \in Updaters, Update(v) \/ DeadlinePasses(v) \/ Kill(v),
                      NEW u \in Updaters, updater[u].pc # "updated", updater'[u].pc = "updated"
               PROVE  /\ files'.current.version = updater[u].target
                      /\ updater[u].target <= latest.release
                      /\ ~files'.shadow
                      /\ u \in updates.forced \/ updater[u].target > updater[u].own
    BY DEF UpdaterNext, Publish
  <2> USE DEF UpdaterInv, UpdaterTypeOK, At, Goto, Ended, KnownToUpdate
  <2>1. u = v /\ (Install(u) \/ BrewVerify(u))
    BY DEF Update, FetchLatestRelease, FetchFails, Decide, OnlyCheck, Download,
       DownloadFails, Build,
           TryCandidate, RemoveBackup, MoveAway, MoveFails, Install, InstallFails, RollBack,
           RollBackFails, CleanShadowed, BrewUpgrade, BrewFails, BrewVerify, BrewUpdate,
           DeadlinePasses, Kill
  <2>2. CASE Install(u)
    BY <2>2 DEF Install, Carried, FilesSound
  <2>3. CASE BrewVerify(u)
    BY <2>3 DEF BrewVerify, Carried
  <2> QED
    BY <2>1, <2>2, <2>3
<1> QED
  BY <1>1, UpdaterStarts, UpdaterStays, PTL DEF UpdaterSpec, UpdatedIsLatest

-----------------------------------------------------------------------------
(* The agy command *)

AgySteps == {"fetch", "clear", "place", "look", "move", "drop", "wrap"} \cup AgyEnded

Things == [kind: {"native", "wrapper", "old", "link", "linked", "oldlinked", "none"}, version: Nat]

AgyTypeOK ==
  /\ install \in InstallPlans
  /\ agy \in Things /\ real \in Things
  /\ guard \in [Actors -> [pc: AgySteps, seen: Things]]
  /\ installFaults \in Nat /\ selfUpdates \in Nat

\* Something that runs by itself.
Genuine(thing) == thing.kind = "native" /\ thing.version # 0

\* Who does not take part has not begun.
OthersWait == \A g \in Actors \ install.actors : guard[g].pc \in {"fetch", "look"}

\* With one process at it there is a native program behind a wrapper and behind
\* a gap, but for the wrapper of a link that is lost ...
Behind(g) ==
  /\ agy.kind = "none" => agy = Nothing
  /\ agy.kind = "native" => agy.version # 0
  /\ Genuine(real) \/ real.kind = "none"
  /\ agy.kind = "old" => Genuine(real)
  /\ agy.kind = "wrapper" => Genuine(real) \/ (guard[g].pc = "done" /\ Lost(g))
  /\ agy = Nothing /\ install.first # "none" => Genuine(real) \/ Lost(g)

\* ... what the guard has seen is still what it works on ...
Working(g) ==
  /\ guard[g].pc \in {"fetch", "clear", "look"} /\ install.first # "none" => agy # Nothing
  /\ guard[g].pc \in {"fetch", "clear", "place"} => g \in Installers
  /\ guard[g].pc = "place" => ~Script(agy)
  /\ guard[g].pc = "move" => Genuine(agy)
  /\ guard[g].pc = "drop" => Genuine(agy) /\ real = agy
  /\ guard[g].pc \in {"move", "drop"} => guard[g].seen.kind = "native"
  /\ guard[g].pc = "wrap" =>
       \/ guard[g].seen.kind = "native" /\ agy = Nothing /\ Genuine(real)
       \/ guard[g].seen.kind = "link" /\ agy.kind = "link"
       \/ guard[g].seen.kind = "old" /\ agy.kind = "old"
       \/ guard[g].seen.kind = "oldlinked" /\ agy.kind = "oldlinked"
  /\ guard[g].pc = "done" /\ installFaults = 0 /\ install.first # "none" => agy # Nothing

\* ... an installer wraps what it has placed ...
Placed(g) ==
  g \in Installers =>
    /\ guard[g].pc = "look" => agy.kind = "native"
    /\ guard[g].pc = "wrap" \/ (guard[g].pc = "done" /\ installFaults = 0) => guard[g].seen.kind = "native"

\* ... and it is the program that was installed.
Bringing(g) ==
  g \in Installers /\ installFaults = 0 /\ selfUpdates = 0 =>
    /\ guard[g].pc \in {"look", "move", "drop"} => agy = Native(NewVersion)
    /\ guard[g].pc = "wrap" => guard[g].seen.kind = "native"
    /\ guard[g].pc \in {"drop", "wrap", "done"} => real = Native(NewVersion)
    /\ guard[g].pc = "done" => agy.kind = "wrapper"

OnlyActor(g) == install.actors = {g}

AgyInv ==
  /\ AgyTypeOK /\ OthersWait
  /\ \A g \in Actors : OnlyActor(g) => Behind(g) /\ Working(g) /\ Placed(g) /\ Bringing(g)


LEMMA AgyStarts == AgyInit => AgyInv
<1> SUFFICES ASSUME AgyInit PROVE AgyInv
  OBVIOUS
<1> USE InstallParameters DEF AgyInit, Native, Made, Nothing, AgySteps, Things
<1>1. guard \in [Actors -> [pc: {"fetch", "look"}, seen: Things]]
  <2>1. Nothing \in Things
    OBVIOUS
  <2> QED
    BY <2>1
<1>2. install.first \in {"native", "wrapper", "old", "link", "linked", "oldlinked", "none"}
  OBVIOUS
<1>3. agy \in Things /\ real \in Things
  BY <1>2
<1>4. AgyTypeOK
  BY <1>1, <1>3 DEF AgyTypeOK
<1>5. OthersWait
  BY <1>1 DEF OthersWait
<1>6. ASSUME NEW g \in Actors PROVE Behind(g) /\ Working(g) /\ Placed(g) /\ Bringing(g)
  <2>1. guard[g].pc \in {"fetch", "look"} /\ (g \in Installers => guard[g].pc = "fetch")
    BY <1>1
  <2> QED
    BY <1>2, <2>1 DEF Behind, Genuine, Working, Placed, Bringing, Script
<1> QED
  BY <1>4, <1>5, <1>6 DEF AgyInv

LEMMA AgyTypeStays ==
  ASSUME AgyTypeOK, OthersWait, NEW g \in Actors, Act(g) \/ KillActor(g)
  PROVE  AgyTypeOK' /\ OthersWait'
<1> USE DEF AgyTypeOK, Does, Then, AgySteps, AgyEnded, OthersWait
<1>1. NewVersion \in Nat /\ Nothing \in Things /\ Native(NewVersion) \in Things
  BY InstallParameters DEF NewVersion, Nothing, Made, Native, Things
<1>2. Made("wrapper") \in Things /\ Made("linked") \in Things
  BY DEF Made, Things
<1>3. CASE Fetch(g)
  BY <1>1, <1>2, <1>3 DEF Fetch
<1>4. CASE FetchNothing(g)
  BY <1>1, <1>2, <1>4 DEF FetchNothing
<1>5. CASE RemoveWrapper(g)
  BY <1>1, <1>2, <1>5 DEF RemoveWrapper
<1>6. CASE Place(g)
  BY <1>1, <1>2, <1>6 DEF Place
<1>7. CASE PlaceFails(g)
  BY <1>1, <1>2, <1>7 DEF PlaceFails
<1>8. CASE Look(g)
  <2>1. PICK next \in {"move", "wrap", "done"} : guard' = [guard EXCEPT ![g] = [seen |-> agy, pc |-> next]]
    BY <1>8 DEF Look
  <2>2. [seen |-> agy, pc |-> next] \in [pc: AgySteps, seen: Things]
    BY <2>1
  <2> QED
    BY <1>8, <2>1, <2>2 DEF Look
<1>9. CASE Move(g)
  BY <1>1, <1>2, <1>9 DEF Move
<1>10. CASE Copy(g)
  BY <1>1, <1>2, <1>10 DEF Copy
<1>11. CASE CopyFails(g)
  BY <1>1, <1>2, <1>11 DEF CopyFails
<1>12. CASE DropSource(g)
  BY <1>1, <1>2, <1>12 DEF DropSource
<1>13. CASE Wrap(g)
  BY <1>1, <1>2, <1>13 DEF Wrap
<1>14. CASE WrapFails(g)
  BY <1>1, <1>2, <1>14 DEF WrapFails
<1>15. CASE KillActor(g)
  BY <1>1, <1>2, <1>15 DEF KillActor
<1> QED
  BY <1>3, <1>4, <1>5, <1>6, <1>7, <1>8, <1>9, <1>10, <1>11, <1>12, <1>13, <1>14, <1>15 DEF Act


LEMMA ActStays ==
  ASSUME AgyTypeOK, NEW g \in Actors, OnlyActor(g), Behind(g), Working(g), Placed(g), Bringing(g),
         Act(g) \/ KillActor(g)
  PROVE  Behind(g)' /\ Working(g)' /\ Placed(g)' /\ Bringing(g)'
<1> USE DEF AgyTypeOK, Does, Then, AgyEnded, Script, Genuine
<1>1. NewVersion \in Nat \ {0}
  BY InstallParameters DEF NewVersion
<1>2. CASE Fetch(g)
  <2>1. Behind(g)'
    BY <1>1, <1>2 DEF Fetch, Behind, Lost, Working, Placed, Things, Nothing, Made, Native
  <2>2. Working(g)' /\ Placed(g)'
    BY <1>1, <1>2 DEF Fetch, Behind, Lost, Working, Placed, Things, Nothing, Made, Native
  <2>3. Bringing(g)'
    BY <1>1, <1>2 DEF Fetch, Working, Bringing, Things, Nothing, Made, Native, NewVersion
  <2> QED
    BY <2>1, <2>2, <2>3
<1>3. CASE FetchNothing(g)
  <2>1. Behind(g)'
    BY <1>1, <1>3 DEF FetchNothing, Behind, Lost, Working, Placed, Things, Nothing, Made, Native
  <2>2. Working(g)' /\ Placed(g)'
    BY <1>1, <1>3 DEF FetchNothing, Behind, Lost, Working, Placed, Things, Nothing, Made, Native
  <2>3. Bringing(g)'
    BY <1>1, <1>3 DEF FetchNothing, Working, Bringing, Things, Nothing, Made, Native,
       NewVersion
  <2> QED
    BY <2>1, <2>2, <2>3
<1>4. CASE RemoveWrapper(g)
  <2>1. Behind(g)'
    BY <1>1, <1>4 DEF RemoveWrapper, Behind, Lost, Working, Placed, Things, Nothing, Made, Native
  <2>2. Working(g)' /\ Placed(g)'
    BY <1>1, <1>4 DEF RemoveWrapper, Behind, Lost, Working, Placed, Things, Nothing, Made, Native
  <2>3. Bringing(g)'
    BY <1>1, <1>4 DEF RemoveWrapper, Working, Bringing, Things, Nothing, Made, Native,
       NewVersion
  <2> QED
    BY <2>1, <2>2, <2>3
<1>5. CASE Place(g)
  <2>1. Behind(g)'
    BY <1>1, <1>5 DEF Place, Behind, Lost, Working, Placed, Things, Nothing, Made, Native
  <2>2. Working(g)' /\ Placed(g)'
    BY <1>1, <1>5 DEF Place, Behind, Lost, Working, Placed, Things, Nothing, Made, Native
  <2>3. Bringing(g)'
    BY <1>1, <1>5 DEF Place, Working, Bringing, Things, Nothing, Made, Native, NewVersion
  <2> QED
    BY <2>1, <2>2, <2>3
<1>6. CASE PlaceFails(g)
  <2>1. Behind(g)'
    BY <1>1, <1>6 DEF PlaceFails, Behind, Lost, Working, Placed, Things, Nothing, Made, Native
  <2>2. Working(g)' /\ Placed(g)'
    BY <1>1, <1>6 DEF PlaceFails, Behind, Lost, Working, Placed, Things, Nothing, Made, Native
  <2>3. Bringing(g)'
    BY <1>1, <1>6 DEF PlaceFails, Working, Bringing, Things, Nothing, Made, Native, NewVersion
  <2> QED
    BY <2>1, <2>2, <2>3
<1>7. CASE Look(g)
  <2>1. Behind(g)'
    BY <1>1, <1>7 DEF Look, Behind, Lost, Working, Placed, Things, Nothing, Made, Native
  <2>2. Working(g)' /\ Placed(g)'
    BY <1>1, <1>7 DEF Look, Behind, Lost, Working, Placed, Things, Nothing, Made, Native
  <2>3. Bringing(g)'
    BY <1>1, <1>7 DEF Look, Working, Bringing, Things, Nothing, Made, Native, NewVersion
  <2> QED
    BY <2>1, <2>2, <2>3
<1>8. CASE Move(g)
  <2>1. Behind(g)'
    BY <1>1, <1>8 DEF Move, Behind, Lost, Working, Placed, Things, Nothing, Made, Native
  <2>2. Working(g)' /\ Placed(g)'
    BY <1>1, <1>8 DEF Move, Behind, Lost, Working, Placed, Things, Nothing, Made, Native
  <2>3. Bringing(g)'
    BY <1>1, <1>8 DEF Move, Working, Bringing, Things, Nothing, Made, Native, NewVersion
  <2> QED
    BY <2>1, <2>2, <2>3
<1>9. CASE Copy(g)
  <2>1. Behind(g)'
    BY <1>1, <1>9 DEF Copy, Behind, Lost, Working, Placed, Things, Nothing, Made, Native
  <2>2. Working(g)' /\ Placed(g)'
    BY <1>1, <1>9 DEF Copy, Behind, Lost, Working, Placed, Things, Nothing, Made, Native
  <2>3. Bringing(g)'
    BY <1>1, <1>9 DEF Copy, Working, Bringing, Things, Nothing, Made, Native, NewVersion
  <2> QED
    BY <2>1, <2>2, <2>3
<1>10. CASE CopyFails(g)
  <2>1. Behind(g)'
    BY <1>1, <1>10 DEF CopyFails, Behind, Lost, Working, Placed, Things, Nothing, Made, Native
  <2>2. Working(g)' /\ Placed(g)'
    BY <1>1, <1>10 DEF CopyFails, Behind, Lost, Working, Placed, Things, Nothing, Made, Native
  <2>3. Bringing(g)'
    BY <1>1, <1>10 DEF CopyFails, Working, Bringing, Things, Nothing, Made, Native, NewVersion
  <2> QED
    BY <2>1, <2>2, <2>3
<1>11. CASE DropSource(g)
  <2>1. Behind(g)'
    BY <1>1, <1>11 DEF DropSource, Behind, Lost, Working, Placed, Things, Nothing, Made, Native
  <2>2. Working(g)' /\ Placed(g)'
    BY <1>1, <1>11 DEF DropSource, Behind, Lost, Working, Placed, Things, Nothing, Made, Native
  <2>3. Bringing(g)'
    BY <1>1, <1>11 DEF DropSource, Working, Bringing, Things, Nothing, Made, Native, NewVersion
  <2> QED
    BY <2>1, <2>2, <2>3
<1>12. CASE Wrap(g)
  <2>1. Behind(g)'
    BY <1>1, <1>12 DEF Wrap, Behind, Lost, Working, Placed, Things, Nothing, Made, Native
  <2>2. Working(g)' /\ Placed(g)'
    BY <1>1, <1>12 DEF Wrap, Behind, Lost, Working, Placed, Things, Nothing, Made, Native
  <2>3. Bringing(g)'
    BY <1>1, <1>12 DEF Wrap, Working, Bringing, Things, Nothing, Made, Native, NewVersion
  <2> QED
    BY <2>1, <2>2, <2>3
<1>13. CASE WrapFails(g)
  <2>1. Behind(g)'
    BY <1>1, <1>13 DEF WrapFails, Behind, Lost, Working, Placed, Things, Nothing, Made, Native
  <2>2. Working(g)' /\ Placed(g)'
    BY <1>1, <1>13 DEF WrapFails, Behind, Lost, Working, Placed, Things, Nothing, Made, Native
  <2>3. Bringing(g)'
    BY <1>1, <1>13 DEF WrapFails, Working, Bringing, Things, Nothing, Made, Native, NewVersion
  <2> QED
    BY <2>1, <2>2, <2>3
<1>14. CASE KillActor(g)
  <2>1. Behind(g)'
    BY <1>1, <1>14 DEF KillActor, Behind, Lost, Working, Placed, Things, Nothing, Made, Native
  <2>2. Working(g)' /\ Placed(g)'
    BY <1>1, <1>14 DEF KillActor, Behind, Lost, Working, Placed, Things, Nothing, Made, Native
  <2>3. Bringing(g)'
    BY <1>1, <1>14 DEF KillActor, Working, Bringing, Things, Nothing, Made, Native, NewVersion
  <2> QED
    BY <2>1, <2>2, <2>3
<1> QED
  BY <1>2, <1>3, <1>4, <1>5, <1>6, <1>7, <1>8, <1>9, <1>10, <1>11, <1>12, <1>13, <1>14 DEF Act


LEMMA SelfUpdateStays == ASSUME AgyInv, SelfUpdate PROVE AgyInv'
<1> USE DEF AgyInv, SelfUpdate
<1>1. agy' = [kind |-> "native", version |-> selfUpdates + 2] /\ selfUpdates \in Nat
  BY DEF AgyTypeOK, Native
<1>2. AgyTypeOK' /\ OthersWait'
  BY <1>1 DEF AgyTypeOK, OthersWait, Things
<1>3. ASSUME NEW g \in Actors, OnlyActor(g)' PROVE Behind(g)' /\ Working(g)' /\ Placed(g)' /\ Bringing(g)'
  <2>1. OnlyActor(g) /\ guard[g].pc \in {"look", "fetch"} \cup AgyEnded
    BY <1>3 DEF OnlyActor
  <2>2. Behind(g)' /\ Working(g)' /\ Placed(g)'
    BY <1>1, <2>1 DEF Behind, Lost, Working, Placed, Genuine, Script, Nothing, Made, AgyEnded
  <2>3. Bringing(g)'
    BY <1>1 DEF Bringing
  <2> QED
    BY <2>2, <2>3
<1> QED
  BY <1>2, <1>3

LEMMA AgyStays == AgyInv /\ [AgyNext]_installVars => AgyInv'
<1> SUFFICES ASSUME AgyInv, [AgyNext]_installVars PROVE AgyInv'
  OBVIOUS
<1>1. CASE SelfUpdate
  BY <1>1, SelfUpdateStays
<1>2. CASE \E g \in Actors : Act(g) \/ KillActor(g)
  <2>1. PICK g \in Actors : Act(g) \/ KillActor(g)
    BY <1>2
  <2>2. AgyTypeOK' /\ OthersWait'
    BY <2>1, AgyTypeStays DEF AgyInv
  <2>3. install' = install /\ g \in install.actors
    BY <2>1 DEF Act, Does, Fetch, FetchNothing, RemoveWrapper, Place, PlaceFails, Look,
       Move, Copy,
                CopyFails, DropSource, Wrap, WrapFails, KillActor
  <2>4. ASSUME NEW h \in Actors, OnlyActor(h)' PROVE Behind(h)' /\ Working(h)' /\ Placed(h)' /\ Bringing(h)'
    <3>1. h = g /\ OnlyActor(g)
      BY <2>3, <2>4 DEF OnlyActor
    <3> QED
      BY <2>1, <3>1, ActStays DEF AgyInv
  <2> QED
    BY <2>2, <2>4 DEF AgyInv
<1>3. CASE UNCHANGED installVars
  BY <1>3 DEF installVars, AgyInv, AgyTypeOK, OthersWait, OnlyActor, Behind, Lost, Working, Placed, Bringing,
              Genuine, Script
<1> QED
  BY <1>1, <1>2, <1>3 DEF AgyNext

\* However the guard or an installation is interrupted, and however often agy
\* updates itself over the wrapper: a command that could be run can be run
\* (agy_installer.go:122-164, session_guard.go:457-474).
THEOREM AgyStaysFound == AgySpec => []AgyFound
<1>1. AgyInv => AgyFound
  <2> SUFFICES ASSUME AgyInv PROVE AgyFound
    OBVIOUS
  <2> USE DEF AgyInv, AgyTypeOK
  <2>1. CASE Alone
    <3>1. install.actors \subseteq Actors /\ IsFiniteSet(install.actors)
      BY InstallParameters, FS_Subset
    <3>2. PICK g \in Actors : OnlyActor(g)
      BY <2>1, <3>1, OnlyOne DEF Alone, OnlyActor
    <3>3. Behind(g) /\ Working(g) /\ Placed(g) /\ Bringing(g)
      BY <3>2
    <3>4. install.default /\ install.first # "none" => Found # 0 \/ Lost(g)
      BY <3>3 DEF Behind, Found, Runs, Genuine, Things, Nothing, Made
    <3>5. installFaults = 0 /\ guard[g].pc = "done" /\ install.first # "none" =>
            Runs(agy) # 0 \/ (g \in Guards /\ Lost(g))
      <4>1. SUFFICES ASSUME installFaults = 0, guard[g].pc = "done", install.first # "none",
                            Runs(agy) = 0
                     PROVE  g \in Guards /\ Lost(g)
        OBVIOUS
      <4>2. agy # Nothing
        BY <3>3, <4>1 DEF Working
      <4>3. Lost(g) /\ guard[g].seen.kind = "oldlinked"
        BY <3>3, <4>1, <4>2 DEF Behind, Lost, Runs, Genuine, Things
      <4> QED
        BY <3>3, <4>1, <4>3 DEF Placed, Actors
    <3>6. ASSUME NEW i \in Installers, installFaults = 0, selfUpdates = 0, guard[i].pc = "done"
          PROVE  Script(agy) /\ Runs(agy) = NewVersion
      <4>1. i = g
        BY <3>2, <3>6 DEF OthersWait, OnlyActor, Actors
      <4> QED
        BY <3>3, <3>6, <4>1 DEF Bringing, Runs, Script, Native
    <3> QED
      BY <3>2, <3>4, <3>5, <3>6 DEF AgyFound, OnlyActor
  <2> QED
    BY <2>1 DEF AgyFound
<1> QED
  BY <1>1, AgyStarts, AgyStays, PTL DEF AgySpec
================================================================================
