-------------------------------- MODULE Updater --------------------------------
(***************************************************************************)
(* agy-swap update (src/internal/app/updater.go): find the latest release, *)
(* download and check it, try it, and put it in the place of the program   *)
(* that runs, whose file is kept as .bak.  On Windows the new program does *)
(* the last part itself, as a finalizer, after the old one has ended.  A   *)
(* program that Homebrew manages is left to Homebrew.                      *)
(*                                                                         *)
(* There is no lock: two updates may go on at a time.  An update can be    *)
(* killed between any two steps, and a rename may fail.                    *)
(***************************************************************************)
EXTENDS Naturals, FiniteSets

CONSTANTS
  Updaters,
  UpdatePlans,   \* how the program is installed, and which updates are asked for
  MaxVersion,    \* releases are numbered
  MaxFaults      \* bound: renames that fail and updates that are killed

ASSUME UpdateParameters ==
  /\ IsFiniteSet(Updaters)
  /\ UpdatePlans \subseteq [platform: {"posix", "windows", "brew"},
                            asked: SUBSET Updaters, forced: SUBSET Updaters]
  /\ MaxVersion \in Nat \ {0} /\ MaxFaults \in Nat

VARIABLES
  updates,   \* one of UpdatePlans; does not change
  latest,    \* the latest release, the version the website names, and what brew knows of
  files,     \* the program, its .bak, and one in ~/.local/bin that comes first in PATH
  updater,   \* what each update knows
  faults

updaterVars == <<updates, latest, files, updater, faults>>

Versions == 1..MaxVersion

\* "corrupt" does not run, and "foreign" runs but is not what the release has.
\* "built" is made from source by the Go toolchain.
None == [version |-> 0, kind |-> "none"]
Sound(file) == file.kind \in {"released", "built"}

Ended == {"updated", "stopped", "failed", "killed"}

\* own: the version it runs.  target: the release it is after.  expired: its
\* deadline has passed.  again: brew has been told to refresh its taps.
Start == [pc |-> "begin", own |-> 0, target |-> 0, candidate |-> None,
          expired |-> FALSE, again |-> FALSE]

UpdaterInit ==
  /\ updates \in UpdatePlans
  /\ latest \in [release: Versions, site: Versions, tap: Versions]
  /\ latest.tap <= latest.release
  /\ files = [current |-> [version |-> 1, kind |-> "released"], backup |-> None,
              shadow |-> updates.platform = "brew"]
  /\ updater = [u \in Updaters |-> Start]
  /\ faults = 0

At(u, step) == u \in updates.asked /\ updater[u].pc = step
Goto(u, next) == updater' = [updater EXCEPT ![u].pc = next]
Windows == updates.platform = "windows"

\* A website that is ahead of the release has no checksums to show for it.
FetchLatestRelease(u) ==
  /\ At(u, "begin")
  /\ files.current # None
  /\ \E version \in {latest.release, latest.site} :
       /\ version <= latest.release
       /\ updater' = [updater EXCEPT ![u].pc = "decide", ![u].own = files.current.version,
                                     ![u].target = version]
  /\ UNCHANGED <<updates, latest, files, faults>>

FetchFails(u) ==
  /\ At(u, "begin")
  /\ Goto(u, "failed")
  /\ UNCHANGED <<updates, latest, files, faults>>

Decide(u) ==
  /\ At(u, "decide")
  /\ Goto(u, IF updater[u].target <= updater[u].own /\ u \notin updates.forced THEN "stopped"
             ELSE IF updates.platform = "brew" THEN "shadow" ELSE "download")
  /\ UNCHANGED <<updates, latest, files, faults>>

\* The user only wants to know (--check).
OnlyCheck(u) ==
  /\ At(u, "decide")
  /\ Goto(u, "stopped")
  /\ UNCHANGED <<updates, latest, files, faults>>

\* Anything may be downloaded; only the release has its checksum.
Download(u) ==
  /\ At(u, "download")
  /\ \E kind \in {"released", "corrupt", "foreign"} :
       IF kind = "released"
         THEN updater' = [updater EXCEPT ![u].pc = "test",
                ![u].candidate = [version |-> updater[u].target, kind |-> kind]]
         ELSE Goto(u, "failed")
  /\ UNCHANGED <<updates, latest, files, faults>>

\* When certificates are the reason, and not on Windows, the program is built.
DownloadFails(u) ==
  /\ At(u, "download")
  /\ \/ Goto(u, "failed")
     \/ ~Windows /\ Goto(u, "build")
  /\ UNCHANGED <<updates, latest, files, faults>>

\* tryGoToolchainFallback
Build(u) ==
  /\ At(u, "build")
  /\ \E kind \in {"built", "corrupt"} :
       updater' = [updater EXCEPT ![u].pc = "test",
         ![u].candidate = [version |-> updater[u].target, kind |-> kind]]
  /\ UNCHANGED <<updates, latest, files, faults>>

\* verifyUpdateBinary.
TryCandidate(u) ==
  /\ At(u, "test")
  /\ Goto(u, IF updater[u].candidate.kind = "corrupt" THEN "failed" ELSE "remove")
  /\ UNCHANGED <<updates, latest, files, faults>>

-----------------------------------------------------------------------------
(* replaceUpdateBinary and, on Windows, runUpdateFinalizer *)

RemoveBackup(u) ==
  /\ At(u, "remove")
  /\ files' = [files EXCEPT !.backup = None]
  /\ Goto(u, "move")
  /\ UNCHANGED <<updates, latest, faults>>

\* Faulty: the old program is deleted.
DeleteCurrent(u) ==
  /\ At(u, "move")
  /\ files.current # None
  /\ files' = [files EXCEPT !.current = None]
  /\ Goto(u, "install")
  /\ UNCHANGED <<updates, latest, faults>>

MoveAway(u) ==
  /\ At(u, "move")
  /\ files.current # None
  /\ files' = [files EXCEPT !.backup = files.current, !.current = None]
  /\ Goto(u, "install")
  /\ UNCHANGED <<updates, latest, faults>>

\* There is no program, or on Windows it still runs.  The finalizer tries again
\* until its deadline, and removes the backup every time.
MoveFails(u) ==
  /\ At(u, "move")
  /\ files.current = None \/ Windows
  /\ Goto(u, IF Windows /\ ~updater[u].expired THEN "remove" ELSE "failed")
  /\ UNCHANGED <<updates, latest, files, faults>>

Install(u) ==
  /\ At(u, "install")
  /\ files' = [files EXCEPT !.current = updater[u].candidate]
  /\ Goto(u, "updated")
  /\ UNCHANGED <<updates, latest, faults>>

\* The finalizer tries this again, too.
InstallFails(u) ==
  /\ At(u, "install")
  /\ faults < MaxFaults
  /\ faults' = faults + 1
  /\ Goto(u, IF Windows /\ ~updater[u].expired THEN "install" ELSE "rollback")
  /\ UNCHANGED <<updates, latest, files>>

\* The backup is moved back, over whatever is there by now.
RollBack(u) ==
  /\ At(u, "rollback")
  /\ files' = IF files.backup = None THEN files
              ELSE [files EXCEPT !.current = files.backup, !.backup = None]
  /\ Goto(u, "failed")
  /\ UNCHANGED <<updates, latest, faults>>

RollBackFails(u) ==
  /\ At(u, "rollback")
  /\ faults < MaxFaults
  /\ faults' = faults + 1
  /\ Goto(u, "failed")
  /\ UNCHANGED <<updates, latest, files>>

DeadlinePasses(u) ==
  /\ Windows
  /\ updater[u].pc \in {"remove", "move", "install"}
  /\ ~updater[u].expired
  /\ updater' = [updater EXCEPT ![u].expired = TRUE]
  /\ UNCHANGED <<updates, latest, files, faults>>

-----------------------------------------------------------------------------
(* upgradeViaHomebrew *)

\* Any program in ~/.local/bin goes first.
CleanShadowed(u) ==
  /\ At(u, "shadow")
  /\ files' = [files EXCEPT !.shadow = FALSE]
  /\ Goto(u, "upgrade")
  /\ UNCHANGED <<updates, latest, faults>>

BrewUpgrade(u) ==
  /\ At(u, "upgrade")
  /\ files' = [files EXCEPT !.current = [version |-> latest.tap, kind |-> "released"]]
  /\ Goto(u, "verify")
  /\ UNCHANGED <<updates, latest, faults>>

BrewFails(u) ==
  /\ At(u, "upgrade") \/ At(u, "refresh")
  /\ Goto(u, "failed")
  /\ UNCHANGED <<updates, latest, files, faults>>

\* Faulty: brew's word is taken for it the second time.
VerifyOnce(u) ==
  /\ At(u, "verify")
  /\ Goto(u, IF files.current.version = updater[u].target \/ updater[u].again
               THEN "updated" ELSE "refresh")
  /\ UNCHANGED <<updates, latest, files, faults>>

\* brew succeeds, too, when it does not know of the release yet.
BrewVerify(u) ==
  /\ At(u, "verify")
  /\ Goto(u, IF files.current.version = updater[u].target THEN "updated"
             ELSE IF updater[u].again THEN "failed" ELSE "refresh")
  /\ UNCHANGED <<updates, latest, files, faults>>

\* The tap may be behind the release even so.
BrewUpdate(u) ==
  /\ At(u, "refresh")
  /\ \E version \in latest.tap..latest.release : latest' = [latest EXCEPT !.tap = version]
  /\ updater' = [updater EXCEPT ![u].pc = "upgrade", ![u].again = TRUE]
  /\ UNCHANGED <<updates, files, faults>>

-----------------------------------------------------------------------------

Publish ==
  /\ latest.release < MaxVersion
  /\ latest' = [latest EXCEPT !.release = @ + 1]
  /\ UNCHANGED <<updates, files, updater, faults>>

Kill(u) ==
  /\ u \in updates.asked /\ updater[u].pc \notin Ended
  /\ faults < MaxFaults
  /\ faults' = faults + 1
  /\ Goto(u, "killed")
  /\ UNCHANGED <<updates, latest, files>>

Update(u) ==
  \/ FetchLatestRelease(u) \/ FetchFails(u) \/ Decide(u) \/ OnlyCheck(u)
  \/ Download(u) \/ DownloadFails(u) \/ Build(u) \/ TryCandidate(u)
  \/ RemoveBackup(u) \/ MoveAway(u) \/ MoveFails(u)
  \/ Install(u) \/ InstallFails(u) \/ RollBack(u) \/ RollBackFails(u)
  \/ CleanShadowed(u) \/ BrewUpgrade(u) \/ BrewFails(u) \/ BrewVerify(u) \/ BrewUpdate(u)

UpdaterNext ==
  \/ \E u \in Updaters : Update(u) \/ DeadlinePasses(u) \/ Kill(u)
  \/ Publish

UpdaterSpec == UpdaterInit /\ [][UpdaterNext]_updaterVars

-----------------------------------------------------------------------------
(* Properties *)

\* A lone update leaves a program that works, as itself or as its .bak, wherever
\* it is killed and whatever fails; two at a time do when nothing fails; and no
\* program is ever installed that was not checked.  A lone update that fails by
\* itself leaves it as itself, unless the roll back fails as well
\* (updater.go:358-474).
ExecutableKept ==
  /\ files.current = None \/ Sound(files.current)
  /\ files.backup = None \/ Sound(files.backup)
  /\ Cardinality(updates.asked) = 1 => files.current # None \/ files.backup # None
  /\ faults = 0 /\ (\A u \in updates.asked : updater[u].pc \in Ended) => files.current # None
  /\ \A u \in updates.asked :
       updates.asked = {u} /\ updater[u].pc \in Ended \ {"killed"} /\ faults <= 1 =>
         files.current # None

\* Success is only announced when the program is the release the update was
\* after, which has all its files, and is not shadowed; without --force it is
\* newer than the program the update was started from (updater.go, cmdUpdate
\* and upgradeViaHomebrew).
UpdatedIsLatest ==
  [][\A u \in Updaters :
       updater[u].pc # "updated" /\ updater'[u].pc = "updated" =>
         /\ files'.current.version = updater[u].target
         /\ updater[u].target <= latest.release
         /\ ~files'.shadow
         /\ u \in updates.forced \/ updater[u].target > updater[u].own]_updaterVars
=============================================================================
