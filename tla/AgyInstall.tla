------------------------------- MODULE AgyInstall -------------------------------
(***************************************************************************)
(* The agy command and its session guard (src/internal/app/                *)
(* agy_installer.go, session_guard.go).  Every agy-swap --sync-session     *)
(* looks whether agy is the native program and, if it is, moves it aside   *)
(* and puts a wrapper script in its place that runs agy-swap before and    *)
(* after.  install-agy puts a new native program there and does the same.  *)
(*                                                                         *)
(* The guard runs before any lock is taken, so that several may look at    *)
(* the same time; and agy updates itself, over the wrapper.                *)
(***************************************************************************)
EXTENDS Naturals, FiniteSets

CONSTANTS
  Guards,
  Installers,
  InstallPlans,     \* who runs, whether agy is in ~/.local/bin, and what it is at first
  MaxInstallFaults, \* bound: steps that fail and processes that are killed
  MaxSelfUpdates    \* bound: updates of agy by itself

Actors == Guards \cup Installers

VARIABLES
  install,     \* one of InstallPlans; does not change
  agy,         \* what is at the path of the command
  real,        \* and where the guard moves it: ~/.local/libexec/agy or .agy.real
  guard,       \* what each process does and has seen
  installFaults,
  selfUpdates

installVars == <<install, agy, real, guard, installFaults, selfUpdates>>

\* What is at a path: a native program has a version.  A "wrapper" runs what is
\* at "real"; a "link", and the wrapper that was made of one ("linked"), run what
\* the link led to, which is version 1 here.  "old" and "oldlinked" are wrappers
\* of an earlier agy-swap.
Native(version) == [kind |-> "native", version |-> version]
Made(kind) == [kind |-> kind, version |-> 0]
Nothing == Made("none")

ASSUME InstallParameters ==
  /\ InstallPlans \subseteq [actors: SUBSET Actors, default: BOOLEAN,
                             first: {"native", "wrapper", "old", "link", "linked", "oldlinked", "none"}]
  /\ IsFiniteSet(Actors)
  /\ MaxInstallFaults \in Nat /\ MaxSelfUpdates \in Nat

\* The newest version an installer can bring.
NewVersion == MaxSelfUpdates + 2

AgyInit ==
  /\ install \in InstallPlans
  /\ agy = IF install.first = "native" THEN Native(1) ELSE Made(install.first)
  /\ real = IF install.first \in {"wrapper", "old"} THEN Native(1) ELSE Nothing
  /\ guard = [g \in Actors |-> [pc |-> IF g \in Installers THEN "fetch" ELSE "look", seen |-> Nothing]]
  /\ installFaults = 0
  /\ selfUpdates = 0

Does(g, step) == g \in install.actors /\ guard[g].pc = step
Then(g, next) == guard' = [guard EXCEPT ![g].pc = next]
AgyEnded == {"done", "failed", "killed"}

Script(thing) == thing.kind \in {"wrapper", "old", "linked", "oldlinked"}

-----------------------------------------------------------------------------
(* installAgyCLI *)

\* The manifest, the download, its SHA-512 and the extraction, in a staging
\* directory.
Fetch(i) ==
  /\ Does(i, "fetch")
  /\ Then(i, "clear")
  /\ UNCHANGED <<install, agy, real, installFaults, selfUpdates>>

FetchNothing(i) ==
  /\ Does(i, "fetch")
  /\ Then(i, "failed")
  /\ UNCHANGED <<install, agy, real, installFaults, selfUpdates>>

\* What is there is read, and if it is a wrapper it makes way.
RemoveWrapper(i) ==
  /\ Does(i, "clear")
  /\ agy' = IF Script(agy) THEN Nothing ELSE agy
  /\ guard' = [guard EXCEPT ![i] = [pc |-> "place", seen |-> agy]]
  /\ UNCHANGED <<install, real, installFaults, selfUpdates>>

\* Then `agy install` runs and a custom directory is saved in the settings.
Place(i) ==
  /\ Does(i, "place")
  /\ agy' = Native(NewVersion)
  /\ Then(i, "look")
  /\ UNCHANGED <<install, real, installFaults, selfUpdates>>

PlaceFails(i) ==
  /\ Does(i, "place")
  /\ installFaults < MaxInstallFaults
  /\ installFaults' = installFaults + 1
  /\ Then(i, "failed")
  /\ UNCHANGED <<install, agy, real, selfUpdates>>

-----------------------------------------------------------------------------
(* ensureAgyLauncherGuardForPath *)

Look(g) ==
  /\ Does(g, "look")
  /\ guard' = [guard EXCEPT ![g] =
       [seen |-> agy,
        pc   |-> CASE agy.kind = "native" -> "move"
                   [] agy.kind \in {"link", "old", "oldlinked"} -> "wrap"
                   [] OTHER -> "done"]]
  /\ UNCHANGED <<install, agy, real, installFaults, selfUpdates>>

\* moveOrCopyExecutable.  Whatever is there by now is moved.
Move(g) ==
  /\ Does(g, "move")
  /\ IF agy = Nothing
       THEN Then(g, "done") /\ UNCHANGED <<agy, real>>
       ELSE real' = agy /\ agy' = Nothing /\ Then(g, "wrap")
  /\ UNCHANGED <<install, installFaults, selfUpdates>>

\* It is copied where it cannot be renamed.
Copy(g) ==
  /\ Does(g, "move")
  /\ agy # Nothing
  /\ real' = agy
  /\ Then(g, "drop")
  /\ UNCHANGED <<install, agy, installFaults, selfUpdates>>

CopyFails(g) ==
  /\ Does(g, "move")
  /\ agy # Nothing
  /\ installFaults < MaxInstallFaults
  /\ installFaults' = installFaults + 1
  /\ Then(g, "done")
  /\ UNCHANGED <<install, agy, real, selfUpdates>>

DropSource(g) ==
  /\ Does(g, "drop")
  /\ agy' = Nothing
  /\ Then(g, "wrap")
  /\ UNCHANGED <<install, real, installFaults, selfUpdates>>

\* Faulty: the wrapper for a link runs the usual place.
WrapAlike(g) ==
  /\ Does(g, "wrap")
  /\ agy' = Made("wrapper")
  /\ Then(g, "done")
  /\ UNCHANGED <<install, real, installFaults, selfUpdates>>

\* writeExecutableAtomically.  A new wrapper for an old one runs the usual place,
\* whatever the old one ran.
Wrap(g) ==
  /\ Does(g, "wrap")
  /\ agy' = Made(IF guard[g].seen.kind = "link" THEN "linked" ELSE "wrapper")
  /\ Then(g, "done")
  /\ UNCHANGED <<install, real, installFaults, selfUpdates>>

\* Its error is ignored.
WrapFails(g) ==
  /\ Does(g, "wrap")
  /\ installFaults < MaxInstallFaults
  /\ installFaults' = installFaults + 1
  /\ Then(g, "done")
  /\ UNCHANGED <<install, agy, real, selfUpdates>>

-----------------------------------------------------------------------------

KillActor(g) ==
  /\ g \in install.actors /\ guard[g].pc \notin AgyEnded
  /\ installFaults < MaxInstallFaults
  /\ installFaults' = installFaults + 1
  /\ Then(g, "killed")
  /\ UNCHANGED <<install, agy, real, selfUpdates>>

\* agy updates itself at the path of the command, when nobody else is at it.
SelfUpdate ==
  /\ selfUpdates < MaxSelfUpdates
  /\ agy # Nothing
  /\ \A g \in install.actors : guard[g].pc \in {"look", "fetch"} \cup AgyEnded
  /\ selfUpdates' = selfUpdates + 1
  /\ agy' = Native(selfUpdates' + 1)
  /\ UNCHANGED <<install, real, guard, installFaults>>

Act(g) ==
  \/ Fetch(g) \/ FetchNothing(g) \/ RemoveWrapper(g) \/ Place(g) \/ PlaceFails(g)
  \/ Look(g) \/ Move(g) \/ Copy(g) \/ CopyFails(g) \/ DropSource(g)
  \/ Wrap(g) \/ WrapFails(g)

AgyNext == SelfUpdate \/ \E g \in Actors : Act(g) \/ KillActor(g)

AgySpec == AgyInit /\ [][AgyNext]_installVars

-----------------------------------------------------------------------------
(* Properties *)

\* The version that runs when agy is called; 0 if none does.
Runs(thing) ==
  CASE thing.kind = "native" -> thing.version
    [] thing.kind \in {"wrapper", "old"} -> IF real.kind = "native" THEN real.version ELSE 0
    [] thing.kind \in {"link", "linked", "oldlinked"} -> 1
    [] OTHER -> 0

\* resolveAgyExecutable: the path of the command, in ~/.local/bin, then
\* ~/.local/libexec.  In another directory only the path of the command is known.
Found == IF agy # Nothing THEN Runs(agy) ELSE IF install.default THEN Runs(real) ELSE 0

Alone == Cardinality(install.actors) = 1

\* With a wrapper made of a link nothing is kept at the usual place.  It is lost
\* between the removal by an installer and the new program, which may never come
\* (agy_installer.go:389-393); and a guard that finds one of an earlier agy-swap
\* makes it a wrapper of the usual place (session_guard.go:484-486).
Lost(g) ==
  \/ guard[g].seen.kind \in {"linked", "oldlinked"} /\ agy = Nothing
  \/ guard[g].seen.kind = "oldlinked" /\ agy.kind = "wrapper"

\* While one process is at it, agy can be run at every moment, by its path or
\* as resolveAgyExecutable finds it, if it could before; in a directory of the
\* user's own at least when the process has ended and nothing has failed.  The
\* one exception is the wrapper of a link that is lost as above.  An
\* installation that reports success leaves agy running the new version,
\* wrapped, whatever it found, unless agy has updated itself
\* (agy_installer.go:122-164, session_guard.go:457-486).
AgyFound ==
  /\ Alone /\ install.default /\ install.first # "none" =>
       Found # 0 \/ \E g \in install.actors : Lost(g)
  /\ \A g \in install.actors :
       Alone /\ installFaults = 0 /\ guard[g].pc = "done" /\ install.first # "none" =>
         Runs(agy) # 0 \/ (g \in Guards /\ Lost(g))
  /\ \A i \in Installers :
       Alone /\ installFaults = 0 /\ selfUpdates = 0 /\ guard[i].pc = "done" =>
         Script(agy) /\ Runs(agy) = NewVersion
=============================================================================
