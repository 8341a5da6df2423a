------------------------------ MODULE Settings ------------------------------
(***************************************************************************)
(* config.json and the commands that change it (settings.go, the config,   *)
(* alias, tag, profile, bind and target commands, the dashboard's forms).  *)
(* Every command loads the file, changes its copy and saves it; the save   *)
(* compares the revision it loaded with the file's, under the file's lock. *)
(* A user may have written the file by hand before.                        *)
(***************************************************************************)
EXTENDS Integers, Sequences, SequencesExt

\* What the processes do and the file they find: records
\* [edits |-> a sequence of edits, one for each process, file |-> settings, exists |-> BOOLEAN].
CONSTANT SettingsPlans

VARIABLES
  settingsPlan,
  config,       \* the file: its settings and its revision, 0 while there is no file
  editors       \* what every process has in hand

settingsVars == <<settingsPlan, config, editors>>

NoProfile == "no profile"
NoBinding == [path |-> <<>>, profile |-> ""]

\* Aliases, tags and targets are one entry each, "" when there is none.
Defaults ==
  [policy |-> "sticky", enabled |-> FALSE, threshold |-> 20, cooldown |-> 1800,
   alias |-> "", tag |-> "", target |-> "", split |-> 0,
   profiles |-> [name \in {"home", "work"} |-> NoProfile], bindings |-> <<>>]

Policies == {"sticky", "balanced", "round-robin"}

\* The settings form shows these and sends all of them back.
FormKeys == {"policy", "enabled", "threshold", "cooldown"}

\* What a file can hold, and a value of one of its keys.
AreSettings(s) ==
  /\ s = [key \in DOMAIN Defaults |-> s[key]]
  /\ s.enabled \in BOOLEAN /\ s.threshold \in Int /\ s.cooldown \in Int /\ s.split \in Int
  /\ s.profiles = [name \in {"home", "work"} |-> s.profiles[name]]

Fits(key, value) ==
  /\ key = "enabled" => value \in BOOLEAN
  /\ key \in {"threshold", "cooldown", "split"} => value \in Int

\* config set puts a key, the form those it shows; a profile has a name.
IsEdit(edit) ==
  /\ edit.kind \in {"put", "form", "alias", "tag", "target", "profile set", "profile remove",
                    "bind set", "bind remove", "reset", "dashboard reset"}
  /\ edit.kind \in {"put", "form"} =>
       /\ DOMAIN edit.values \subseteq FormKeys \cup {"split"}
       /\ \A key \in DOMAIN edit.values : Fits(key, edit.values[key])
  /\ edit.kind \in {"profile set", "profile remove"} => edit.name \in {"home", "work"}

ASSUME SettingsParameters ==
  \A plan \in SettingsPlans :
    /\ AreSettings(plan.file)
    /\ \A p \in DOMAIN plan.edits : IsEdit(plan.edits[p])

-----------------------------------------------------------------------------
\* normalizeSettings: what the file is read as and saved as.
Unset(s) == ~s.enabled /\ s.threshold = 0 /\ s.cooldown = 0

Normalized(s) ==
  LET policy == IF s.policy = "" THEN Defaults.policy ELSE s.policy
  IN [s EXCEPT
        !.policy = policy,
        !.threshold = IF Unset(s) THEN Defaults.threshold ELSE @,
        !.cooldown = IF @ = 0 /\ ~s.enabled THEN Defaults.cooldown ELSE @,
        !.split = IF @ \in -40..40 THEN @ ELSE 0,
        !.profiles = [name \in DOMAIN @ |-> IF @[name] = "" THEN policy ELSE @[name]]]

\* ... and what it refuses, in the file and in a save.
Refused(s) ==
  \/ Normalized(s).policy \notin Policies
  \/ s.cooldown < 0
  \/ s.threshold \notin 0..100
  \/ \E name \in DOMAIN s.profiles : Normalized(s).profiles[name] \notin Policies \cup {NoProfile}
  \/ \E i \in DOMAIN s.bindings : s.bindings[i].profile = ""

\* Faulty: what is saved is not looked at.
SavedAnyway(s) == TRUE

\* A save refuses it too.
Saveable(s) == ~Refused(s)

-----------------------------------------------------------------------------
(* The copy after the command of an edit; the dashboard's forms do the same. *)

\* alias, tag and target, set and remove ("").
AliasSet(edit, s) == [s EXCEPT !.alias = edit.value]
TagSet(edit, s) == [s EXCEPT !.tag = edit.value]
TargetSet(edit, s) == [s EXCEPT !.target = edit.value]

ProfileSet(edit, s) ==
  LET old == s.profiles[edit.name]
      policy == IF edit.policy # "" THEN edit.policy ELSE IF old # NoProfile THEN old ELSE s.policy
  IN [s EXCEPT !.profiles[edit.name] = policy]

BindingSet(edit, s) ==
  LET binding == [path |-> edit.path, profile |-> edit.profile]
      same == {i \in DOMAIN s.bindings : s.bindings[i].path = edit.path}
  IN [s EXCEPT !.bindings =
        IF same = {} THEN Append(@, binding)
        ELSE [i \in DOMAIN @ |-> IF i \in same THEN binding ELSE @[i]]]

BindingRemove(edit, s) ==
  [s EXCEPT !.bindings = SelectSeq(@, LAMBDA binding : binding.path # edit.path)]

\* config set, and the settings form, which sets each of its fields.
PutValues(values, s) == [key \in DOMAIN s |-> IF key \in DOMAIN values THEN values[key] ELSE s[key]]

Edited(edit, form, s) ==
  CASE edit.kind = "put" -> PutValues(edit.values, s)
    [] edit.kind = "form" -> PutValues(form, s)
    [] edit.kind = "alias" -> AliasSet(edit, s)
    [] edit.kind = "tag" -> TagSet(edit, s)
    [] edit.kind = "target" -> TargetSet(edit, s)
    [] edit.kind = "profile set" -> ProfileSet(edit, s)
    [] edit.kind = "profile remove" -> [s EXCEPT !.profiles[edit.name] = NoProfile]
    [] edit.kind = "bind set" -> BindingSet(edit, s)
    [] edit.kind = "bind remove" -> BindingRemove(edit, s)

\* bind set knows only the profiles of the copy it loaded, tag set and profile
\* set only the saved accounts.
Possible(edit, s) ==
  /\ edit.kind = "bind set" => s.profiles[edit.profile] # NoProfile
  /\ edit.kind \in {"tag", "profile set"} => edit.known

\* resolveBinding: the binding of the longest path that holds the directory.
Nearer(binding, best, dir) ==
  /\ IsPrefix(binding.path, dir)
  /\ best = NoBinding \/ Len(binding.path) > Len(best.path)

ResolveBinding(bindings, dir) ==
  LET best[n \in 0..Len(bindings)] ==
        IF n = 0 THEN NoBinding
        ELSE IF Nearer(bindings[n], best[n - 1], dir) THEN bindings[n] ELSE best[n - 1]
  IN best[Len(bindings)]

\* A folder uses the binding of the nearest folder above it or of itself.
IsNearest(best, bindings, dir) ==
  LET holders == {b \in ToSet(bindings) : IsPrefix(b.path, dir)}
  IN IF best = NoBinding THEN holders = {}
     ELSE best \in holders /\ \A b \in holders : IsPrefix(b.path, best.path)

\* It does, whatever the bindings of some nested folders and in whatever order they
\* were made (run.go:126).
ASSUME BindingIsNearest ==
  LET folders == {<<1>>, <<1, 2>>, <<1, 2, 3>>, <<4>>}
      profiles == [path: folders, profile: {"work"}]
  IN \A bindings \in UNION {[1..n -> profiles] : n \in 0..3}, dir \in folders :
       IsNearest(ResolveBinding(bindings, dir), bindings, dir)

-----------------------------------------------------------------------------
Editors == DOMAIN settingsPlan.edits

EditOf(p) == settingsPlan.edits[p]

SettingsInit ==
  /\ settingsPlan \in SettingsPlans
  /\ config = [settings |-> IF settingsPlan.exists THEN settingsPlan.file ELSE Defaults,
               revision |-> IF settingsPlan.exists THEN 1 ELSE 0]
  /\ editors = [p \in Editors |-> [at |-> "start", copy |-> Defaults, revision |-> 0, form |-> Defaults]]

Unreadable == Refused(config.settings)

InFile == Normalized(config.settings)

\* The dashboard opens its form on the settings it loaded for the view; the
\* user changes a field and the file may change until the form is sent.
OpenForm(p) ==
  /\ editors[p].at = "start" /\ EditOf(p).kind = "form" /\ ~Unreadable
  /\ editors' = [editors EXCEPT ![p].at = "form",
        ![p].form = PutValues(EditOf(p).values, [key \in FormKeys |-> InFile[key]])]
  /\ UNCHANGED <<settingsPlan, config>>

\* LoadSettings: a file that is refused ends every command, config reset too.
LoadSettings(p) ==
  /\ editors[p].at = (IF EditOf(p).kind = "form" THEN "form" ELSE "start")
  /\ EditOf(p).kind # "dashboard reset"
  /\ editors' = [editors EXCEPT ![p].at = IF Unreadable THEN "failed" ELSE "loaded",
        ![p].copy = IF Unreadable THEN @ ELSE InFile,
        ![p].revision = config.revision]
  /\ UNCHANGED <<settingsPlan, config>>

\* Faulty: the revision is not compared.
AlwaysCurrent(p) == TRUE

\* SaveSettings: nothing is written over a file that another process changed.
Current(p) == editors[p].revision = config.revision

\* The revision check, the refusals and the write are one step of the lock.
SaveSettings(p) ==
  /\ editors[p].at = "loaded" /\ EditOf(p).kind # "reset"
  /\ LET edited == Edited(EditOf(p), editors[p].form, editors[p].copy)
         saved == Possible(EditOf(p), editors[p].copy) /\ Current(p) /\ Saveable(edited)
     IN /\ editors' = [editors EXCEPT ![p].at = IF saved THEN "saved" ELSE "failed"]
        /\ config' = IF saved
                       THEN [settings |-> Normalized(edited), revision |-> config.revision + 1]
                       ELSE config
  /\ UNCHANGED settingsPlan

\* config reset --force, after its load, and the dashboard's reset, without one,
\* save the defaults over whatever is there.
ResetSettings(p) ==
  /\ \/ editors[p].at = "loaded" /\ EditOf(p).kind = "reset"
     \/ editors[p].at = "start" /\ EditOf(p).kind = "dashboard reset"
  /\ config' = [settings |-> Defaults, revision |-> config.revision + 1]
  /\ editors' = [editors EXCEPT ![p].at = "saved"]
  /\ UNCHANGED settingsPlan

SettingsNext ==
  \E p \in Editors : OpenForm(p) \/ LoadSettings(p) \/ SaveSettings(p) \/ ResetSettings(p)

SettingsSpec == SettingsInit /\ [][SettingsNext]_settingsVars

-----------------------------------------------------------------------------
\* The keys of the file that a command is about, and the form sets all of its
\* fields. The alert settings are normalized together: alerts that are turned off,
\* or off and given no cooldown, get the threshold of the defaults if theirs is 0.
KeysOf(edit) ==
  LET named == CASE edit.kind = "put" -> DOMAIN edit.values
                 [] edit.kind = "form" -> FormKeys
                 [] edit.kind \in {"alias", "tag", "target"} -> {edit.kind}
                 [] edit.kind \in {"profile set", "profile remove"} -> {"profiles"}
                 [] edit.kind \in {"bind set", "bind remove"} -> {"bindings"}
                 [] OTHER -> DOMAIN Defaults
  IN named \cup (IF named \cap {"enabled", "cooldown"} # {} THEN {"cooldown", "threshold"} ELSE {})

Saves(p) == editors[p].at # "saved" /\ editors'[p].at = "saved"

\* What one command saved stays until a command about the same setting, or a
\* reset, changes it: a save from a copy loaded before another command's save
\* must not put the old values back (settings.go:260).
OtherEditsStay ==
  [][\A p \in Editors : Saves(p) =>
       \A key \in DOMAIN Defaults \ KeysOf(EditOf(p)) : config'.settings[key] = InFile[key]]_settingsVars

\* Whatever is saved can be read again, and is read as it was saved: a value
\* that normalizeSettings refuses would stop every command, and the reset too.
SavedReadsBack ==
  [][config' # config =>
       ~Refused(config'.settings) /\ Normalized(config'.settings) = config'.settings]_settingsVars
=============================================================================
