---------------------------- MODULE AtomicStore ----------------------------
(***************************************************************************)
(* What the account store promises to the commands that use it: accounts   *)
(* and settings are two documents; every command that changes them takes   *)
(* effect at one instant or not at all, and a backup import changes both   *)
(* of them in the same instant.  AccountStore is shown to implement this.  *)
(*                                                                         *)
(* A document is the set of edits it reflects.                             *)
(***************************************************************************)
CONSTANTS
  Edit,          \* the changes commands may make
  Absent         \* the content of a document that does not exist yet

VARIABLES
  accounts,      \* accounts.json as every reader must see it
  settings       \* config.json as every reader must see it

vars == <<accounts, settings>>

\* The edits a document reflects; a missing document reflects none.
Reflected(document) == IF document = Absent THEN {} ELSE document

Document == {Absent} \cup SUBSET Edit

Init == accounts \in {Absent, {}} /\ settings \in {Absent, {}}

\* A command adds its edit to the newest accounts.
EditAccounts(e) ==
  /\ accounts' = Reflected(accounts) \cup {e}
  /\ UNCHANGED settings

\* A command adds its edit to the newest settings, or resets them.
EditSettings(e) ==
  /\ settings' \in {Reflected(settings) \cup {e}, {e}}
  /\ UNCHANGED accounts

\* An import merges into the accounts or replaces them, and in the same
\* instant does so to the settings when the backup carries some.
Import(e) ==
  \/ /\ accounts' = Reflected(accounts) \cup {e}
     /\ settings' \in {settings, Reflected(settings) \cup {e}}
  \/ /\ accounts' = {e}
     /\ settings' \in {settings, {e}}

Next == \E e \in Edit : EditAccounts(e) \/ EditSettings(e) \/ Import(e)

Spec == Init /\ [][Next]_vars
=============================================================================
