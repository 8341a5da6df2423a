----------------------------- MODULE MCSession -----------------------------
(* Small instances of Session for TLC. *)
EXTENDS Session, TLC

\* Commands differ in their kinds, and accounts in whether they are saved.
SessionSymmetry == Permutations(Commands) \cup Permutations(Owners)

AnyKinds == [Commands -> Kinds]

\* Commands of any kinds where the session is in the files and copied; where the
\* OS store has it, one command does nothing but reconcile.
StatePlans ==
  [platform: {"mirrored"}, kind: AnyKinds] \cup
  [platform: {"keychain"}, kind: {k \in AnyKinds : \E c \in Commands : k[c] = "reconcile"}]

EndPlans == [platform: {"mirrored", "keychain"}, kind: AnyKinds]
LoginPlans == [platform: {"mirrored"}, kind: [Commands -> {"login"}]]
=============================================================================
