------------------------- MODULE MCAccountSecret -------------------------
(* Small instances of AccountSecret for TLC. *)
EXTENDS AccountSecret, TLC

\* The commands only differ in their roles.
ProcSymmetry == Permutations(Proc)

\* Three commands that keep the account in the vault file; with the OS store or
\* a removal, one of the three only reads.
MCInit ==
  /\ Init
  /\ hybrid \/ ~NoRemoval => \E p \in Proc : role[p] = "read"

MCSpec == MCInit /\ [][Next]_vars
=============================================================================
