--------------------------- MODULE MCQuotaRefresh ---------------------------
(* QuotaRefresh with two accounts, numbered in the order of accounts.json. *)
EXTENDS QuotaRefresh, TLC

CONSTANTS r1, r2, ui, cli

MCAccounts == 1..2

Plan(due1, program2, due2) ==
  r1 :> [program |-> ui, due |-> due1] @@ r2 :> [program |-> program2, due |-> due2]

\* One refresh of two accounts, or two refreshes of one account in one program
\* or in two.
MCPlans == {Plan({1, 2}, ui, {}), Plan({1}, ui, {1}), Plan({1}, cli, {1})}
=============================================================================
