--------------------------- MODULE MCAccountStore ---------------------------
(* Small instances of AccountStore for TLC. *)
EXTENDS AccountStoreInvariant, TLC

\* Which commands run together in one behaviour.
CONSTANTS Casts

CONSTANTS e1, e2, w1, i1

MCCasts == {{e1, e2}, {e1, i1}, {w1, i1}, {e1, w1, i1}}

\* The commands of one cast are started; those left out do not choose a mode.
\* Three commands together are spared mishaps.
MCInit ==
  \E cast \in Casts :
    /\ Begin(cast)
    /\ mishaps = IF Cardinality(cast) = 3 THEN MaxMishaps ELSE 0
    /\ \A p \in Proc \ cast : ~mode[p].replace
    /\ \A p \in Importers \ cast : mode[p].settings

MCSpec == MCInit /\ [][Next]_vars /\ Fairness
=============================================================================
