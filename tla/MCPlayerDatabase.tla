-------------------------- MODULE MCPlayerDatabase --------------------------
(* PlayerDatabase on small instances.                                      *)
EXTENDS PlayerDatabase

\* Every character spends from the first account.
MCOwner == [k \in Characters |-> CHOOSE a \in Accounts : TRUE]
=============================================================================
