----------------------------- MODULE MCAccounts -----------------------------
(* Small instances of Accounts for TLC. *)
EXTENDS Accounts, TLC
Symmetry == Permutations(Workers) \cup Permutations(Names)
=============================================================================
