-------------------------- MODULE MCAccountService --------------------------
(* Small instances of AccountService. *)
EXTENDS AccountService, TLC

Symmetry == Permutations(Accounts) \cup Permutations(Callers)
=============================================================================
