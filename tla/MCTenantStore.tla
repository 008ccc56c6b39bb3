---------------------------- MODULE MCTenantStore ----------------------------
(* TenantStore on a small instance. *)
EXTENDS TenantStore, TLC

Symmetry == Permutations(Calls) \union Permutations(Tasks)
=============================================================================
