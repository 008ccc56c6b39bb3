---------------------------- MODULE MCOriginStore ----------------------------
(* OriginStore on a small instance. *)
EXTENDS OriginStore, TLC

Symmetry == Permutations(Calls) \union Permutations(Ids) \union Permutations(Tenants)
=============================================================================
