----------------------------- MODULE MCKeyStore -----------------------------
(* KeyStore on a small instance. *)
EXTENDS KeyStore, TLC

Symmetry == Permutations(Hashes) \union Permutations(Calls)
=============================================================================
