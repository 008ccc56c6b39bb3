---------------------------- MODULE MCEngineRegistry ----------------------------
(* EngineRegistry on a small instance. *)
EXTENDS EngineRegistry
=============================================================================
