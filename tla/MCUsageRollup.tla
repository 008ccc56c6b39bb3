---------------------------- MODULE MCUsageRollup ----------------------------
(* UsageRollup on a small instance. *)
EXTENDS UsageRollup

=============================================================================
