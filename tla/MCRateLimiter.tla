---------------------------- MODULE MCRateLimiter ----------------------------
(* RateLimiter on a small instance. *)
EXTENDS RateLimiter
=============================================================================
