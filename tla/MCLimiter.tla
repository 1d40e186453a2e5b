----------------------------- MODULE MCLimiter -----------------------------
(***************************************************************************)
(* One bucket of one address, with room for two requests in a window of    *)
(* two seconds; the unit of time is half a second.                         *)
(***************************************************************************)
EXTENDS RateLimiter, TLC

CONSTANT register

Limits == register :> 2

Threads == Permutations(Caller)
=============================================================================
