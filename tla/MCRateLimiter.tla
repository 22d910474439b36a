--------------------------- MODULE MCRateLimiter ---------------------------
(***************************************************************************)
(* The symmetry of the run of RateLimiter: no worker is told from another,   *)
(* and no address.                                                          *)
(***************************************************************************)
EXTENDS RateLimiter, TLC

Symmetry == Permutations(Workers) \cup Permutations(IPs)
=============================================================================
