--------------------------- MODULE MCRateLimiter ---------------------------
(* A slow key with a large bucket and a fast one with a small bucket. *)
EXTENDS RateLimiter, TLC

CONSTANTS k1, k2

SlowFast == k1 :> 1 @@ k2 :> 3
LargeSmall == k1 :> 6 @@ k2 :> 4
=============================================================================
