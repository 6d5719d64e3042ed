--------------------------- MODULE MCRateLimiter ---------------------------
EXTENDS RateLimiter, TLC

CONSTANTS a, b, s, t

ApartShards == (a :> s) @@ (b :> t)
=============================================================================
