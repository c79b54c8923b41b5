---------------------------- MODULE MCRateLimiter ----------------------------
(* The rate limiter for TLC: one key, one address, one key without a limit. *)
EXTENDS RateLimiter, TLC

CONSTANTS k1, k2, ip1
Keys == {k1, k2}
Ips == {ip1}
Tiers == (k1 :> 2) @@ (k2 :> 0)

RequestSymmetry == Permutations(Requests)
==============================================================================
