---------------------------- MODULE MCCacheTiers -----------------------------
(* CacheTiers with a few interchangeable callers and values; v1 has a ttl. *)
EXTENDS CacheTiers
CONSTANTS p1, p2, v1, v2
MCSymmetry == Permutations(Clients)
=============================================================================
