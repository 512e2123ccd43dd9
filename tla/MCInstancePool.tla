---------------------------- MODULE MCInstancePool ----------------------------
(* Two threads, three modules in a cache of two places, two instances.     *)
EXTENDS InstancePool, TLC

CONSTANTS t1, t2, m1, m2, m3

MCThreads == {t1, t2}
MCNames == {m1, m2, m3}
Symmetry == Permutations(MCThreads) \cup Permutations(MCNames)
=============================================================================
