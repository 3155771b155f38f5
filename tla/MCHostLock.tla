----------------------------- MODULE MCHostLock -----------------------------
(* HostLock on small instances.                                            *)
EXTENDS HostLock, TLC

\* Bound: what compiles after one disturbance of each of two kinds do is not
\* followed; the properties say nothing of them.
OneDisturbance == Cardinality(disturbed) <= 1

Symmetry == Permutations(Compiles) \cup Permutations(Addresses)
=============================================================================
