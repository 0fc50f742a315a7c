--------------------------- MODULE MCMeteringReads ---------------------------
\* Interchangeable requests, for TLC.
EXTENDS MeteringReads, TLC

Symmetry == Permutations(Requests)
=============================================================================
