--------------------------- MODULE MCMeteringChain ---------------------------
(* Instances of MeteringChain for TLC: the real backends in their order    *)
(* (Redis 10, Postgres 20) and the symmetry of events and of callers.      *)
EXTENDS MeteringChain, TLC

CONSTANTS redis, postgres

TwoBackends  == {redis, postgres}
OneBackend   == {postgres}
TwoPriority  == (redis :> 10) @@ (postgres :> 20)
OnePriority  == (postgres :> 20)

Symmetry == Permutations(Events \ Unnamed) \cup Permutations(Producers)
=============================================================================
