----------------------------- MODULE DurableLog -----------------------------
(***************************************************************************)
(* What the metering chain expects of its write-ahead log                  *)
(* (internal/kernel/metering_wal.go: "captures failed write operations and *)
(* replays them when backends recover"; "successfully replayed segments    *)
(* are deleted"): an entry whose Append returned nil stays in the log until*)
(* the backend has it.  MeteringWAL is shown to implement this for a       *)
(* process that is not restarted.                                          *)
(***************************************************************************)
CONSTANT Entries

VARIABLES
    logged,      \* entries in the log
    delivered    \* entries the backend has accepted from the log

vars == <<logged, delivered>>

Init == logged = {} /\ delivered = {}

Log(e) == logged' = logged \cup {e} /\ UNCHANGED delivered

Deliver(e) ==
    /\ e \in logged
    /\ delivered' = delivered \cup {e}
    /\ UNCHANGED logged

\* Housekeeping forgets entries, but only delivered ones.
Forget(done) ==
    /\ done \subseteq logged \cap delivered
    /\ logged' = logged \ done
    /\ UNCHANGED delivered

Next ==
    \/ \E e \in Entries : Log(e) \/ Deliver(e)
    \/ \E done \in SUBSET Entries : Forget(done)

Spec == Init /\ [][Next]_vars
=============================================================================
