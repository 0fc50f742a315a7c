--------------------------- MODULE BreakerCallers ---------------------------
(***************************************************************************)
(* One circuit breaker and the goroutines that use it concurrently: the    *)
(* async write worker, the WAL replay loop and the HTTP handlers that      *)
(* register a subscription.  Each of them asks Allow(), calls the backend  *)
(* without any lock, and reports the outcome with RecordSuccess() or       *)
(* RecordFailure().  A caller that was let through by a closed breaker may *)
(* therefore report while the breaker is open or half open.                *)
(*                                                                         *)
(* RecordMeteringEvent, which asks and never reports, is in MeteringChain. *)
(***************************************************************************)
EXTENDS CircuitBreaker

CONSTANT Callers

ASSUME CallersAssumption == Callers # {}

(***************************************************************************)
(* The backend calls have timeouts of 3 to 10 seconds in the code and the  *)
(* cooldown is a setting, METERING_CB_COOLDOWN_MS, 30 seconds by default:  *)
(* both values of slow are real deployments.                               *)
(***************************************************************************)
VARIABLES
    slow,    \* may a backend call outlive the cooldown?  Never changes
    cb,      \* the breaker
    call,    \* what each caller is doing: see CallState
    streak   \* history: failures reported since the last success or trip

vars == <<slow, cb, call, streak>>

\* "passed": let through by a closed breaker; "probe": let through by the
\* Allow() that moved an open breaker to half open.
CallState == {"idle", "passed", "probe"}

TypeOK ==
    /\ slow \in BOOLEAN
    /\ cb \in Breaker
    /\ call \in [Callers -> CallState]
    /\ streak \in Nat

Init ==
    /\ slow \in BOOLEAN
    /\ cb = NewBreaker
    /\ call = [c \in Callers |-> "idle"]
    /\ streak = 0

-----------------------------------------------------------------------------
(* A caller asks Allow() and is let through.  When Allow() returns false  *)
(* the caller writes to the WAL or fails, and the breaker does not move.  *)
Enter(c) ==
    /\ call[c] = "idle"
    /\ Allowed(cb)
    /\ cb' = AfterAllow(cb)
    /\ call' = [call EXCEPT ![c] = IF cb.state = "closed" THEN "passed" ELSE "probe"]
    /\ UNCHANGED <<slow, streak>>

Succeed(c) ==
    /\ call[c] # "idle"
    /\ cb' = RecordSuccess(cb)
    /\ call' = [call EXCEPT ![c] = "idle"]
    /\ streak' = 0
    /\ UNCHANGED slow

Fail(c) ==
    /\ call[c] # "idle"
    /\ cb' = RecordFailure(cb)
    /\ call' = [call EXCEPT ![c] = "idle"]
    /\ streak' = IF Trips(cb) THEN 0 ELSE streak + 1
    /\ UNCHANGED slow

(* All the calls in flight while the circuit cools down began before it   *)
(* tripped, so when calls are shorter than the cooldown they are over.    *)
CooldownPasses ==
    /\ cb.state = "open"
    /\ ~cb.cooled
    /\ slow \/ \A c \in Callers : call[c] = "idle"
    /\ cb' = Cool(cb)
    /\ UNCHANGED <<slow, call, streak>>

Next ==
    \/ \E c \in Callers : Enter(c) \/ Succeed(c) \/ Fail(c)
    \/ CooldownPasses

(***************************************************************************)
(* A backend call returns: the Postgres and Redis clients run under a      *)
(* context with a timeout.  Time passes.  Nobody is obliged to call.       *)
(***************************************************************************)
Fairness ==
    /\ \A c \in Callers : WF_vars(Succeed(c) \/ Fail(c))
    /\ WF_vars(CooldownPasses)

Spec == Init /\ [][Next]_vars /\ Fairness

-----------------------------------------------------------------------------
(* A half-open breaker always has its probe in flight: some caller it let  *)
(* through will report.  Otherwise nothing would ever move it again, since *)
(* Allow() refuses everybody while half open.                              *)
ProbeInFlight == cb.state = "half_open" => \E c \in Callers : call[c] = "probe"

(* A closed breaker trips only on the Threshold-th consecutive failure     *)
(* ("consecutive failures before tripping open"), whatever the order in    *)
(* which concurrent callers report.                                        *)
TripsOnlyOnStreak ==
    [][cb.state = "closed" /\ cb'.state = "open" => streak + 1 = Threshold]_vars

(* When every caller reports, a half-open breaker is left again: the probe *)
(* completes and closes or reopens it.                                     *)
HalfOpenResolves == (cb.state = "half_open") ~> (cb.state # "half_open")

(* Claimed by the comment on Allow(): "only one probe at a time; the       *)
(* in-flight probe must complete before another is allowed".               *)
OneProbeAtATime ==
    \A c, d \in Callers : call[c] = "probe" /\ call[d] = "probe" => c = d

(* That claim holds of a deployment whose calls are shorter than the       *)
(* cooldown, whatever the order in which callers enter and report.         *)
OneProbeWhenQuick == ~slow => OneProbeAtATime

(* Claimed by the comment on CircuitHalfOpen: "If it succeeds -> closed.   *)
(* If it fails -> open again".  When calls are shorter than the cooldown,  *)
(* nobody but the probe reports to a half-open breaker, and the probe      *)
(* reports to no other: its verdict decides, and no stale one.             *)
ProbeDecides ==
    [][~slow => \A c \in Callers : call[c] # "idle" /\ call'[c] = "idle" =>
          (cb.state = "half_open" <=> call[c] = "probe")]_vars
=============================================================================
