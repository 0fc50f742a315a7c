--------------------------- MODULE CircuitBreaker ---------------------------
(***************************************************************************)
(* The circuit breaker that guards one metering backend                    *)
(* (internal/kernel/metering_circuit_breaker.go).  Every method of the     *)
(* code holds one mutex from its first to its last line, so a call is one  *)
(* atomic function of the breaker.  The functions are here, without        *)
(* variables, and the modules that have breakers apply them:               *)
(* BreakerCallers to one breaker and its concurrent callers, MeteringChain *)
(* to one breaker per backend.                                             *)
(*                                                                         *)
(* Time: the code compares time.Since(lastFailure) with the cooldown.  The *)
(* field `cooled` is that comparison's result; it becomes FALSE when the   *)
(* circuit trips and TRUE when the cooldown has passed.                    *)
(***************************************************************************)
EXTENDS Integers

CONSTANT Threshold   \* failures that trip a closed breaker

\* NewCircuitBreaker replaces a threshold of zero or less by the default.
ASSUME ThresholdAssumption == Threshold \in Nat \ {0}

CircuitState == {"closed", "open", "half_open"}

\* failureCount is reset whenever it reaches the threshold, so a stored
\* count is always below it.
Breaker == [state : CircuitState, failures : 0 .. Threshold - 1, cooled : BOOLEAN]

NewBreaker == [state |-> "closed", failures |-> 0, cooled |-> FALSE]

(***************************************************************************)
(* Allow() returns a Boolean and may move the breaker: Allowed is what it  *)
(* returns, AfterAllow what it leaves.                                     *)
(***************************************************************************)
CooldownOver(cb) == cb.state = "open" /\ cb.cooled

\* Mutant of Allowed: a half-open breaker lets everybody through.
AllowedHalfOpen(cb) == cb.state # "open" \/ CooldownOver(cb)

Allowed(cb) == cb.state = "closed" \/ CooldownOver(cb)

\* Mutant of AfterAllow: the state is left alone.
AfterAllowStays(cb) == cb

AfterAllow(cb) == IF CooldownOver(cb) THEN [cb EXCEPT !.state = "half_open"] ELSE cb

\* Mutants of RecordSuccess: the count, or the state, is not reset.
RecordSuccessKeepsCount(cb) == [cb EXCEPT !.state = "closed"]
RecordSuccessKeepsState(cb) == [cb EXCEPT !.failures = 0]

RecordSuccess(cb) == [state |-> "closed", failures |-> 0, cooled |-> cb.cooled]

\* Mutant of Trips: the failure of a probe is a failure like any other.
TripsByCount(cb) == cb.failures + 1 >= Threshold

Trips(cb) == cb.failures + 1 >= Threshold \/ cb.state = "half_open"

\* Mutant of RecordFailure: tripping does not reset the count.
RecordFailureKeepsCount(cb) ==
    IF Trips(cb)
      THEN [state |-> "open", failures |-> cb.failures + 1, cooled |-> FALSE]
      ELSE [cb EXCEPT !.failures = @ + 1]

RecordFailure(cb) ==
    IF Trips(cb)
      THEN [state |-> "open", failures |-> 0, cooled |-> FALSE]
      ELSE [cb EXCEPT !.failures = @ + 1]

\* The cooldown passes.  Only an open breaker looks at the clock.
Cool(cb) == [cb EXCEPT !.cooled = TRUE]
=============================================================================
