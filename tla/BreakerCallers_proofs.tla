----------------------- MODULE BreakerCallers_proofs ------------------------
(***************************************************************************)
(* Proofs about BreakerCallers, for every number of callers and every      *)
(* threshold.  Where a proof goes through the actions, its steps bear      *)
(* their names.                                                            *)
(***************************************************************************)
EXTENDS BreakerCallers, TLAPS

USE DEF CircuitState, CallState

-----------------------------------------------------------------------------
(* The methods of a breaker, for every threshold                           *)

\* Each method leaves a breaker a breaker.
LEMMA BreakerFunctionsType ==
    ASSUME NEW b \in Breaker
    PROVE  /\ AfterAllow(b) \in Breaker
           /\ RecordSuccess(b) \in Breaker
           /\ RecordFailure(b) \in Breaker
           /\ Cool(b) \in Breaker
<1>1. AfterAllow(b) \in Breaker
  BY DEF Breaker, AfterAllow
<1>2. RecordSuccess(b) \in Breaker
  BY ThresholdAssumption DEF Breaker, RecordSuccess
<1>3. RecordFailure(b) \in Breaker
  <2>1. CASE Trips(b)
    BY <2>1, ThresholdAssumption DEF Breaker, RecordFailure
  <2>2. CASE ~Trips(b)
    <3>1. b.failures + 1 \in 0 .. Threshold - 1
      BY <2>2, ThresholdAssumption DEF Breaker, Trips
    <3>2. QED
      BY <2>2, <3>1 DEF Breaker, RecordFailure
  <2>3. QED
    BY <2>1, <2>2
<1>4. Cool(b) \in Breaker
  BY DEF Breaker, Cool
<1>5. QED
  BY <1>1, <1>2, <1>3, <1>4

(* The effect of a report on the fields other proofs look at. *)
LEMMA Reports ==
    ASSUME NEW b \in Breaker
    PROVE  /\ RecordSuccess(b).state = "closed"
           /\ RecordSuccess(b).failures = 0
           /\ Trips(b) => /\ RecordFailure(b).state = "open"
                          /\ RecordFailure(b).failures = 0
                          /\ RecordFailure(b).cooled = FALSE
           /\ ~Trips(b) => /\ RecordFailure(b).state = b.state
                           /\ RecordFailure(b).failures = b.failures + 1
                           /\ RecordFailure(b).cooled = b.cooled
                           /\ b.state # "half_open"
BY ThresholdAssumption DEF Breaker, RecordSuccess, RecordFailure, Trips
-----------------------------------------------------------------------------
(* The breaker and its callers stay in the sets their definitions name. *)
THEOREM TypeCorrect == Spec => []TypeOK
<1>1. Init => TypeOK
  BY ThresholdAssumption DEF Init, TypeOK, NewBreaker, Breaker
<1>2. TypeOK /\ [Next]_vars => TypeOK'
  <2> SUFFICES ASSUME TypeOK, [Next]_vars PROVE TypeOK'
    OBVIOUS
  <2> USE BreakerFunctionsType DEF TypeOK
  <2>Enter. ASSUME NEW c \in Callers, Enter(c) PROVE TypeOK'
    BY <2>Enter DEF Enter
  <2>Succeed. ASSUME NEW c \in Callers, Succeed(c) PROVE TypeOK'
    BY <2>Succeed DEF Succeed
  <2>Fail. ASSUME NEW c \in Callers, Fail(c) PROVE TypeOK'
    BY <2>Fail DEF Fail
  <2>Cools. CASE CooldownPasses
    BY <2>Cools DEF CooldownPasses
  <2>Stays. CASE UNCHANGED vars
    BY <2>Stays DEF vars
  <2>Done. QED
    BY <2>Enter, <2>Succeed, <2>Fail, <2>Cools, <2>Stays DEF Next
<1>3. QED
  BY <1>1, <1>2, PTL DEF Spec

-----------------------------------------------------------------------------
(* A half-open breaker has its probe in flight, so it is not left to wait  *)
(* for a report that will never come.  Inductive as it stands: every       *)
(* report moves the breaker out of half open.                              *)
THEOREM ProbeInFlightHolds == Spec => []ProbeInFlight
<1>1. Init => ProbeInFlight
  BY DEF Init, ProbeInFlight, NewBreaker
<1>2. TypeOK /\ ProbeInFlight /\ [Next]_vars => ProbeInFlight'
  <2> SUFFICES ASSUME TypeOK, ProbeInFlight, [Next]_vars, cb'.state = "half_open"
               PROVE  \E c \in Callers : call'[c] = "probe"
    BY DEF ProbeInFlight
  <2> USE DEF TypeOK
  <2>Enter. ASSUME NEW c \in Callers, Enter(c)
            PROVE  \E d \in Callers : call'[d] = "probe"
    <3>1. cb.state # "closed"
      BY <2>Enter DEF Enter, AfterAllow, CooldownOver
    <3>2. call'[c] = "probe"
      BY <2>Enter, <3>1 DEF Enter
    <3>3. QED
      BY <3>2
  <2>Succeed. ASSUME NEW c \in Callers, Succeed(c) PROVE FALSE
    BY <2>Succeed, Reports DEF Succeed
  <2>Fail. ASSUME NEW c \in Callers, Fail(c) PROVE FALSE
    BY <2>Fail, Reports DEF Fail
  <2>Cools. ASSUME CooldownPasses PROVE FALSE
    BY <2>Cools DEF CooldownPasses, Cool, Breaker
  <2>Stays. CASE UNCHANGED vars
    BY <2>Stays DEF vars, ProbeInFlight
  <2>Done. QED
    BY <2>Enter, <2>Succeed, <2>Fail, <2>Cools, <2>Stays DEF Next
<1>3. QED
  BY <1>1, <1>2, TypeCorrect, PTL DEF Spec

-----------------------------------------------------------------------------
(* The stored counter is the number of consecutive failures. *)
CountsStreak == cb.failures = streak

LEMMA CountsStreakHolds == Spec => []CountsStreak
<1>1. Init => CountsStreak
  BY DEF Init, CountsStreak, NewBreaker
<1>2. TypeOK /\ CountsStreak /\ [Next]_vars => CountsStreak'
  <2> SUFFICES ASSUME TypeOK, CountsStreak, [Next]_vars PROVE CountsStreak'
    OBVIOUS
  <2> USE DEF TypeOK, CountsStreak
  <2>Enter. ASSUME NEW c \in Callers, Enter(c) PROVE CountsStreak'
    BY <2>Enter DEF Enter, AfterAllow, Breaker
  <2>Succeed. ASSUME NEW c \in Callers, Succeed(c) PROVE CountsStreak'
    BY <2>Succeed, Reports DEF Succeed
  <2>Fail. ASSUME NEW c \in Callers, Fail(c) PROVE CountsStreak'
    BY <2>Fail, Reports DEF Fail
  <2>Cools. CASE CooldownPasses
    BY <2>Cools DEF CooldownPasses, Cool, Breaker
  <2>Stays. CASE UNCHANGED vars
    BY <2>Stays DEF vars
  <2>Done. QED
    BY <2>Enter, <2>Succeed, <2>Fail, <2>Cools, <2>Stays DEF Next
<1>3. QED
  BY <1>1, <1>2, TypeCorrect, PTL DEF Spec

(* A closed breaker trips on the Threshold-th consecutive failure and on   *)
(* no earlier one, however many callers report concurrently.               *)
THEOREM TripsOnlyOnStreakHolds == Spec => TripsOnlyOnStreak
<1>1. TypeOK /\ CountsStreak /\ [Next]_vars
        => [cb.state = "closed" /\ cb'.state = "open" => streak + 1 = Threshold]_vars
  <2> SUFFICES ASSUME TypeOK, CountsStreak, Next,
                      cb.state = "closed", cb'.state = "open"
               PROVE  streak + 1 = Threshold
    OBVIOUS
  <2> USE DEF TypeOK
  <2>Enter. ASSUME NEW c \in Callers, Enter(c) PROVE FALSE
    BY <2>Enter DEF Enter, AfterAllow, CooldownOver
  <2>Succeed. ASSUME NEW c \in Callers, Succeed(c) PROVE FALSE
    BY <2>Succeed, Reports DEF Succeed
  <2>Fail. ASSUME NEW c \in Callers, Fail(c) PROVE streak + 1 = Threshold
    <3>1. Trips(cb)
      BY <2>Fail, Reports DEF Fail
    <3>2. QED
      BY <3>1, ThresholdAssumption DEF Trips, Breaker, CountsStreak
  <2>Cools. ASSUME CooldownPasses PROVE FALSE
    BY <2>Cools DEF CooldownPasses
  <2>Done. QED
    BY <2>Enter, <2>Succeed, <2>Fail, <2>Cools DEF Next
<1>2. QED
  BY <1>1, TypeCorrect, CountsStreakHolds, PTL DEF Spec, TripsOnlyOnStreak
-----------------------------------------------------------------------------
(***************************************************************************)
(* From here on every call is shorter than the cooldown.  The breaker is   *)
(* then alone with its probe: see the three cases below.                   *)
(***************************************************************************)
ProbeAlone ==
    ~slow =>
      /\ cb.state \in {"closed", "open"} => \A c \in Callers : call[c] # "probe"
      /\ cb.state = "open" /\ cb.cooled => \A c \in Callers : call[c] = "idle"
      /\ cb.state = "half_open" =>
            /\ \A c \in Callers : call[c] \in {"idle", "probe"}
            /\ OneProbeAtATime

LEMMA ProbeAloneHolds == Spec => []ProbeAlone
<1>1. Init => ProbeAlone
  BY DEF Init, ProbeAlone, NewBreaker
<1>2. TypeOK /\ ProbeAlone /\ [Next]_vars => ProbeAlone'
  <2> SUFFICES ASSUME TypeOK, ProbeAlone, [Next]_vars PROVE ProbeAlone'
    OBVIOUS
  <2> USE DEF TypeOK, ProbeAlone, OneProbeAtATime
  <2>Enter. ASSUME NEW c \in Callers, Enter(c) PROVE ProbeAlone'
    <3>1. CASE cb.state = "closed"
      BY <2>Enter, <3>1 DEF Enter, AfterAllow, CooldownOver
    <3>2. CASE CooldownOver(cb)
      BY <2>Enter, <3>2 DEF Enter, AfterAllow, CooldownOver, Breaker
    <3>3. QED
      BY <2>Enter, <3>1, <3>2 DEF Enter, Allowed
  <2>Succeed. ASSUME NEW c \in Callers, Succeed(c) PROVE ProbeAlone'
    BY <2>Succeed, Reports DEF Succeed, Breaker
  <2>Fail. ASSUME NEW c \in Callers, Fail(c) PROVE ProbeAlone'
    <3>1. CASE Trips(cb)
      BY <2>Fail, <3>1, Reports DEF Fail, Breaker
    <3>2. CASE ~Trips(cb)
      BY <2>Fail, <3>2, Reports DEF Fail, Breaker
    <3>3. QED
      BY <3>1, <3>2
  <2>Cools. CASE CooldownPasses
    BY <2>Cools DEF CooldownPasses, Cool, Breaker
  <2>Stays. CASE UNCHANGED vars
    BY <2>Stays DEF vars
  <2>Done. QED
    BY <2>Enter, <2>Succeed, <2>Fail, <2>Cools, <2>Stays DEF Next
<1>3. QED
  BY <1>1, <1>2, TypeCorrect, PTL DEF Spec

(* With calls shorter than the cooldown there is never a second probe      *)
(* while one is in flight, as the comment on Allow() says.                 *)
THEOREM OneProbeHolds == Spec => []OneProbeWhenQuick
<1>1. TypeOK /\ ProbeAlone => OneProbeWhenQuick
  BY DEF TypeOK, ProbeAlone, OneProbeWhenQuick, OneProbeAtATime, Breaker
<1>2. QED
  BY <1>1, TypeCorrect, ProbeAloneHolds, PTL

(* With calls shorter than the cooldown nobody but the probe reports while *)
(* the breaker is half open, and the probe reports to a half-open breaker: *)
(* its verdict, and no stale one, decides.                                 *)
THEOREM ProbeDecidesHolds == Spec => ProbeDecides
<1>1. TypeOK /\ ProbeAlone /\ [Next]_vars =>
        [~slow => \A c \in Callers : call[c] # "idle" /\ call'[c] = "idle" =>
            (cb.state = "half_open" <=> call[c] = "probe")]_vars
  BY DEF TypeOK, ProbeAlone, Breaker
<1>2. QED
  BY <1>1, TypeCorrect, ProbeAloneHolds, PTL DEF Spec, ProbeDecides
=============================================================================
