------------------------ MODULE MeteringReads_proofs -------------------------
(***************************************************************************)
(* Proofs about MeteringReads, for any number of durable backends and of   *)
(* requests, any quota and any breaker threshold.                          *)
(***************************************************************************)
EXTENDS MeteringReads, FiniteSetTheorems, TLAPS

USE ReadsAssumption

-----------------------------------------------------------------------------
(* The methods of a breaker *)

\* Each method leaves a breaker a breaker.
LEMMA BreakerFunctionsType ==
    ASSUME NEW b \in Breaker
    PROVE  /\ AfterAllow(b) \in Breaker
           /\ RecordSuccess(b) \in Breaker
           /\ RecordFailure(b) \in Breaker
           /\ Cool(b) \in Breaker
<1> USE DEF CircuitState
<1>1. AfterAllow(b) \in Breaker
  BY DEF Breaker, AfterAllow
<1>2. RecordSuccess(b) \in Breaker
  BY ThresholdAssumption DEF Breaker, RecordSuccess
<1>3. RecordFailure(b) \in Breaker
  <2>1. CASE Trips(b)
    BY <2>1, ThresholdAssumption DEF Breaker, RecordFailure
  <2>2. CASE ~Trips(b)
    <3>1. b.failures + 1 \in 0 .. Threshold - 1
      BY <2>2, ThresholdAssumption DEF Breaker, Trips
    <3>2. QED
      BY <2>2, <3>1 DEF Breaker, RecordFailure
  <2>3. QED
    BY <2>1, <2>2
<1>4. Cool(b) \in Breaker
  BY DEF Breaker, Cool
<1>5. QED
  BY <1>1, <1>2, <1>3, <1>4

(* The effect of a report on the fields other proofs look at. *)
LEMMA Reports ==
    ASSUME NEW b \in Breaker
    PROVE  /\ RecordSuccess(b).state = "closed"
           /\ RecordSuccess(b).failures = 0
           /\ Trips(b) => /\ RecordFailure(b).state = "open"
                          /\ RecordFailure(b).failures = 0
                          /\ RecordFailure(b).cooled = FALSE
           /\ ~Trips(b) => /\ RecordFailure(b).state = b.state
                           /\ RecordFailure(b).failures = b.failures + 1
                           /\ RecordFailure(b).cooled = b.cooled
                           /\ b.state # "half_open"
BY ThresholdAssumption DEF Breaker, CircuitState, RecordSuccess, RecordFailure, Trips
-----------------------------------------------------------------------------
(* Order of the backends *)

\* A set of naturals has a least element: of the intervals 0 .. c, one is in
\* no other.
LEMMA Least ==
    ASSUME NEW S \in SUBSET Nat, S # {}
    PROVE  \E c \in S : \A d \in S : c <= d
<1> DEFINE T == {0 .. c : c \in S}
<1>1. T \subseteq FiniteSubsetsOf(Nat)
  <2>1. ASSUME NEW c \in S PROVE 0 .. c \in FiniteSubsetsOf(Nat)
    <3>1. IsFiniteSet(0 .. c)
      BY FS_Interval
    <3>2. QED
      BY <3>1 DEF FiniteSubsetsOf
  <2>2. QED
    BY <2>1
<1>2. T # {}
  OBVIOUS
<1>3. PICK x \in T : \A y \in T : <<y, x>> \notin StrictSubsetOrdering(Nat)
  <2> HIDE DEF T
  <2>1. QED
    BY <1>1, <1>2, WFMin, FS_StrictSubsetOrderingWellFounded
<1>4. PICK c \in S : x = 0 .. c
  OBVIOUS
<1>5. ASSUME NEW d \in S, ~(c <= d) PROVE FALSE
  <2>1. 0 .. d \in T /\ 0 .. d \in SUBSET Nat /\ x \in SUBSET Nat
    BY <1>4
  <2>2. 0 .. d \subseteq x /\ 0 .. d # x
    <3>1. c \in x /\ c \notin 0 .. d
      BY <1>4, <1>5
    <3>2. QED
      BY <1>4, <1>5, <3>1
  <2>3. <<0 .. d, x>> \in StrictSubsetOrdering(Nat)
    BY <2>1, <2>2 DEF StrictSubsetOrdering
  <2>4. QED
    BY <1>3, <2>1, <2>3
<1>6. QED
  BY <1>5

\* The loop over the backends takes the next one up, or ends.
LEMMA OnwardStep ==
    ASSUME TypeOK, NEW r \in Requests, NEW q, Onward(r, q)
    PROVE  \/ Deeper(request[r].b) = {} /\ request' = [request EXCEPT ![r] = q]
           \/ \E c \in Deeper(request[r].b) :
                /\ \A d \in Deeper(request[r].b) : c <= d
                /\ request' = [request EXCEPT ![r] = [request[r] EXCEPT !.at = "ask", !.b = c]]
<1> DEFINE rest == Deeper(request[r].b)
<1>1. CASE rest = {}
  BY <1>1 DEF Onward, Become
<1>2. CASE rest # {}
  <2>1. rest \in SUBSET Nat
    BY DEF TypeOK, Deeper
  <2>2. \E c \in rest : \A d \in rest : c <= d
    BY <1>2, <2>1, Least
  <2>3. PICK c \in rest :
          /\ \A d \in rest : c <= d
          /\ c = CHOOSE x \in rest : \A d \in rest : x <= d
    BY <2>2
  <2>4. request' = [request EXCEPT ![r] = [request[r] EXCEPT !.at = "ask", !.b = c]]
    BY <1>2, <2>3 DEF Onward, Become
  <2>5. QED
    BY <2>3, <2>4
<1>3. QED
  BY <1>1, <1>2

-----------------------------------------------------------------------------
(* Type correctness, with the shape of a request: which step belongs to    *)
(* which purpose, and that it has come to a backend of the chain           *)

Calling == {"call", "ok", "hit", "empty", "refused", "broken"}

Shape(q) ==
    /\ q.b # 0 => q.b \in joined
    /\ q.at \in Calling \cup {"spill"} => q.b # 0
    /\ q.at \in {"ok", "refused", "broken", "spill"} => q.why \in Writes
    /\ q.at \in {"hit", "empty"} => q.why \in Reads
    /\ q.at \in {"default", "record"} => q.why = "contract"
    /\ q.at = "idle" => q.why = "register"
    /\ q.at # "idle" /\ q.why \in Writes => q.ver # 0

RequestsOK ==
    /\ request \in [Requests -> Request]
    /\ \A r \in Requests : Shape(request[r])

ReplayOK ==
    /\ replay \in Request
    /\ replay.at \in {"idle", "ask", "call", "ok", "refused", "broken"}
    /\ replay.at # "idle" => replay.b \in joined

UsageOK ==
    /\ counted \in Nat
    /\ from \in 0 .. began
    /\ began \in 0 .. counted

StoreOK ==
    /\ contract \in [Holder -> Contracts]
    /\ UsageOK
    /\ breaker \in [Backends -> Breaker]
    /\ logged \subseteq Backends \X Contracts
    /\ spilled \subseteq Backends \X Contracts
    /\ refused \subseteq Backends \X Contracts
    /\ missed \subseteq Backends

FlagsOK ==
    /\ joined \subseteq Backends
    /\ up \in [Backends -> BOOLEAN]
    /\ healthy \in [Backends -> BOOLEAN]

HistoryOK ==
    /\ issued \in Contracts
    /\ settled \in [Backends -> Contracts]
    /\ torn \in BOOLEAN
    /\ restarts \in 0 .. MaxRestarts

Typed == RequestsOK /\ ReplayOK /\ StoreOK /\ FlagsOK /\ HistoryOK

LEMMA TypedIsTypeOK == Typed => TypeOK
BY DEF Typed, TypeOK, RequestsOK, ReplayOK, StoreOK, UsageOK, FlagsOK, HistoryOK

USE DEF Calling, Writes, Reads

LEMMA Backend ==
    ASSUME FlagsOK
    PROVE  /\ joined \subseteq Backends /\ Backends \subseteq Holder
           /\ \A b \in Holder : b # 0 => b \in Backends
           /\ \A b \in Backends : b # 0 /\ b \in Nat
           /\ Holder \subseteq Nat /\ 0 \in Holder
           /\ 0 \in Contracts /\ Contracts \subseteq Nat
BY DEF FlagsOK, Holder, Contracts

LEMMA IdleShape ==
    ASSUME FlagsOK
    PROVE  \A q \in {Idle, Admitted, Defaultable, Recordable} : q \in Request /\ Shape(q)
BY Backend DEF Idle, Admitted, Defaultable, Recordable, Request, RequestState, Shape

\* One request moves on to a well-formed state.
LEMMA SetRequest ==
    ASSUME RequestsOK, NEW r \in Requests, NEW q \in Request, Shape(q),
           request' = [request EXCEPT ![r] = q], joined' = joined
    PROVE  RequestsOK'
<1>1. \A s \in Requests : request'[s] = IF s = r THEN q ELSE request[s]
  BY DEF RequestsOK
<1>2. \A p : Shape(p)' <=> Shape(p)
  BY DEF Shape
<1>3. \A s \in Requests : Shape(request'[s])
  BY <1>1 DEF RequestsOK
<1>4. QED
  BY <1>1, <1>3 DEF RequestsOK, Shape

\* It takes the step at, for the same purpose at the same backend.
LEMMA StepRequest ==
    ASSUME RequestsOK, NEW r \in Requests, NEW at \in RequestState, Goes(r, at),
           Shape([request[r] EXCEPT !.at = at]), joined' = joined
    PROVE  RequestsOK'
<1>1. [request[r] EXCEPT !.at = at] \in Request
  BY DEF RequestsOK, Request
<1>2. request' = [request EXCEPT ![r] = [request[r] EXCEPT !.at = at]]
  BY DEF Goes, Become
<1>3. QED
  BY <1>1, <1>2, SetRequest

LEMMA OnwardType ==
    ASSUME Typed, NEW r \in Requests, NEW q \in Request, Shape(q), Onward(r, q),
           request[r].at # "idle", joined' = joined
    PROVE  RequestsOK'
<1>1. CASE request' = [request EXCEPT ![r] = q]
  BY <1>1, SetRequest DEF Typed
<1>2. CASE \E c \in joined :
          request' = [request EXCEPT ![r] = [request[r] EXCEPT !.at = "ask", !.b = c]]
  <2>1. PICK c \in joined :
          request' = [request EXCEPT ![r] = [request[r] EXCEPT !.at = "ask", !.b = c]]
    BY <1>2
  <2> DEFINE p == [request[r] EXCEPT !.at = "ask", !.b = c]
  <2>2. request[r] \in Request /\ Shape(request[r])
    BY DEF Typed, RequestsOK
  <2>3. p \in Request /\ p.at = "ask" /\ p.b = c /\ p.why = request[r].why
          /\ p.ver = request[r].ver
    BY <2>2, Backend DEF Request, RequestState, Typed
  <2>4. Shape(p)
    BY <2>2, <2>3 DEF Shape
  <2>5. QED
    BY <2>1, <2>3, <2>4, SetRequest DEF Typed
<1>3. QED
  BY <1>1, <1>2, OnwardStep, TypedIsTypeOK DEF Deeper

\* Asking a breaker and reporting to it.
LEMMA BreakersType ==
    ASSUME StoreOK, FlagsOK, NEW b \in Backends, Ask(b) \/ Succeeded(b)
    PROVE  breaker' \in [Backends -> Breaker]
<1>1. AfterAllow(breaker[b]) \in Breaker /\ RecordSuccess(breaker[b]) \in Breaker
  BY BreakerFunctionsType DEF StoreOK
<1>2. QED
  BY <1>1 DEF StoreOK, Ask, Succeeded

LEMMA FailedType ==
    ASSUME StoreOK, FlagsOK, NEW b \in Backends, NEW o, Failed(b, o)
    PROVE  breaker' \in [Backends -> Breaker] /\ healthy' \in [Backends -> BOOLEAN]
<1>1. RecordFailure(breaker[b]) \in Breaker
  BY BreakerFunctionsType DEF StoreOK
<1>2. QED
  BY <1>1 DEF StoreOK, FlagsOK, Failed

LEMMA AskMissed ==
    ASSUME StoreOK, NEW b \in Backends, Ask(b) PROVE missed' \subseteq Backends
BY DEF StoreOK, Ask

LEMMA OutcomeType ==
    ASSUME StoreOK, FlagsOK, NEW b \in Backends, NEW v \in Contracts, NEW o, Outcome(b, v, o)
    PROVE  contract' \in [Holder -> Contracts] /\ o \in {"ok", "refused", "broken"}
<1>1. o \in {"ok", "refused", "broken"}
  BY DEF Outcome
<1>2. contract' = contract \/ contract' = [contract EXCEPT ![b] = v]
  BY DEF Outcome
<1>3. QED
  BY <1>1, <1>2 DEF StoreOK

LEMMA RequestAt ==
    ASSUME RequestsOK, NEW r \in Requests
    PROVE  /\ request[r] \in Request /\ Shape(request[r])
           /\ request[r].b \in Holder /\ request[r].ver \in Contracts
           /\ request[r].at \in RequestState /\ request[r].why \in Writes \cup Reads
BY DEF RequestsOK, Request

\* What the statement sums stays part of what is counted.
LEMMA UsageStays == ASSUME UsageOK, UNCHANGED usageVars PROVE UsageOK'
BY DEF UsageOK, usageVars

LEMMA UsageRestarts ==
    ASSUME UsageOK, counted' = counted, from' \in 0 .. counted, began' = counted
    PROVE  UsageOK'
BY DEF UsageOK

LEMMA UsageGrows ==
    ASSUME UsageOK, NEW r \in Requests, RecordEvent(r)
    PROVE  UsageOK'
BY DEF UsageOK, RecordEvent

LEMMA IssueTyped ==
    ASSUME Typed, NEW r \in Requests, NEW why \in Writes, Issue(r, why),
           UNCHANGED <<serverVars, replay>>
    PROVE  Typed'
<1> DEFINE q == [at |-> "ask", why |-> why, b |-> 0, ver |-> issued + 1]
<1>1. q \in Request /\ issued + 1 # 0 /\ issued + 1 \in Contracts
  BY Backend DEF Typed, HistoryOK, Issue, Contracts, Request, RequestState
<1>2. Shape(q)
  BY <1>1 DEF Shape
<1>3. RequestsOK'
  BY <1>1, <1>2, SetRequest DEF Typed, Issue, Become, serverVars
<1>4. HistoryOK'
  BY <1>1, Backend DEF Typed, HistoryOK, Issue
<1>u. UsageOK'
  BY UsageStays DEF Issue, Typed, StoreOK
<1>5. ReplayOK' /\ StoreOK' /\ FlagsOK'
  BY <1>u DEF Typed, ReplayOK, StoreOK, FlagsOK, Issue, serverVars, logVars
<1>6. QED
  BY <1>3, <1>4, <1>5 DEF Typed

LEMMA WrittenTyped ==
    ASSUME Typed, NEW r \in Requests, Written(r), request[r].at # "idle", joined' = joined
    PROVE  RequestsOK' /\ HistoryOK'
<1>1. RequestsOK'
  <2>1. Onward(r, IF request[r].why = "default" THEN Recordable ELSE Idle)
    BY DEF Written
  <2>2. QED
    BY <2>1, IdleShape, OnwardType DEF Typed
<1>2. HistoryOK'
  <2>1. settled' \in [Backends -> Contracts]
    BY RequestAt, Backend DEF Typed, HistoryOK, Written
  <2>2. QED
    BY <2>1 DEF Typed, HistoryOK, Written
<1>3. QED
  BY <1>1, <1>2

LEMMA RegisterTyped ==
    ASSUME Typed, NEW r \in Requests, Register(r)
    PROVE  Typed'
<1> DEFINE b == request[r].b
<1>0. /\ UNCHANGED <<serverVars, replay>>
      /\ joined' = joined /\ up' = up
  BY DEF Register, serverVars
<1>u. UsageOK'
  <2>1. CASE WriteL1(r)
    BY <2>1, UsageRestarts DEF WriteL1, Typed, StoreOK
  <2>2. CASE ~WriteL1(r)
    <3>1. UNCHANGED usageVars
      BY <2>2 DEF Register, BeginRegister, BeginDefault, Issue, AskWrite, CallWrite,
                  WriteSucceeds, WriteFails, SpillSub
    <3>2. QED
      BY <3>1, UsageStays DEF Typed, StoreOK
  <2>3. QED
    BY <2>1, <2>2
<1>1. CASE BeginRegister(r) \/ BeginDefault(r)
  BY <1>0, <1>1, IssueTyped DEF BeginRegister, BeginDefault
<1>2. CASE WriteL1(r)
  <2>1. RequestsOK' /\ HistoryOK'
    BY <1>0, <1>2, WrittenTyped DEF WriteL1, At
  <2>2. contract' \in [Holder -> Contracts]
    BY <1>2, RequestAt DEF WriteL1, Typed, StoreOK
  <2>3. ReplayOK' /\ StoreOK' /\ FlagsOK'
    BY <1>0, <1>2, <1>u, <2>2 DEF WriteL1, Typed, ReplayOK, StoreOK, FlagsOK, logVars
  <2>4. QED
    BY <2>1, <2>3 DEF Typed
<1>3. CASE AskWrite(r)
  <2>1. b \in Backends /\ Ask(b)
    BY <1>3, RequestAt, Backend DEF AskWrite, Typed
  <2>2. RequestsOK'
    <3> DEFINE at == IF Allowed(breaker[b]) THEN "call" ELSE "spill"
    <3>1. Goes(r, at) /\ at \in RequestState /\ request[r].at = "ask"
            /\ request[r].why \in Writes /\ b # 0
      BY <1>3 DEF AskWrite, RequestState, At
    <3>2. Shape([request[r] EXCEPT !.at = at])
      BY <3>1, RequestAt DEF Shape, Request, Typed
    <3>3. QED
      BY <1>0, <3>1, <3>2, StepRequest DEF Typed
  <2>3. breaker' \in [Backends -> Breaker] /\ missed' \subseteq Backends
    BY <2>1, BreakersType, AskMissed DEF Typed
  <2>4. ReplayOK' /\ StoreOK' /\ FlagsOK' /\ HistoryOK'
    BY <1>0, <1>3, <1>u, <2>3 DEF AskWrite, Typed, ReplayOK, StoreOK, FlagsOK, HistoryOK, logVars,
       historyVars
  <2>5. QED
    BY <2>2, <2>4 DEF Typed
<1>4. CASE CallWrite(r)
  <2>1. PICK o \in {"ok", "refused", "broken"} :
          Outcome(b, request[r].ver, o) /\ Goes(r, o)
    BY <1>4 DEF CallWrite
  <2>2. b \in Backends /\ request[r].at = "call" /\ request[r].why \in Writes /\ b # 0
    BY <1>4, RequestAt, Backend DEF CallWrite, Typed, At, Shape
  <2>3. RequestsOK'
    <3>1. Shape([request[r] EXCEPT !.at = o])
      BY <2>2, RequestAt DEF Shape, Request, Typed
    <3>2. QED
      BY <1>0, <2>1, <3>1, StepRequest DEF Typed, RequestState
  <2>4. contract' \in [Holder -> Contracts]
    BY <2>1, <2>2, RequestAt, OutcomeType DEF Typed
  <2>5. ReplayOK' /\ StoreOK' /\ FlagsOK' /\ HistoryOK'
    BY <1>0, <1>4, <1>u, <2>4 DEF CallWrite, Typed, ReplayOK, StoreOK, FlagsOK, HistoryOK, logVars,
       historyVars
  <2>6. QED
    BY <2>3, <2>5 DEF Typed
<1>5. CASE WriteSucceeds(r)
  <2>1. b \in Backends /\ Succeeded(b)
    BY <1>5, RequestAt, Backend DEF WriteSucceeds, At, Typed, Shape
  <2>2. RequestsOK' /\ HistoryOK'
    BY <1>0, <1>5, WrittenTyped DEF WriteSucceeds, At
  <2>3. breaker' \in [Backends -> Breaker]
    BY <2>1, BreakersType DEF Typed
  <2>4. ReplayOK' /\ StoreOK' /\ FlagsOK'
    BY <1>0, <1>5, <1>u, <2>3 DEF WriteSucceeds, Typed, ReplayOK, StoreOK, FlagsOK, logVars
  <2>5. QED
    BY <2>2, <2>4 DEF Typed
<1>6. CASE WriteFails(r)
  <2>1. b \in Backends /\ b # 0 /\ Failed(b, request[r].at) /\ request[r].why \in Writes
          /\ request[r].at # "idle"
    BY <1>6, RequestAt, Backend DEF WriteFails, Typed, Shape
  <2>2. RequestsOK'
    <3>1. Shape([request[r] EXCEPT !.at = "spill"])
      BY <2>1, RequestAt DEF Shape, Request, Typed
    <3>2. QED
      BY <1>0, <1>6, <3>1, StepRequest DEF Typed, RequestState, WriteFails
  <2>3. breaker' \in [Backends -> Breaker] /\ healthy' \in [Backends -> BOOLEAN]
    BY <2>1, FailedType DEF Typed
  <2>4. ReplayOK' /\ StoreOK' /\ FlagsOK' /\ HistoryOK'
    BY <1>0, <1>6, <1>u, <2>3 DEF WriteFails, Typed, ReplayOK, StoreOK, FlagsOK, HistoryOK, logVars,
       historyVars
  <2>5. QED
    BY <2>2, <2>4 DEF Typed
<1>7. CASE SpillSub(r)
  <2>1. b \in Backends /\ request[r].ver \in Contracts
    BY <1>7, RequestAt, Backend DEF SpillSub, At, Typed, Shape
  <2>2. RequestsOK' /\ HistoryOK'
    BY <1>0, <1>7, WrittenTyped DEF SpillSub, At
  <2>3. /\ logged' \subseteq Backends \X Contracts
        /\ spilled' \subseteq Backends \X Contracts
        /\ refused' \subseteq Backends \X Contracts
    BY <1>7, <2>1 DEF SpillSub, Typed, StoreOK
  <2>4. ReplayOK' /\ StoreOK' /\ FlagsOK'
    BY <1>0, <1>7, <1>u, <2>3 DEF SpillSub, Typed, ReplayOK, StoreOK, FlagsOK
  <2>5. QED
    BY <2>2, <2>4 DEF Typed
<1>8. QED
  BY <1>1, <1>2, <1>3, <1>4, <1>5, <1>6, <1>7 DEF Register

LEMMA UnansweredTyped ==
    ASSUME Typed, NEW r \in Requests, Unanswered(r), request[r].at # "idle", joined' = joined
    PROVE  RequestsOK'
<1>1. Onward(r, IF request[r].why = "quota" THEN Admitted ELSE Defaultable)
  BY DEF Unanswered
<1>2. QED
  BY <1>1, IdleShape, OnwardType DEF Typed

LEMMA ReadTyped ==
    ASSUME Typed, NEW r \in Requests, Read(r)
    PROVE  Typed'
<1> DEFINE b == request[r].b
<1>0. /\ UNCHANGED <<contract, serverVars, healthy, replay, logVars, historyVars>>
      /\ joined' = joined /\ up' = up
  BY DEF Read, serverVars
<1>a. ReplayOK' /\ FlagsOK' /\ HistoryOK'
  BY <1>0 DEF Typed, ReplayOK, FlagsOK, HistoryOK, historyVars
<1>u. UsageOK'
  <2>1. CASE RecordEvent(r)
    BY <2>1, UsageGrows DEF Typed, StoreOK
  <2>2. CASE ~RecordEvent(r)
    <3>1. UNCHANGED usageVars
      BY <2>2 DEF Read, BeginCompletion, ReadL1, AskRead, CallRead, ReadSucceeds
    <3>2. QED
      BY <3>1, UsageStays DEF Typed, StoreOK
  <2>3. QED
    BY <2>1, <2>2
<1>b. ASSUME breaker' \in [Backends -> Breaker], missed' \subseteq Backends
      PROVE  StoreOK'
  BY <1>0, <1>b, <1>u DEF Typed, StoreOK, logVars
<1>1. CASE BeginCompletion(r)
  <2> DEFINE q == [at |-> "ask", why |-> "quota", b |-> 0, ver |-> 0]
  <2>1. q \in Request /\ Shape(q)
    BY Backend DEF Request, RequestState, Shape, Typed
  <2>2. RequestsOK'
    BY <1>0, <1>1, <2>1, SetRequest DEF BeginCompletion, Become, Typed
  <2>3. StoreOK'
    BY <1>1, <1>b DEF BeginCompletion, Typed, StoreOK
  <2>4. QED
    BY <1>a, <2>2, <2>3 DEF Typed
<1>2. CASE ReadL1(r)
  <2>1. RequestsOK'
    <3>1. CASE Unanswered(r)
      BY <1>0, <1>2, <3>1, UnansweredTyped DEF ReadL1, At
    <3>2. CASE \E q \in {Recordable, Admitted, Idle} : Become(r, q)
      BY <1>0, <3>2, IdleShape, SetRequest DEF Become, Typed
    <3>3. QED
      BY <1>2, <3>1, <3>2 DEF ReadL1
  <2>2. StoreOK'
    BY <1>2, <1>b DEF ReadL1, Typed, StoreOK
  <2>3. QED
    BY <1>a, <2>1, <2>2 DEF Typed
<1>3. CASE AskRead(r)
  <2>1. b \in Backends /\ b # 0 /\ request[r].at = "ask"
    BY <1>3, RequestAt, Backend DEF AskRead, Typed, At
  <2>2. RequestsOK'
    <3>1. CASE Unanswered(r)
      BY <1>0, <2>1, <3>1, UnansweredTyped
    <3>2. CASE Goes(r, "call")
      <4>1. Shape([request[r] EXCEPT !.at = "call"])
        BY <1>3, <2>1, RequestAt DEF Shape, Request, Typed, AskRead, At
      <4>2. QED
        BY <1>0, <3>2, <4>1, StepRequest DEF Typed, RequestState
    <3>3. QED
      BY <1>3, <3>1, <3>2 DEF AskRead
  <2>3. breaker' \in [Backends -> Breaker] /\ missed' \subseteq Backends
    <3>1. CASE Ask(b)
      BY <2>1, <3>1, BreakersType, AskMissed DEF Typed
    <3>2. CASE UNCHANGED <<breaker, missed>>
      BY <3>2 DEF Typed, StoreOK
    <3>3. QED
      BY <1>3, <3>1, <3>2 DEF AskRead
  <2>4. StoreOK'
    BY <1>3, <1>b, <2>3 DEF AskRead, Typed, StoreOK
  <2>5. QED
    BY <1>a, <2>2, <2>4 DEF Typed
<1>4. CASE CallRead(r)
  <2>1. b \in Backends /\ b # 0 /\ request[r].at = "call" /\ request[r].why \in Reads
    BY <1>4, RequestAt, Backend DEF CallRead, Typed, At, Shape
  <2>2. RequestsOK'
    <3>1. CASE Unanswered(r)
      BY <1>0, <2>1, <3>1, UnansweredTyped
    <3>2. CASE \E at \in {"empty", "hit"} : Goes(r, at)
      <4>1. PICK at \in {"empty", "hit"} : Goes(r, at)
        BY <3>2
      <4>2. Shape([request[r] EXCEPT !.at = at])
        BY <2>1, RequestAt DEF Shape, Request, Typed
      <4>3. QED
        BY <1>0, <4>1, <4>2, StepRequest DEF Typed, RequestState
    <3>3. QED
      BY <1>4, <3>1, <3>2 DEF CallRead
  <2>3. StoreOK'
    BY <1>4, <1>b, <2>1 DEF CallRead, Typed, StoreOK
  <2>4. QED
    BY <1>a, <2>2, <2>3 DEF Typed
<1>5. CASE ReadSucceeds(r)
  <2>1. b \in Backends /\ Succeeded(b)
    BY <1>5, RequestAt, Backend DEF ReadSucceeds, Typed, Shape
  <2>2. RequestsOK'
    <3>1. \E q \in {Admitted, Idle, Recordable, Defaultable} : Become(r, q)
      BY <1>5 DEF ReadSucceeds
    <3>2. QED
      BY <1>0, <3>1, IdleShape, SetRequest DEF Become, Typed
  <2>3. breaker' \in [Backends -> Breaker]
    BY <2>1, BreakersType DEF Typed
  <2>4. StoreOK'
    BY <1>5, <1>b, <2>3 DEF ReadSucceeds, Typed, StoreOK
  <2>5. QED
    BY <1>a, <2>2, <2>4 DEF Typed
<1>6. CASE RecordEvent(r)
  <2>1. RequestsOK'
    BY <1>0, <1>6, IdleShape, SetRequest DEF RecordEvent, Become, Typed
  <2>2. StoreOK'
    BY <1>6, <1>b DEF RecordEvent, Typed, StoreOK
  <2>3. QED
    BY <1>a, <2>1, <2>2 DEF Typed
<1>7. QED
  BY <1>1, <1>2, <1>3, <1>4, <1>5, <1>6 DEF Read

LEMMA ReplayTyped ==
    ASSUME Typed, Replay
    PROVE  Typed'
<1> DEFINE b == replay.b
<1>0. UNCHANGED <<usageVars, serverVars, request, historyVars>> /\ joined' = joined /\ up' = up
  BY DEF Replay, serverVars
<1>u. UsageOK'
  BY <1>0, UsageStays DEF Typed, StoreOK
<1>a. RequestsOK' /\ HistoryOK'
  BY <1>0 DEF Typed, RequestsOK, HistoryOK, historyVars, Shape
<1>c. replay.at # "idle" => b \in Backends /\ replay.ver \in Contracts
  BY DEF Typed, ReplayOK, FlagsOK, Request
<1>d. Idle \in Request
  BY IdleShape DEF Typed
<1>1. CASE \E c \in Backends, v \in Contracts : ReplayStarts(c, v)
  <2>1. PICK c \in Backends, v \in Contracts : ReplayStarts(c, v)
    BY <1>1
  <2>2. ReplayOK'
    BY <1>0, <2>1, Backend DEF ReplayStarts, ReplayOK, Request, RequestState, Typed
  <2>3. StoreOK' /\ FlagsOK'
    BY <1>0, <1>u, <2>1 DEF ReplayStarts, Typed, StoreOK, FlagsOK, logVars
  <2>4. QED
    BY <1>a, <2>2, <2>3 DEF Typed
<1>2. CASE ReplayAsk
  <2>1. ReplayOK'
    BY <1>0, <1>2, <1>d DEF ReplayAsk, ReplayOK, Request, RequestState, Typed, Idle
  <2>2. breaker' \in [Backends -> Breaker] /\ missed' \subseteq Backends
    BY <1>2, <1>c, BreakersType, AskMissed DEF ReplayAsk, Typed
  <2>3. StoreOK' /\ FlagsOK'
    BY <1>0, <1>2, <1>u, <2>2 DEF ReplayAsk, Typed, StoreOK, FlagsOK, logVars
  <2>4. QED
    BY <1>a, <2>1, <2>3 DEF Typed
<1>3. CASE ReplayCall
  <2>1. PICK o \in {"ok", "refused", "broken"} :
          Outcome(b, replay.ver, o) /\ replay' = [replay EXCEPT !.at = o]
    BY <1>3 DEF ReplayCall
  <2>2. ReplayOK'
    BY <1>0, <1>3, <2>1 DEF ReplayCall, ReplayOK, Request, RequestState, Typed
  <2>3. contract' \in [Holder -> Contracts]
    BY <1>3, <1>c, <2>1, OutcomeType DEF ReplayCall, Typed
  <2>4. StoreOK' /\ FlagsOK'
    BY <1>0, <1>3, <1>u, <2>3 DEF ReplayCall, Typed, StoreOK, FlagsOK, logVars
  <2>5. QED
    BY <1>a, <2>2, <2>4 DEF Typed
<1>4. CASE ReplaySucceeds
  <2>1. ReplayOK'
    BY <1>0, <1>4, <1>d DEF ReplaySucceeds, ReplayOK, Typed, Idle
  <2>2. breaker' \in [Backends -> Breaker]
    BY <1>4, <1>c, BreakersType DEF ReplaySucceeds, Typed
  <2>3. StoreOK' /\ FlagsOK'
    BY <1>0, <1>4, <1>u, <2>2 DEF ReplaySucceeds, Typed, StoreOK, FlagsOK
  <2>4. QED
    BY <1>a, <2>1, <2>3 DEF Typed
<1>5. CASE ReplayFails
  <2>1. ReplayOK'
    BY <1>0, <1>5, <1>d DEF ReplayFails, ReplayOK, Typed, Idle
  <2>2. breaker' \in [Backends -> Breaker] /\ healthy' \in [Backends -> BOOLEAN]
    BY <1>5, <1>c, FailedType DEF ReplayFails, Typed
  <2>3. StoreOK' /\ FlagsOK'
    BY <1>0, <1>5, <1>u, <2>2 DEF ReplayFails, Typed, StoreOK, FlagsOK, logVars
  <2>4. QED
    BY <1>a, <2>1, <2>3 DEF Typed
<1>6. QED
  BY <1>1, <1>2, <1>3, <1>4, <1>5 DEF Replay

\* What the environment does to the flags and the breakers.
LEMMA EnvironmentDoes ==
    ASSUME Environment
    PROVE  \/ \E b \in Backends : HealthProbe(b) \/ ServerChanges(b) \/ CooldownPasses(b)
           \/ CycleBegins
BY DEF Environment

LEMMA EnvironmentTyped ==
    ASSUME Typed, Environment
    PROVE  Typed'
<1>1. RequestsOK' /\ ReplayOK' /\ HistoryOK'
  BY DEF Typed, RequestsOK, ReplayOK, HistoryOK, Environment, historyVars, Shape
<1>2. /\ joined' = joined /\ contract' = contract /\ missed' = missed /\ UNCHANGED logVars
      /\ UsageOK /\ StoreOK /\ FlagsOK
  BY DEF Environment, Typed, StoreOK
<1>3. ASSUME NEW b \in Backends, HealthProbe(b) \/ ServerChanges(b) \/ CooldownPasses(b)
      PROVE  Typed'
  <2>1. breaker' \in [Backends -> Breaker]
    <3>1. Cool(breaker[b]) \in Breaker
      BY BreakerFunctionsType DEF Typed, StoreOK
    <3>2. breaker' = breaker \/ breaker' = [breaker EXCEPT ![b] = Cool(breaker[b])]
      BY <1>3 DEF HealthProbe, ServerChanges, CooldownPasses
    <3>3. QED
      BY <3>1, <3>2 DEF Typed, StoreOK
  <2>2. UsageOK'
    BY <1>2, <1>3, UsageStays DEF HealthProbe, ServerChanges, CooldownPasses
  <2>3. StoreOK'
    BY <1>2, <2>1, <2>2 DEF StoreOK, logVars
  <2>4. CASE HealthProbe(b)
    BY <1>1, <1>2, <2>3, <2>4 DEF Typed, FlagsOK, HealthProbe
  <2>5. CASE ServerChanges(b)
    BY <1>1, <1>2, <2>3, <2>5 DEF Typed, FlagsOK, ServerChanges
  <2>6. CASE CooldownPasses(b)
    BY <1>1, <1>2, <2>3, <2>6 DEF Typed, FlagsOK, CooldownPasses
  <2>7. QED
    BY <1>3, <2>4, <2>5, <2>6
<1>4. CASE CycleBegins
  <2>1. counted \in 0 .. counted
    BY <1>2 DEF UsageOK
  <2>2. UsageOK'
    BY <1>2, <1>4, <2>1, UsageRestarts DEF CycleBegins
  <2>3. StoreOK' /\ FlagsOK'
    BY <1>2, <1>4, <2>2 DEF StoreOK, FlagsOK, CycleBegins, logVars
  <2>4. QED
    BY <1>1, <2>3 DEF Typed
<1>5. QED
  BY <1>3, <1>4, EnvironmentDoes

LEMMA NewBreakerType == NewBreaker \in Breaker
BY ThresholdAssumption DEF NewBreaker, Breaker, CircuitState

LEMMA RestartTyped ==
    ASSUME Typed, Restart
    PROVE  Typed'
<1>1. FlagsOK'
  BY DEF Typed, FlagsOK, Restart
<1>2. RequestsOK'
  BY Backend DEF RequestsOK, Restart, Idle, Request, RequestState, Shape, Typed
<1>3. ReplayOK'
  BY Backend DEF ReplayOK, Restart, Idle, Request, RequestState, Typed
<1>4. StoreOK'
  <2>1. contract' \in [Holder -> Contracts]
    BY Backend DEF Restart, Typed, StoreOK
  <2>2. UsageOK'
    BY DEF Restart, UsageOK
  <2>3. QED
    BY <2>1, <2>2, NewBreakerType DEF Restart, Typed, StoreOK, logVars
<1>5. HistoryOK'
  BY DEF Restart, Typed, HistoryOK
<1>6. QED
  BY <1>1, <1>2, <1>3, <1>4, <1>5 DEF Typed

LEMMA InitTyped == Init => Typed
<1> SUFFICES ASSUME Init PROVE Typed
  OBVIOUS
<1>1. FlagsOK
  BY DEF FlagsOK, Init
<1>2. RequestsOK /\ ReplayOK
  BY <1>1, Backend DEF RequestsOK, ReplayOK, Init, Idle, Request, RequestState, Shape
<1>3. HistoryOK
  <2>1. settled \in [Backends -> Contracts]
    BY <1>1, Backend DEF Init
  <2>2. restarts \in 0 .. MaxRestarts
    BY DEF Init
  <2>3. issued \in Contracts /\ torn \in BOOLEAN
    BY <1>1, Backend DEF Init
  <2>4. QED
    BY <2>1, <2>2, <2>3 DEF HistoryOK
<1>4. StoreOK
  <2>1. UsageOK
    BY DEF Init, UsageOK
  <2>2. QED
    BY <1>1, <2>1, Backend, NewBreakerType DEF StoreOK, Init
<1>5. QED
  BY <1>1, <1>2, <1>3, <1>4 DEF Typed

LEMMA NextTyped == Typed /\ [Next]_vars => Typed'
<1> SUFFICES ASSUME Typed, [Next]_vars PROVE Typed'
  OBVIOUS
<1>1. CASE UNCHANGED vars
  <2>1. UsageOK'
    BY <1>1, UsageStays DEF vars, Typed, StoreOK
  <2>2. QED
    BY <1>1, <2>1 DEF vars, serverVars, logVars, historyVars, Typed, RequestsOK, ReplayOK,
       StoreOK, FlagsOK, HistoryOK, Shape
<1>2. CASE Next
  BY <1>2, RegisterTyped, ReadTyped, ReplayTyped, EnvironmentTyped, RestartTyped DEF Next
<1>3. QED
  BY <1>1, <1>2

\* Contracts, requests, breakers, the log and the rest keep to their types, for
\* any backends and requests (metering_chain.go).
THEOREM TypeCorrect == Spec => []TypeOK
<1>1. Spec => []Typed
  BY InitTyped, NextTyped, PTL DEF Spec
<1>2. QED
  BY <1>1, TypedIsTypeOK, PTL

-----------------------------------------------------------------------------
(* A half-open breaker waits for a call, or for nobody after a read without *)
(* an answer                                                               *)

Waits(b) ==
    \/ \E r \in Requests : InFlight(request[r], b)
    \/ InFlight(replay, b)
    \/ b \in missed

\* What a step may do to a breaker that was, and is, half open.
LEMMA AskedWaits ==
    ASSUME StoreOK, NEW b \in Backends, Ask(b)
    PROVE  \A c \in Backends :
             breaker'[c].state = "half_open" =>
               \/ c = b /\ Allowed(breaker[b])
               \/ breaker[c].state = "half_open" /\ (c \in missed => c \in missed')
<1>1. \A c \in Backends : breaker'[c] = IF c = b THEN AfterAllow(breaker[b]) ELSE breaker[c]
  BY DEF Ask, StoreOK
<1>2. CASE Allowed(breaker[b])
  BY <1>1, <1>2 DEF Ask
<1>3. CASE ~Allowed(breaker[b])
  <2>1. AfterAllow(breaker[b]) = breaker[b]
    BY <1>3 DEF Allowed, AfterAllow
  <2>2. QED
    BY <1>1, <1>3, <2>1 DEF Ask
<1>4. QED
  BY <1>2, <1>3

LEMMA ReportEnds ==
    ASSUME StoreOK, NEW b \in Backends, NEW o, Succeeded(b) \/ Failed(b, o)
    PROVE  \A c \in Backends :
             breaker'[c].state = "half_open" => c # b /\ breaker[c].state = "half_open"
<1>1. breaker[b] \in Breaker
  BY DEF StoreOK
<1>2. /\ RecordSuccess(breaker[b]).state # "half_open"
      /\ RecordFailure(breaker[b]).state # "half_open"
  BY <1>1, Reports
<1>3. \A c \in Backends : c # b => breaker'[c] = breaker[c]
  BY DEF Succeeded, Failed, StoreOK
<1>4. breaker'[b] \in {RecordSuccess(breaker[b]), RecordFailure(breaker[b])}
  BY DEF Succeeded, Failed, StoreOK
<1>5. QED
  BY <1>2, <1>3, <1>4

\* A request that is in no call, or stays in it, keeps nobody waiting.
LEMMA OthersWait ==
    ASSUME RequestsOK, NEW r \in Requests, NEW q, request' = [request EXCEPT ![r] = q],
           replay' = replay, NEW c,
           c \in missed => c \in missed',
           InFlight(request[r], c) => InFlight(q, c) \/ c \in missed',
           Waits(c)
    PROVE  Waits(c)'
<1>1. \A s \in Requests : request'[s] = IF s = r THEN q ELSE request[s]
  BY DEF RequestsOK
<1>2. QED
  BY <1>1 DEF Waits

\* What the loop leaves a request at is in no call.
LEMMA OnwardLeaves ==
    ASSUME Typed, NEW r \in Requests, NEW q, q.at \notin Calling, Onward(r, q)
    PROVE  \E p : p.at \notin Calling /\ request' = [request EXCEPT ![r] = p]
<1>1. request[r] \in Request
  BY DEF Typed, RequestsOK
<1>2. CASE \E c : request' = [request EXCEPT ![r] = [request[r] EXCEPT !.at = "ask", !.b = c]]
  <2>1. PICK c : request' = [request EXCEPT ![r] = [request[r] EXCEPT !.at = "ask", !.b = c]]
    BY <1>2
  <2>2. [request[r] EXCEPT !.at = "ask", !.b = c].at = "ask"
    BY <1>1 DEF Request
  <2>3. QED
    BY <2>1, <2>2
<1>3. QED
  BY <1>2, OnwardStep, TypedIsTypeOK

LEMMA RequestWaits ==
    ASSUME Typed, StrandedByMiss, NEW r \in Requests, Register(r) \/ Read(r)
    PROVE  StrandedByMiss'
<1> DEFINE b == request[r].b
<1>0. replay' = replay
  BY DEF Register, Read
<1> SUFFICES ASSUME NEW c \in Backends, breaker'[c].state = "half_open" PROVE Waits(c)'
  BY DEF StrandedByMiss, Waits
<1>w. breaker[c].state = "half_open" => Waits(c)
  BY DEF StrandedByMiss, Waits
<1>t. RequestsOK /\ StoreOK /\ request[r] \in Request /\ Shape(request[r])
  BY DEF Typed, RequestsOK
\* The request was in no call, and neither asks nor reports.
<1>a. ASSUME NEW q, request' = [request EXCEPT ![r] = q], UNCHANGED <<breaker, missed>>,
             request[r].at \notin Calling
      PROVE  Waits(c)'
  BY <1>0, <1>a, <1>w, <1>t, OthersWait DEF InFlight
\* It reports.
<1>b. ASSUME NEW q, request' = [request EXCEPT ![r] = q], missed' = missed,
             b \in Backends, NEW o, Succeeded(b) \/ Failed(b, o)
      PROVE  Waits(c)'
  <2>1. c # b /\ breaker[c].state = "half_open"
    BY <1>b, <1>t, ReportEnds
  <2>2. QED
    BY <1>0, <1>b, <1>w, <1>t, <2>1, OthersWait DEF InFlight
\* It asks.
<1>c. ASSUME NEW q, request' = [request EXCEPT ![r] = q], b \in Backends, Ask(b),
             Allowed(breaker[b]) => q.at = "call" /\ q.b = b,
             request[r].at \notin Calling
      PROVE  Waits(c)'
  <2>1. CASE c = b /\ Allowed(breaker[b])
    <3>1. request'[r] = q
      BY <1>c, <1>t DEF RequestsOK
    <3>2. QED
      BY <1>c, <2>1, <3>1 DEF Waits, InFlight
  <2>2. CASE breaker[c].state = "half_open" /\ (c \in missed => c \in missed')
    BY <1>0, <1>c, <1>w, <1>t, <2>2, OthersWait DEF InFlight
  <2>3. QED
    BY <1>c, <1>t, <2>1, <2>2, AskedWaits
\* It calls: it is in flight at the same backend before and after.
<1>d. ASSUME NEW at \in Calling, Goes(r, at), breaker' = breaker, missed' = missed
      PROVE  Waits(c)'
  <2>1. request' = [request EXCEPT ![r] = [request[r] EXCEPT !.at = at]]
    BY <1>d DEF Goes, Become
  <2>2. InFlight(request[r], c) => InFlight([request[r] EXCEPT !.at = at], c)
    BY <1>d, <1>t DEF InFlight, Request
  <2>3. QED
    BY <1>0, <1>d, <1>w, <1>t, <2>1, <2>2, OthersWait
<1>e. \A why \in Writes : Issue(r, why) /\ request[r].at \notin Calling => Waits(c)'
  <2>1. SUFFICES ASSUME NEW why \in Writes, Issue(r, why), request[r].at \notin Calling
                 PROVE  Waits(c)'
    OBVIOUS
  <2>2. QED
    BY <1>a, <2>1 DEF Issue, Become
<1>f. Idle.at \notin Calling /\ Admitted.at \notin Calling /\ Defaultable.at \notin Calling
        /\ Recordable.at \notin Calling
  BY DEF Idle, Admitted, Defaultable, Recordable
<1>g. Written(r) \/ Unanswered(r) =>
        \E p : p.at \notin Calling /\ request' = [request EXCEPT ![r] = p]
  <2>1. Written(r) => \E q \in {Idle, Recordable} : Onward(r, q)
    BY DEF Written
  <2>2. Unanswered(r) => \E q \in {Admitted, Defaultable} : Onward(r, q)
    BY DEF Unanswered
  <2>3. QED
    BY <2>1, <2>2, <1>f, OnwardLeaves
<1>1. CASE BeginRegister(r) \/ BeginDefault(r)
  BY <1>1, <1>e DEF BeginRegister, BeginDefault, At
<1>2. CASE WriteL1(r) \/ SpillSub(r)
  BY <1>2, <1>a, <1>g DEF WriteL1, SpillSub, At
<1>3. CASE AskWrite(r) \/ (AskRead(r) /\ healthy[b] /\ Allowed(breaker[b]))
  <2>1. b \in Backends /\ Ask(b) /\ request[r].at = "ask"
    BY <1>3, RequestAt, Backend DEF AskWrite, AskRead, At, Typed
  <2>2. PICK at \in {"call", "spill"} : Goes(r, at) /\ (Allowed(breaker[b]) => at = "call")
    BY <1>3 DEF AskWrite, AskRead
  <2> DEFINE q == [request[r] EXCEPT !.at = at]
  <2>3. request' = [request EXCEPT ![r] = q] /\ q.at = at /\ q.b = b
    BY <2>2, <1>t DEF Goes, Become, Request
  <2> HIDE DEF q
  <2>4. QED
    BY <1>c, <2>1, <2>2, <2>3
<1>4. CASE CallWrite(r)
  BY <1>4, <1>d DEF CallWrite
<1>5. CASE WriteSucceeds(r) \/ WriteFails(r)
  <2>1. b \in Backends /\ missed' = missed /\ \E o : Succeeded(b) \/ Failed(b, o)
    BY <1>5, <1>t, RequestAt, Backend DEF WriteSucceeds, WriteFails, At, Typed, Shape
  <2>2. \E q : request' = [request EXCEPT ![r] = q]
    BY <1>5, <1>g DEF WriteSucceeds, WriteFails, Goes, Become
  <2>3. QED
    BY <1>b, <2>1, <2>2
<1>6. CASE BeginCompletion(r) \/ RecordEvent(r)
  BY <1>6, <1>a DEF BeginCompletion, RecordEvent, Become
<1>7. CASE ReadL1(r)
  <2>1. \E q : request' = [request EXCEPT ![r] = q]
    BY <1>7, <1>g DEF ReadL1, Become
  <2>2. QED
    BY <1>7, <2>1, <1>a DEF ReadL1, At
<1>8. CASE AskRead(r)
  <2>1. CASE healthy[b] /\ Allowed(breaker[b])
    BY <1>3, <1>8, <2>1
  <2>2. CASE healthy[b] /\ ~Allowed(breaker[b])
    <3>1. b \in Backends /\ Ask(b) /\ request[r].at = "ask" /\ Unanswered(r)
      BY <1>8, <2>2, RequestAt, Backend DEF AskRead, At, Typed
    <3>2. QED
      BY <1>c, <1>g, <2>2, <3>1
  <2>3. CASE ~healthy[b]
    BY <1>8, <2>3, <1>a, <1>g DEF AskRead, At
  <2>4. QED
    BY <1>8, <2>1, <2>2, <2>3 DEF AskRead
<1>9. CASE CallRead(r)
  <2>1. CASE Answers(b, request[r].why)
    BY <1>9, <2>1, <1>d DEF CallRead
  <2>2. CASE ~Answers(b, request[r].why)
    <3>1. Unanswered(r) /\ missed' = missed \cup {b} /\ breaker' = breaker
      BY <1>9, <2>2 DEF CallRead
    <3>2. PICK p : request' = [request EXCEPT ![r] = p]
      BY <1>g, <3>1
    <3>3. QED
      BY <1>0, <1>w, <1>t, <3>1, <3>2, OthersWait DEF InFlight
  <2>3. QED
    BY <2>1, <2>2
<1>10. CASE ReadSucceeds(r)
  <2>1. b \in Backends /\ Succeeded(b) /\ missed' = missed
    BY <1>10, RequestAt, Backend DEF ReadSucceeds, Typed, Shape
  <2>2. \E q : request' = [request EXCEPT ![r] = q]
    BY <1>10 DEF ReadSucceeds, Become
  <2>3. QED
    BY <1>b, <2>1, <2>2
<1>11. QED
  BY <1>1, <1>2, <1>3, <1>4, <1>5, <1>6, <1>7, <1>8, <1>9, <1>10 DEF Register, Read

LEMMA ReplayWaits ==
    ASSUME Typed, StrandedByMiss, Replay
    PROVE  StrandedByMiss'
<1> DEFINE b == replay.b
<1>0. request' = request
  BY DEF Replay
<1> SUFFICES ASSUME NEW c \in Backends, breaker'[c].state = "half_open" PROVE Waits(c)'
  BY DEF StrandedByMiss, Waits
<1>w. breaker[c].state = "half_open" => Waits(c)
  BY DEF StrandedByMiss, Waits
<1>t. StoreOK /\ replay \in Request /\ (replay.at # "idle" => b \in Backends)
  BY DEF Typed, ReplayOK, FlagsOK
<1>1. CASE \E d \in Backends, v \in Contracts : ReplayStarts(d, v)
  BY <1>0, <1>1, <1>w DEF ReplayStarts, Waits, InFlight
<1>2. CASE ReplayAsk
  <2>1. CASE c = b /\ Allowed(breaker[b])
    <3>1. replay'.at = "call" /\ replay'.b = b
      BY <1>2, <2>1, <1>t DEF ReplayAsk, Request
    <3>2. QED
      BY <2>1, <3>1 DEF Waits, InFlight
  <2>2. CASE breaker[c].state = "half_open" /\ (c \in missed => c \in missed')
    BY <1>0, <1>2, <1>w, <2>2 DEF ReplayAsk, Waits, InFlight
  <2>3. QED
    BY <1>2, <1>t, <2>1, <2>2, AskedWaits DEF ReplayAsk
<1>3. CASE ReplayCall
  <2>1. PICK o \in {"ok", "refused", "broken"} : replay' = [replay EXCEPT !.at = o]
    BY <1>3 DEF ReplayCall
  <2>2. replay'.at = o /\ replay'.b = b
    BY <2>1, <1>t DEF Request
  <2>3. QED
    BY <1>0, <1>3, <1>w, <2>2 DEF ReplayCall, Waits, InFlight
<1>4. CASE ReplaySucceeds \/ ReplayFails
  <2>1. c # b /\ breaker[c].state = "half_open"
    BY <1>4, <1>t, ReportEnds DEF ReplaySucceeds, ReplayFails
  <2>2. QED
    BY <1>0, <1>4, <1>w, <2>1 DEF ReplaySucceeds, ReplayFails, Waits, InFlight
<1>5. QED
  BY <1>1, <1>2, <1>3, <1>4 DEF Replay

\* A half-open breaker waits for a call of its backend that will report, or the
\* last call it let through was a read without an answer (metering_chain.go's
\* getters call Allow and report only what they return).
THEOREM StrandedByMissHolds == Spec => []StrandedByMiss
<1>1. Init => StrandedByMiss
  BY DEF Init, StrandedByMiss, NewBreaker
<1>2. Typed /\ StrandedByMiss /\ [Next]_vars => StrandedByMiss'
  <2> SUFFICES ASSUME Typed, StrandedByMiss, [Next]_vars PROVE StrandedByMiss'
    OBVIOUS
  <2>1. CASE Environment
    <3>1. UNCHANGED <<request, replay, missed>>
      BY <2>1 DEF Environment
    <3>2. \A c \in Backends : breaker'[c].state = breaker[c].state
      <4>1. \/ breaker' = breaker
            \/ \E b \in Backends : breaker' = [breaker EXCEPT ![b] = Cool(breaker[b])]
        BY <2>1, EnvironmentDoes DEF HealthProbe, ServerChanges, CooldownPasses, CycleBegins
      <4>2. /\ breaker \in [Backends -> Breaker]
            /\ \A b \in Backends : Cool(breaker[b]).state = breaker[b].state
        BY DEF Typed, StoreOK, Breaker, Cool
      <4>3. QED
        BY <4>1, <4>2
    <3>3. QED
      BY <3>1, <3>2 DEF StrandedByMiss, InFlight
  <2>2. CASE Restart
    BY <2>2 DEF Restart, StrandedByMiss, NewBreaker
  <2>3. CASE UNCHANGED vars
    BY <2>3 DEF vars, StrandedByMiss, InFlight
  <2>4. QED
    BY <2>1, <2>2, <2>3, RequestWaits, ReplayWaits DEF Next
<1>3. QED
  BY <1>1, <1>2, InitTyped, NextTyped, PTL DEF Spec

-----------------------------------------------------------------------------
(* The quota                                                               *)

\* Past the policy's look at L1, and not yet counted.
Past(q) == q.why \in {"contract", "default"} \/ (q.why = "quota" /\ q.b # 0)

Entered == {r \in Requests : Past(request[r])}

\* Until the first registration L1, like all others, has nothing.
Untouched ==
    /\ counted = 0 /\ logged = {} /\ replay.at = "idle"
    /\ \A b \in Backends : contract[b] = 0
    /\ \A r \in Requests : /\ request[r].at \notin {"hit", "record"}
                           /\ request[r].why \in Writes => request[r].b = 0

QInv ==
    restarts = 0 =>
        /\ counted - began + Cardinality(Entered) <= Quota - 1 + Cardinality(Requests)
        /\ contract[0] = 0 => Untouched

\* How many have entered, when one request moves.
LEMMA EnteredCounts ==
    ASSUME RequestsOK, NEW r \in Requests, NEW q, request' = [request EXCEPT ![r] = q]
    PROVE  /\ Cardinality(Entered) \in Nat /\ Cardinality(Entered') \in Nat
           /\ Cardinality(Entered') <= Cardinality(Requests)
           /\ Cardinality(Requests) \in Nat
           /\ (Past(q) => r \in Entered) => Cardinality(Entered') <= Cardinality(Entered)
           /\ ~Past(q) /\ r \in Entered => Cardinality(Entered') = Cardinality(Entered) - 1
<1>1. /\ Entered \subseteq Requests /\ Entered' \subseteq Requests
      /\ IsFiniteSet(Entered) /\ IsFiniteSet(Entered')
  <2>1. Entered \subseteq Requests /\ Entered' \subseteq Requests
    BY DEF Entered
  <2>2. QED
    BY <2>1, FS_Subset
<1>2. \A s \in Requests : request'[s] = IF s = r THEN q ELSE request[s]
  BY DEF RequestsOK
<1>3. (Past(q) => r \in Entered) => Entered' \subseteq Entered
  BY <1>2 DEF Entered, Past
<1>4. ~Past(q) /\ r \in Entered => Entered' = Entered \ {r}
  BY <1>2 DEF Entered, Past
<1>5. /\ Cardinality(Entered) \in Nat /\ Cardinality(Entered') \in Nat
      /\ Cardinality(Requests) \in Nat
  BY <1>1, FS_CardinalityType
<1>6. Cardinality(Entered') <= Cardinality(Requests)
  BY <1>1, FS_Subset
<1>7. (Past(q) => r \in Entered) => Cardinality(Entered') <= Cardinality(Entered)
  BY <1>1, <1>3, FS_Subset
<1>8. ~Past(q) /\ r \in Entered => Cardinality(Entered') = Cardinality(Entered) - 1
  BY <1>1, <1>4, FS_RemoveElement
<1>9. QED
  BY <1>5, <1>6, <1>7, <1>8

LEMMA OnwardPast ==
    ASSUME Typed, NEW r \in Requests, NEW q, Onward(r, q)
    PROVE  \E p : /\ request' = [request EXCEPT ![r] = p]
                  /\ \/ p = q
                     \/ p.at = "ask" /\ p.why = request[r].why /\ p.b \in Backends
<1>1. request[r] \in Request /\ joined \subseteq Backends
  BY DEF Typed, RequestsOK, FlagsOK
<1>2. CASE \E c \in joined :
          request' = [request EXCEPT ![r] = [request[r] EXCEPT !.at = "ask", !.b = c]]
  <2>1. PICK c \in joined :
          request' = [request EXCEPT ![r] = [request[r] EXCEPT !.at = "ask", !.b = c]]
    BY <1>2
  <2> DEFINE p == [request[r] EXCEPT !.at = "ask", !.b = c]
  <2>2. p.at = "ask" /\ p.why = request[r].why /\ p.b = c
    BY <1>1 DEF Request
  <2>3. QED
    BY <1>1, <2>1, <2>2
<1>3. QED
  BY <1>2, OnwardStep, TypedIsTypeOK DEF Deeper

\* A step that leaves the count alone and lets nobody in.
LEMMA NobodyEnters ==
    ASSUME Typed, QInv, NEW r \in Requests, NEW q, request' = [request EXCEPT ![r] = q],
           Past(q) => Past(request[r]),
           UNCHANGED <<usageVars, restarts>>,
           restarts = 0 /\ contract'[0] = 0 => Untouched'
    PROVE  QInv'
<1>1. Past(q) => r \in Entered
  BY DEF Entered
<1>2. Cardinality(Entered') <= Cardinality(Entered)
        /\ Cardinality(Entered) \in Nat /\ Cardinality(Entered') \in Nat
        /\ Cardinality(Requests) \in Nat
  BY <1>1, EnteredCounts DEF Typed
<1>3. counted \in Nat /\ began \in Nat
  BY DEF Typed, StoreOK, UsageOK
<1>4. QED
  BY <1>2, <1>3 DEF QInv, usageVars

\* A cycle begins, of the contract L1 has or is given.
LEMMA QuotaAnew ==
    ASSUME Typed, counted' = counted, began' = counted, contract'[0] # 0,
           Cardinality(Entered') \in Nat, Cardinality(Requests) \in Nat,
           Cardinality(Entered') <= Cardinality(Requests)
    PROVE  QInv'
<1>1. counted \in Nat
  BY DEF Typed, StoreOK, UsageOK
<1>2. QED
  BY <1>1 DEF QInv

LEMMA RegisterQuota ==
    ASSUME Typed, QInv, NEW r \in Requests, Register(r)
    PROVE  QInv'
<1> DEFINE b == request[r].b
<1>0. UNCHANGED <<replay, restarts>>
  BY DEF Register, BeginRegister, BeginDefault, Issue, WriteL1, AskWrite, CallWrite,
         WriteSucceeds, WriteFails, SpillSub, Written, historyVars
<1>t. RequestsOK /\ request[r] \in Request /\ Shape(request[r]) /\ StoreOK
  BY DEF Typed, RequestsOK
<1>1. CASE BeginRegister(r) \/ BeginDefault(r)
  <2>1. PICK why \in Writes : /\ Issue(r, why)
                              /\ why = "default" => Past(request[r])
    BY <1>1, <1>t DEF BeginRegister, BeginDefault, At, Past, Shape
  <2> DEFINE q == [at |-> "ask", why |-> why, b |-> 0, ver |-> issued + 1]
  <2>2. request' = [request EXCEPT ![r] = q] /\ UNCHANGED <<contract, usageVars, logVars>>
    BY <2>1 DEF Issue, Become
  <2>3. Past(q) => Past(request[r])
    BY <2>1 DEF Past
  <2>4. \A s \in Requests : request'[s] = IF s = r THEN q ELSE request[s]
    BY <2>2, <1>t DEF RequestsOK
  <2>5. restarts = 0 /\ contract'[0] = 0 => Untouched'
    BY <1>0, <2>2, <2>4 DEF QInv, Untouched, usageVars, logVars
  <2>6. QED
    BY <1>0, <2>2, <2>3, <2>5, NobodyEnters
<1>w. ASSUME Written(r), request[r].why \in Writes
      PROVE  \E p : request' = [request EXCEPT ![r] = p] /\ (Past(p) => Past(request[r]))
  <2>1. Onward(r, IF request[r].why = "default" THEN Recordable ELSE Idle)
    BY <1>w DEF Written
  <2>2. PICK p : /\ request' = [request EXCEPT ![r] = p]
                 /\ \/ p = IF request[r].why = "default" THEN Recordable ELSE Idle
                    \/ p.at = "ask" /\ p.why = request[r].why /\ p.b \in Backends
    BY <2>1, OnwardPast
  <2>3. Past(p) => Past(request[r])
    BY <1>w, <2>2 DEF Past, Recordable, Admitted, Idle
  <2>4. QED
    BY <2>2, <2>3
<1>g. ASSUME NEW at, Goes(r, at), b # 0, request[r].why \in Writes, contract'[0] = contract[0],
             UNCHANGED usageVars
      PROVE  QInv'
  <2> DEFINE q == [request[r] EXCEPT !.at = at]
  <2>1. request' = [request EXCEPT ![r] = q]
    BY <1>g DEF Goes, Become
  <2>2. Past(q) => Past(request[r])
    BY <1>t DEF Past, Request
  <2>3. restarts = 0 => contract[0] # 0
    BY <1>g DEF QInv, Untouched
  <2>4. QED
    BY <1>0, <1>g, <2>1, <2>2, <2>3, NobodyEnters
<1>2. CASE WriteL1(r)
  <2>1. contract'[0] # 0
    <3>1. contract'[0] = request[r].ver
      BY <1>2, <1>t, Backend DEF WriteL1, StoreOK, Typed
    <3>2. QED
      BY <3>1, <1>2, <1>t DEF WriteL1, At, Shape
  <2>2. PICK p : request' = [request EXCEPT ![r] = p]
    BY <1>2, <1>w DEF WriteL1, At
  <2>3. /\ Cardinality(Entered') \in Nat /\ Cardinality(Requests) \in Nat
        /\ Cardinality(Entered') <= Cardinality(Requests)
    BY <1>t, <2>2, EnteredCounts
  <2>4. QED
    BY <1>2, <2>1, <2>3, QuotaAnew DEF WriteL1
<1>3. CASE AskWrite(r)
  BY <1>3, <1>g DEF AskWrite, At
<1>4. CASE CallWrite(r)
  <2>1. PICK o : Outcome(b, request[r].ver, o) /\ Goes(r, o)
    BY <1>4 DEF CallWrite
  <2>2. b # 0 /\ b \in Backends
    BY <1>4, RequestAt, Backend DEF CallWrite, At, Shape, Typed
  <2>3. contract'[0] = contract[0]
    BY <2>1, <2>2, <1>t, Backend DEF Outcome, StoreOK, Typed
  <2>4. QED
    BY <1>4, <1>g, <2>1, <2>2, <2>3 DEF CallWrite, At
<1>5. CASE WriteSucceeds(r) \/ SpillSub(r)
  <2>1. b # 0 /\ request[r].why \in Writes /\ contract' = contract /\ Written(r)
          /\ UNCHANGED usageVars
    BY <1>5, <1>t DEF WriteSucceeds, SpillSub, At, Shape
  <2>2. restarts = 0 => contract'[0] # 0
    BY <2>1 DEF QInv, Untouched
  <2>3. PICK p : request' = [request EXCEPT ![r] = p] /\ (Past(p) => Past(request[r]))
    BY <2>1, <1>w
  <2>4. QED
    BY <1>0, <2>1, <2>2, <2>3, NobodyEnters
<1>6. CASE WriteFails(r)
  BY <1>6, <1>g, <1>t DEF WriteFails, Shape
<1>7. QED
  BY <1>1, <1>2, <1>3, <1>4, <1>5, <1>6 DEF Register

LEMMA ReadQuota ==
    ASSUME Typed, QInv, NEW r \in Requests, Read(r)
    PROVE  QInv'
<1> DEFINE b == request[r].b
<1>0. UNCHANGED <<contract, replay, restarts, logged>>
  BY DEF Read, historyVars, logVars
<1>t. RequestsOK /\ request[r] \in Request /\ Shape(request[r])
      /\ counted \in Nat /\ began \in 0 .. counted /\ from \in 0 .. began
  BY DEF Typed, RequestsOK, StoreOK, UsageOK
\* Where a request may move as long as nobody has registered.
<1>u. ASSUME NEW q, request' = [request EXCEPT ![r] = q], q.at \notin {"hit", "record"},
             q.why \in Writes => q.b = 0, UNCHANGED usageVars,
             restarts = 0, contract'[0] = 0
      PROVE  Untouched'
  <2>1. \A s \in Requests : request'[s] = IF s = r THEN q ELSE request[s]
    BY <1>u, <1>t DEF RequestsOK
  <2>2. Untouched
    BY <1>0, <1>u DEF QInv
  <2>3. QED
    BY <1>0, <1>u, <2>1, <2>2 DEF Untouched, usageVars
<1>i. /\ Past(Admitted) /\ Past(Recordable) /\ Past(Defaultable) /\ ~Past(Idle)
      /\ \A q \in {Admitted, Defaultable, Idle} : q.at \notin {"hit", "record"}
                                                   /\ (q.why \in Writes => q.b = 0)
  BY DEF Past, Admitted, Recordable, Defaultable, Idle
<1>v. ASSUME Unanswered(r), request[r].why \in Reads
      PROVE  \E q : /\ request' = [request EXCEPT ![r] = q]
                    /\ q.at \notin {"hit", "record"}
                    /\ q.why \in Writes => q.b = 0
  <2>1. PICK q \in {Admitted, Defaultable} : Onward(r, q)
    BY <1>v DEF Unanswered
  <2>2. QED
    BY <1>v, <1>i, <2>1, OnwardPast
\* Past L1 a request is, and stays, among the entered.
<1>n. ASSUME Unanswered(r), request[r].why \in Reads, Past(request[r]), UNCHANGED usageVars
      PROVE  QInv'
  <2>1. PICK q : /\ request' = [request EXCEPT ![r] = q]
                 /\ q.at \notin {"hit", "record"}
                 /\ q.why \in Writes => q.b = 0
    BY <1>n, <1>v
  <2>2. QED
    BY <1>0, <1>n, <1>u, <2>1, NobodyEnters
<1>1. CASE BeginCompletion(r)
  <2> DEFINE q == [at |-> "ask", why |-> "quota", b |-> 0, ver |-> 0]
  <2>1. request' = [request EXCEPT ![r] = q] /\ UNCHANGED usageVars
    BY <1>1 DEF BeginCompletion, Become
  <2>2. ~Past(q)
    BY DEF Past
  <2>3. QED
    BY <1>0, <1>u, <2>1, <2>2, NobodyEnters
<1>2. CASE ReadL1(r)
  <2>0. UNCHANGED usageVars /\ request[r].why \in Reads
    BY <1>2 DEF ReadL1, At
  \* One enters: the count is below the quota.
  <2>e. ASSUME NEW q, request' = [request EXCEPT ![r] = q],
               restarts = 0 => counted - began <= Quota - 1,
               restarts = 0 /\ contract'[0] = 0 => Untouched'
        PROVE  QInv'
    <3>1. /\ Cardinality(Entered') \in Nat /\ Cardinality(Requests) \in Nat
          /\ Cardinality(Entered') <= Cardinality(Requests)
      BY <2>e, <1>t, EnteredCounts
    <3>2. QED
      BY <1>0, <1>t, <2>0, <2>e, <3>1 DEF QInv, usageVars
  <2>1. CASE contract[0] = 0
    <3>1. PICK q : /\ request' = [request EXCEPT ![r] = q]
                   /\ q.at \notin {"hit", "record"}
                   /\ q.why \in Writes => q.b = 0
      BY <1>2, <1>v, <2>0, <2>1 DEF ReadL1
    <3>2. restarts = 0 => counted - began <= Quota - 1
      BY <1>t, <2>1 DEF QInv, Untouched
    <3>3. restarts = 0 /\ contract'[0] = 0 => Untouched'
      BY <1>u, <2>0, <3>1
    <3>4. QED
      BY <2>e, <3>1, <3>2, <3>3
  <2>2. CASE contract[0] # 0
    <3>1. CASE request[r].why = "contract"
      BY <1>0, <1>2, <2>0, <2>2, <3>1, NobodyEnters DEF ReadL1, Become, Past
    <3>2. CASE request[r].why = "quota" /\ UnderQuota(Usage)
      <4>1. counted - began <= Quota - 1
        BY <3>2, <1>t DEF UnderQuota, Usage
      <4>2. Become(r, Admitted)
        BY <1>2, <2>2, <3>2 DEF ReadL1
      <4>3. QED
        BY <1>0, <2>2, <2>e, <4>1, <4>2 DEF Become
    <3>3. CASE request[r].why = "quota" /\ ~UnderQuota(Usage)
      <4>1. Become(r, Idle)
        BY <1>2, <2>2, <3>3 DEF ReadL1
      <4>2. QED
        BY <1>0, <1>i, <2>0, <2>2, <4>1, NobodyEnters DEF Become
    <3>4. QED
      BY <2>0, <3>1, <3>2, <3>3
  <2>3. QED
    BY <2>1, <2>2
<1>3. CASE AskRead(r)
  <2>1. UNCHANGED usageVars /\ request[r].why \in Reads /\ b # 0 /\ Past(request[r])
    BY <1>3 DEF AskRead, At, Past
  <2>2. CASE Goes(r, "call")
    <3> DEFINE q == [request[r] EXCEPT !.at = "call"]
    <3>1. request' = [request EXCEPT ![r] = q] /\ q.at = "call" /\ q.why = request[r].why
      BY <2>2, <1>t DEF Goes, Become, Request
    <3>2. QED
      BY <1>0, <1>u, <2>1, <3>1, NobodyEnters
  <2>3. QED
    BY <1>3, <1>n, <2>1, <2>2 DEF AskRead
<1>4. CASE CallRead(r)
  <2>1. UNCHANGED usageVars /\ request[r].why \in Reads /\ b # 0 /\ b \in Backends
          /\ Past(request[r])
    BY <1>4, RequestAt, Backend DEF CallRead, At, Past, Shape, Typed
  <2>2. CASE Answers(b, request[r].why)
    <3> DEFINE at == IF contract[b] = 0 THEN "empty" ELSE "hit"
               q == [request[r] EXCEPT !.at = at]
    <3>1. request' = [request EXCEPT ![r] = q] /\ q.at = at /\ q.why = request[r].why
      BY <1>4, <2>2, <1>t DEF CallRead, Goes, Become, Request
    <3>2. restarts = 0 /\ contract'[0] = 0 => at = "empty"
      BY <1>0, <2>1 DEF QInv, Untouched
    <3>3. restarts = 0 /\ contract'[0] = 0 => Untouched'
      BY <1>u, <2>1, <3>1, <3>2
    <3>4. QED
      BY <1>0, <2>1, <3>1, <3>3, NobodyEnters
  <2>3. QED
    BY <1>4, <1>n, <2>1, <2>2 DEF CallRead
<1>5. CASE ReadSucceeds(r)
  <2>1. UNCHANGED usageVars /\ Past(request[r])
    BY <1>5, <1>t DEF ReadSucceeds, Past, Shape
  <2>2. PICK q \in {Admitted, Idle, Recordable, Defaultable} :
          request' = [request EXCEPT ![r] = q]
    BY <1>5 DEF ReadSucceeds, Become
  <2>3. restarts = 0 /\ contract'[0] = 0 => Untouched'
    <3>1. SUFFICES ASSUME restarts = 0, contract'[0] = 0 PROVE Untouched'
      OBVIOUS
    <3>2. request[r].at # "hit"
      BY <1>0, <3>1 DEF QInv, Untouched
    <3>3. \E p \in {Admitted, Idle, Defaultable} : request' = [request EXCEPT ![r] = p]
      BY <1>5, <3>2 DEF ReadSucceeds, Become
    <3>4. QED
      BY <1>i, <1>u, <2>1, <3>1, <3>3
  <2>4. QED
    BY <1>0, <2>1, <2>2, <2>3, NobodyEnters
<1>6. CASE RecordEvent(r)
  <2>1. request' = [request EXCEPT ![r] = Idle] /\ counted' = counted + 1
          /\ (began' = began \/ began' = began + 1)
    BY <1>6 DEF RecordEvent, Become
  <2>2. r \in Entered
    BY <1>6, <1>t DEF RecordEvent, Entered, Past, Shape
  <2>3. /\ Cardinality(Entered') = Cardinality(Entered) - 1
        /\ Cardinality(Entered) \in Nat /\ Cardinality(Requests) \in Nat
    BY <1>i, <1>t, <2>1, <2>2, EnteredCounts
  <2>4. restarts = 0 => contract[0] # 0
    BY <1>6 DEF QInv, Untouched, RecordEvent
  <2>5. QED
    BY <1>0, <1>t, <2>1, <2>3, <2>4 DEF QInv
<1>7. QED
  BY <1>1, <1>2, <1>3, <1>4, <1>5, <1>6 DEF Read

\* Until the first restart, a tenant is counted, in each cycle of a contract since
\* its registration, at most as many completions past its quota as are at once
\* between the check of the quota and the recording of their usage
\* (billing/module.go, under-quota and usage.recorded).
THEOREM QuotaBoundHolds == Spec => []QuotaBound
<1>1. Init => QInv
  <2> SUFFICES ASSUME Init PROVE QInv
    OBVIOUS
  <2>1. Entered = {}
    BY DEF Init, Entered, Past, Idle
  <2>2. Cardinality(Entered) = 0
    BY <2>1, FS_EmptySet
  <2>3. Cardinality(Requests) \in Nat
    BY FS_CardinalityType
  <2>4. Untouched
    BY Backend, InitTyped DEF Init, Untouched, Idle, Typed
  <2>5. counted = 0 /\ began = 0
    BY DEF Init
  <2>6. QED
    BY <2>2, <2>3, <2>4, <2>5 DEF QInv
<1>2. Typed /\ QInv /\ [Next]_vars => QInv'
  <2> SUFFICES ASSUME Typed, QInv, [Next]_vars PROVE QInv'
    OBVIOUS
  <2>s. ASSUME UNCHANGED <<contract, usageVars, request, replay, logged, restarts>>
        PROVE  QInv'
    <3>1. Entered' = Entered
      BY <2>s DEF Entered, Past
    <3>2. Untouched' <=> Untouched
      BY <2>s DEF Untouched, usageVars
    <3>3. QED
      BY <2>s, <3>1, <3>2 DEF QInv, usageVars
  <2>1. CASE Replay
    <3>1. UNCHANGED <<usageVars, request, restarts>>
      BY <2>1 DEF Replay, historyVars
    <3>2. Entered' = Entered
      BY <3>1 DEF Entered, Past
    <3>3. contract'[0] = contract[0]
      <4>1. contract' = contract \/ \E v : contract' = [contract EXCEPT ![replay.b] = v]
        BY <2>1 DEF Replay, ReplayStarts, ReplayAsk, ReplayCall, ReplaySucceeds,
                    ReplayFails, Outcome
      <4>2. contract' # contract => replay.at = "call"
        BY <2>1 DEF Replay, ReplayStarts, ReplayAsk, ReplayCall, ReplaySucceeds, ReplayFails
      <4>3. contract' # contract => replay.b # 0
        BY <4>2, Backend DEF Typed, ReplayOK
      <4>4. QED
        BY <4>1, <4>3, Backend DEF Typed, StoreOK
    <3>4. ~Untouched
      BY <2>1 DEF Untouched, Replay, ReplayStarts, ReplayAsk, ReplayCall, ReplaySucceeds,
                  ReplayFails
    <3>5. QED
      BY <3>1, <3>2, <3>3, <3>4 DEF QInv, usageVars
  <2>2. CASE Environment
    <3>1. UNCHANGED <<contract, request, replay, logged, restarts>>
      BY <2>2 DEF Environment, historyVars, logVars
    <3>2. CASE UNCHANGED usageVars
      BY <2>s, <3>1, <3>2
    <3>3. CASE CycleBegins
      <4>1. Entered' = Entered /\ Entered \subseteq Requests
        BY <3>1 DEF Entered, Past
      <4>2. /\ Cardinality(Entered) \in Nat /\ Cardinality(Requests) \in Nat
            /\ Cardinality(Entered) <= Cardinality(Requests)
        BY <4>1, FS_Subset, FS_CardinalityType
      <4>3. QED
        BY <3>1, <3>3, <4>1, <4>2, QuotaAnew DEF CycleBegins
    <3>4. QED
      BY <2>2, <3>2, <3>3, EnvironmentDoes DEF HealthProbe, ServerChanges, CooldownPasses
  <2>3. CASE Restart
    <3>1. restarts' # 0
      BY <2>3 DEF Restart, Typed, HistoryOK
    <3>2. QED
      BY <3>1 DEF QInv
  <2>4. CASE UNCHANGED vars
    BY <2>4, <2>s DEF vars, historyVars, logVars
  <2>5. QED
    BY <2>1, <2>2, <2>3, <2>4, RegisterQuota, ReadQuota DEF Next
<1>3. Typed /\ QInv => QuotaBound
  <2> SUFFICES ASSUME Typed, QInv PROVE QuotaBound
    OBVIOUS
  <2>1. Entered \subseteq Requests /\ IsFiniteSet(Entered)
    BY FS_Subset DEF Entered
  <2>2. Cardinality(Entered) \in Nat /\ Cardinality(Requests) \in Nat
        /\ counted \in Nat /\ began \in Nat
    BY <2>1, FS_CardinalityType DEF Typed, StoreOK, UsageOK
  <2>3. QED
    BY <2>2 DEF QInv, QuotaBound
<1>4. QED
  BY <1>1, <1>2, <1>3, InitTyped, NextTyped, PTL DEF Spec

-----------------------------------------------------------------------------
(* What a backend that is behind has instead                               *)

\* The latest contract is at the backend, or the log was given it for the backend,
\* or the backend has one that was logged for it.
Kept(b) ==
    \/ contract[b] = issued
    \/ <<b, issued>> \in logged \cup refused
    \/ <<b, contract[b]>> \in spilled

LogOK ==
    /\ logged \subseteq spilled
    /\ \A e \in spilled : e[2] <= issued
    /\ replay.at # "idle" => <<replay.b, replay.ver>> \in spilled
    /\ replay.at = "ok" /\ replay.ver = issued /\ ~torn => contract[replay.b] = issued

\* Without an overlap there is one writer, of the latest contract.
OneWriter ==
    /\ \A r \in Requests : Writing(r) => request[r].ver <= issued
    /\ ~torn => \A r \in Requests : Writing(r) =>
                  /\ request[r].ver = issued
                  /\ \A s \in Requests : Writing(s) => s = r

SettledKept ==
    \A b \in Backends : settled[b] # 0 =>
        /\ ~torn
        /\ settled[b] = issued
        /\ \A r \in Requests : ~Writing(r)
        /\ Kept(b)

\* The writer has left the latest contract behind it.
Passed(q, b) == b < q.b \/ (b = q.b /\ q.at = "ok")

BehindWriter ==
    ~torn => \A r \in Requests : Writing(r) =>
               \A b \in joined : Passed(request[r], b) => Kept(b)

LInv == LogOK /\ OneWriter /\ SettledKept /\ BehindWriter

\* A step that neither makes a contract nor changes who writes what.
LEMMA SameWriters ==
    ASSUME Typed, LInv, LogOK',
           UNCHANGED <<issued, torn, settled, joined>>,
           \A r \in Requests :
             /\ Writing(r)' <=> Writing(r)
             /\ Writing(r) => /\ request'[r].ver = request[r].ver
                              /\ request'[r].b = request[r].b,
           ~torn => \A b \in Backends : Kept(b) => Kept(b)',
           ~torn => \A r \in Requests : Writing(r) /\ request'[r].at = "ok" =>
                      request[r].at = "ok" \/ \A c \in Backends : c = request[r].b => Kept(c)'
    PROVE  LInv'
<1>1. OneWriter'
  BY DEF LInv, OneWriter
<1>2. SettledKept'
  BY DEF LInv, SettledKept
<1>3. BehindWriter'
  <2>1. joined \subseteq Backends
    BY DEF Typed, FlagsOK
  <2>2. QED
    BY <2>1 DEF LInv, BehindWriter, Passed
<1>4. QED
  BY <1>1, <1>2, <1>3 DEF LInv

LEMMA IssueBehind ==
    ASSUME Typed, LInv, NEW r \in Requests, NEW why \in Writes, Issue(r, why),
           UNCHANGED <<serverVars, replay>>, ~Writing(r)
    PROVE  LInv'
<1> DEFINE q == [at |-> "ask", why |-> why, b |-> 0, ver |-> issued + 1]
<1>1. /\ issued' = issued + 1 /\ issued \in Nat
      /\ UNCHANGED <<contract, logged, spilled, refused, replay, joined>>
      /\ settled' = [b \in Backends |-> 0]
  BY Backend DEF Issue, logVars, serverVars, Typed, HistoryOK
<1>2. \A s \in Requests : request'[s] = IF s = r THEN q ELSE request[s]
  BY DEF Issue, Become, Typed, RequestsOK
<1>3. LogOK'
  <2>1. \A e \in spilled : e[2] \in Nat
    BY Backend DEF Typed, StoreOK
  <2>2. replay.at # "idle" => replay.ver <= issued /\ replay.ver \in Nat
    <3>1. replay.ver \in Nat
      BY Backend DEF Typed, ReplayOK, Request
    <3>2. QED
      BY <3>1 DEF LInv, LogOK
  <2>3. \A e \in spilled' : e[2] <= issued'
    BY <1>1, <2>1 DEF LInv, LogOK
  <2>4. ~(replay'.at = "ok" /\ replay'.ver = issued')
    BY <1>1, <2>2
  <2>5. QED
    BY <1>1, <2>3, <2>4 DEF LInv, LogOK
<1>4. \A s \in Requests : Writing(s)' <=> s = r \/ Writing(s)
  BY <1>2 DEF Writing
<1>5. OneWriter'
  <2>1. \A s \in Requests : Writing(s)' => request'[s].ver <= issued'
    <3>1. \A s \in Requests : request[s].ver \in Nat
      BY RequestAt, Backend DEF Typed
    <3>2. QED
      BY <1>1, <1>2, <1>4, <3>1 DEF LInv, OneWriter
  <2>2. torn' = \E s \in Requests \ {r} : Writing(s)
    BY DEF Issue
  <2>3. QED
    BY <1>1, <1>2, <1>4, <2>1, <2>2 DEF OneWriter
<1>6. SettledKept'
  BY <1>1 DEF SettledKept
<1>7. BehindWriter'
  <2>1. torn' = \E s \in Requests \ {r} : Writing(s)
    BY DEF Issue
  <2>2. \A b \in joined' : ~Passed(q, b)
    <3>1. \A b \in joined' : b \in Nat /\ b # 0
      BY <1>1, Backend DEF Typed
    <3>2. QED
      BY <3>1 DEF Passed
  <2>3. QED
    BY <1>2, <1>4, <2>1, <2>2 DEF BehindWriter
<1>8. QED
  BY <1>3, <1>5, <1>6, <1>7 DEF LInv

\* The writer is done with its backend, which keeps the latest contract.
LEMMA WrittenBehind ==
    ASSUME Typed, LInv, NEW r \in Requests, Written(r), Writing(r), LogOK',
           joined' = joined,
           ~torn => \A b \in Backends : Kept(b) => Kept(b)',
           ~torn => \A c \in Backends : c = request[r].b => Kept(c)'
    PROVE  LInv'
<1> DEFINE b == request[r].b
           end == IF request[r].why = "default" THEN Recordable ELSE Idle
<1>1. UNCHANGED <<issued, torn>> /\ torn \in BOOLEAN
  BY DEF Written, Typed, HistoryOK
<1>t. request[r] \in Request /\ b \in Nat /\ joined \subseteq Backends
        /\ request[r].ver # 0
  BY RequestAt, Backend DEF Typed, FlagsOK, Writing, Shape
<1>2. \/ Deeper(b) = {} /\ request' = [request EXCEPT ![r] = end]
      \/ \E c \in Deeper(b) :
           /\ \A d \in Deeper(b) : c <= d
           /\ request' = [request EXCEPT ![r] = [request[r] EXCEPT !.at = "ask", !.b = c]]
  <2>1. Onward(r, end)
    BY DEF Written
  <2>2. QED
    BY <2>1, OnwardStep, TypedIsTypeOK
\* What it has passed, it has left with the contract.
<1>3. ~torn => \A c \in joined : c <= b => Kept(c)'
  <2>1. SUFFICES ASSUME ~torn, NEW c \in joined, c <= b PROVE Kept(c)'
    OBVIOUS
  <2>2. c \in Nat /\ c # 0 /\ c \in Backends
    BY <1>t, Backend DEF Typed
  <2>3. CASE c = b
    BY <2>1, <2>2, <2>3
  <2>4. CASE c < b
    BY <1>t, <2>1, <2>2, <2>4 DEF LInv, BehindWriter, Passed
  <2>5. QED
    BY <1>t, <2>1, <2>2, <2>3, <2>4
<1>4. CASE Deeper(b) = {}
  <2>1. request' = [request EXCEPT ![r] = end]
    BY <1>2, <1>4
  <2>2. \A s \in Requests : request'[s] = IF s = r THEN end ELSE request[s]
    BY <2>1 DEF Typed, RequestsOK
  <2>3. end.at = "idle" \/ end.why \notin Writes
    BY DEF Idle, Recordable, Admitted
  <2>4. \A s \in Requests : Writing(s)' <=> s # r /\ Writing(s)
    BY <2>2, <2>3 DEF Writing
  <2>5. OneWriter'
    BY <1>1, <2>2, <2>4 DEF LInv, OneWriter
  <2>6. BehindWriter'
    BY <1>1, <2>4 DEF LInv, OneWriter, BehindWriter
  <2>7. SettledKept'
    <3>1. CASE torn
      BY <1>1, <1>4, <3>1 DEF LInv, SettledKept, Written
    <3>2. CASE ~torn
      <4>1. settled' = [c \in Backends |-> IF c \in joined THEN request[r].ver ELSE 0]
        BY <1>4, <3>2 DEF Written
      <4>2. request[r].ver = issued /\ \A s \in Requests : ~Writing(s)'
        BY <2>4, <3>2 DEF LInv, OneWriter
      <4>3. ASSUME NEW c \in joined PROVE c <= b
        <5>1. c \in Nat
          BY <1>t, Backend
        <5>2. ~(c > b)
          BY <1>4 DEF Deeper
        <5>3. QED
          BY <1>t, <5>1, <5>2
      <4>4. QED
        BY <1>1, <1>3, <3>2, <4>1, <4>2, <4>3 DEF SettledKept
    <3>3. QED
      BY <3>1, <3>2
  <2>8. QED
    BY <2>5, <2>6, <2>7 DEF LInv
<1>5. CASE Deeper(b) # {}
  <2>1. PICK c \in Deeper(b) :
          /\ \A d \in Deeper(b) : c <= d
          /\ request' = [request EXCEPT ![r] = [request[r] EXCEPT !.at = "ask", !.b = c]]
    BY <1>2, <1>5
  <2> DEFINE q == [request[r] EXCEPT !.at = "ask", !.b = c]
  <2>2. q.at = "ask" /\ q.b = c /\ q.why = request[r].why /\ q.ver = request[r].ver
    BY <1>t DEF Request
  <2>3. \A s \in Requests : request'[s] = IF s = r THEN q ELSE request[s]
    BY <2>1 DEF Typed, RequestsOK
  <2> HIDE DEF q
  <2>4. \A s \in Requests : Writing(s)' <=> Writing(s)
    BY <2>2, <2>3 DEF Writing
  <2>5. OneWriter'
    BY <1>1, <2>2, <2>3, <2>4 DEF LInv, OneWriter
  <2>6. \A d \in Backends : settled'[d] = 0
    BY <1>5 DEF LInv, SettledKept, Written
  <2>7. SettledKept'
    BY <2>6 DEF SettledKept
  <2>8. BehindWriter'
    <3>1. SUFFICES ASSUME ~torn, NEW d \in joined, Passed(q, d) PROVE Kept(d)'
      BY <1>1, <2>3, <2>4 DEF LInv, OneWriter, BehindWriter
    <3>2. d < c /\ d \in Nat /\ c \in Nat
      BY <1>t, <2>2, <3>1, Backend DEF Passed, Deeper, Typed
    <3>3. d \notin Deeper(b)
      BY <2>1, <3>2
    <3>4. d <= b
      BY <1>t, <3>2, <3>3 DEF Deeper
    <3>5. QED
      BY <1>3, <3>1, <3>4
  <2>9. QED
    BY <2>5, <2>7, <2>8 DEF LInv
<1>6. QED
  BY <1>4, <1>5

LEMMA RegisterBehind ==
    ASSUME Typed, LInv, NEW r \in Requests, Register(r)
    PROVE  LInv'
<1> DEFINE b == request[r].b
           v == request[r].ver
<1>0. UNCHANGED <<serverVars, replay>> /\ joined' = joined
  BY DEF Register, serverVars
<1>t. RequestsOK /\ request[r] \in Request /\ Shape(request[r]) /\ v \in Contracts
  BY RequestAt DEF Typed, RequestsOK
<1>r. replay.at # "idle" => replay.b \in Backends
  BY DEF Typed, ReplayOK, FlagsOK
<1>1. CASE BeginRegister(r)
  BY <1>0, <1>1, IssueBehind DEF BeginRegister, Writing
<1>2. CASE BeginDefault(r)
  BY <1>0, <1>2, IssueBehind DEF BeginDefault, Writing, At
\* A step from at to at, of the same request at the same backend.
<1>g. ASSUME NEW at, Goes(r, at), at # "idle", request[r].at # "idle", request[r].why \in Writes,
             UNCHANGED <<issued, torn, settled>>, LogOK',
             ~torn => \A c \in Backends : Kept(c) => Kept(c)',
             ~torn /\ at = "ok" => \A c \in Backends : c = b => Kept(c)'
      PROVE  LInv'
  <2>1. \A s \in Requests : request'[s] = IF s = r THEN [request[r] EXCEPT !.at = at] ELSE request[s]
    BY <1>g, <1>t DEF Goes, Become, RequestsOK
  <2>2. /\ request'[r].at = at /\ request'[r].why = request[r].why
        /\ request'[r].b = b /\ request'[r].ver = v
    BY <2>1, <1>t DEF Request
  <2>3. \A s \in Requests : Writing(s)' <=> Writing(s)
    BY <1>g, <2>1, <2>2 DEF Writing
  <2>4. QED
    BY <1>0, <1>g, <2>1, <2>2, <2>3, SameWriters
<1>3. CASE WriteL1(r)
  <2>1. b = 0 /\ UNCHANGED <<issued, logged, spilled, refused, torn>>
          /\ \A c \in Backends : contract'[c] = contract[c]
    BY <1>3, Backend DEF WriteL1, Written, logVars, Typed, StoreOK
  <2>2. LogOK' /\ \A c \in Backends : Kept(c)' <=> Kept(c)
    BY <1>0, <1>r, <2>1 DEF LInv, LogOK, Kept
  <2>3. QED
    BY <1>0, <1>3, <2>1, <2>2, WrittenBehind DEF WriteL1, Writing, At
<1>4. CASE AskWrite(r)
  <2>1. UNCHANGED <<contract, logged, spilled, refused, issued, torn, settled>>
    BY <1>4 DEF AskWrite, logVars, historyVars
  <2>2. LogOK' /\ \A c \in Backends : Kept(c)' <=> Kept(c)
    BY <1>0, <2>1 DEF LInv, LogOK, Kept
  <2>3. \E at \in {"call", "spill"} : Goes(r, at)
    BY <1>4 DEF AskWrite
  <2>4. QED
    BY <1>4, <1>g, <2>1, <2>2, <2>3 DEF AskWrite, At
<1>5. CASE CallWrite(r)
  <2>1. PICK o \in {"ok", "refused", "broken"} : Outcome(b, v, o) /\ Goes(r, o)
    BY <1>5 DEF CallWrite
  <2>2. /\ UNCHANGED <<logged, spilled, refused, issued, torn, settled>>
        /\ b \in Backends /\ request[r].at = "call" /\ request[r].why \in Writes
    BY <1>5, RequestAt, Backend DEF CallWrite, logVars, historyVars, At, Shape, Typed
  <2>3. Writing(r) /\ (~torn => v = issued)
    BY <2>2 DEF Writing, LInv, OneWriter
  <2>4. /\ contract' = contract \/ contract' = [contract EXCEPT ![b] = v]
        /\ o = "ok" => contract' = [contract EXCEPT ![b] = v]
    BY <2>1 DEF Outcome
  <2>5. /\ \A c \in Backends : contract'[c] = contract[c] \/ (c = b /\ contract'[c] = v)
        /\ o = "ok" => contract'[b] = v
    BY <2>2, <2>4, Backend DEF Typed, StoreOK
  <2>6. LogOK'
    BY <1>0, <1>r, <2>2, <2>3, <2>5 DEF LInv, LogOK
  <2>7. /\ ~torn => \A c \in Backends : Kept(c) => Kept(c)'
        /\ ~torn /\ o = "ok" => \A c \in Backends : c = b => Kept(c)'
    BY <2>2, <2>3, <2>5 DEF Kept
  <2>8. QED
    BY <1>g, <2>1, <2>2, <2>6, <2>7
<1>6. CASE WriteSucceeds(r)
  <2>1. /\ UNCHANGED <<contract, logged, spilled, refused, issued, torn>>
        /\ request[r].at = "ok" /\ Writing(r) /\ b \in joined
    BY <1>6, <1>t DEF WriteSucceeds, Written, logVars, At, Writing, Shape
  <2>2. LogOK' /\ \A c \in Backends : Kept(c)' <=> Kept(c)
    BY <1>0, <2>1 DEF LInv, LogOK, Kept
  <2>3. ~torn => Kept(b)
    BY <2>1 DEF LInv, BehindWriter, Passed
  <2>4. b \in Backends
    BY <2>1, Backend DEF Typed
  <2>5. QED
    BY <1>0, <1>6, <2>1, <2>2, <2>3, <2>4, WrittenBehind DEF WriteSucceeds
<1>7. CASE WriteFails(r)
  <2>1. /\ UNCHANGED <<contract, logged, spilled, refused, issued, torn, settled>>
        /\ request[r].at \in {"refused", "broken"} /\ request[r].why \in Writes
        /\ Goes(r, "spill")
    BY <1>7, <1>t DEF WriteFails, logVars, historyVars, Shape
  <2>2. LogOK' /\ \A c \in Backends : Kept(c)' <=> Kept(c)
    BY <1>0, <2>1 DEF LInv, LogOK, Kept
  <2>3. QED
    BY <1>g, <2>1, <2>2
<1>8. CASE SpillSub(r)
  <2>1. /\ UNCHANGED <<contract, issued, torn>>
        /\ \/ /\ logged' = logged \cup {<<b, v>>} /\ spilled' = spilled \cup {<<b, v>>}
              /\ refused' = refused
           \/ refused' = refused \cup {<<b, v>>} /\ UNCHANGED <<logged, spilled>>
        /\ Writing(r)
    BY <1>8 DEF SpillSub, Written, At, Writing
  <2>2. v <= issued /\ (~torn => v = issued)
    BY <2>1 DEF LInv, OneWriter
  <2>3. LogOK'
    BY <1>0, <2>1, <2>2 DEF LInv, LogOK
  <2>4. /\ \A c \in Backends : Kept(c) => Kept(c)'
        /\ ~torn => \A c \in Backends : c = b => Kept(c)'
    BY <2>1, <2>2 DEF Kept
  <2>5. QED
    BY <1>0, <1>8, <2>1, <2>3, <2>4, WrittenBehind DEF SpillSub
<1>9. QED
  BY <1>1, <1>2, <1>3, <1>4, <1>5, <1>6, <1>7, <1>8 DEF Register

LEMMA ReadBehind ==
    ASSUME Typed, LInv, NEW r \in Requests, Read(r)
    PROVE  LInv'
<1>1. UNCHANGED <<contract, logged, spilled, refused, replay, issued, torn, settled, joined>>
  BY DEF Read, logVars, historyVars, serverVars
<1>t. RequestsOK /\ request[r] \in Request /\ Shape(request[r])
  BY DEF Typed, RequestsOK
<1>2. ~Writing(r)
  BY <1>t DEF Read, BeginCompletion, ReadL1, AskRead, CallRead, ReadSucceeds, RecordEvent,
              At, Writing, Shape
<1>3. \E q : request' = [request EXCEPT ![r] = q] /\ (q.at = "idle" \/ q.why \notin Writes)
  <2>1. \A q \in {Admitted, Recordable, Defaultable, Idle} : q.at = "idle" \/ q.why \notin Writes
    BY DEF Admitted, Recordable, Defaultable, Idle
  <2>2. ASSUME Unanswered(r), request[r].why \in Reads
        PROVE  \E q : request' = [request EXCEPT ![r] = q] /\ (q.at = "idle" \/ q.why \notin Writes)
    <3>1. PICK q \in {Admitted, Defaultable} : Onward(r, q)
      BY <2>2 DEF Unanswered
    <3>2. QED
      BY <2>1, <2>2, <3>1, OnwardPast
  <2>3. ASSUME NEW at, Goes(r, at), request[r].why \in Reads
        PROVE  \E q : request' = [request EXCEPT ![r] = q] /\ (q.at = "idle" \/ q.why \notin Writes)
    <3>1. [request[r] EXCEPT !.at = at].why \in Reads
      BY <2>3, <1>t DEF Request
    <3>2. QED
      BY <2>3, <3>1 DEF Goes, Become
  <2>4. ASSUME \E q \in {Admitted, Recordable, Defaultable, Idle} : Become(r, q)
        PROVE  \E q : request' = [request EXCEPT ![r] = q] /\ (q.at = "idle" \/ q.why \notin Writes)
    BY <2>1, <2>4 DEF Become
  <2>5. CASE BeginCompletion(r)
    <3> DEFINE q == [at |-> "ask", why |-> "quota", b |-> 0, ver |-> 0]
    <3>1. request' = [request EXCEPT ![r] = q] /\ q.why \notin Writes
      BY <2>5 DEF BeginCompletion, Become
    <3>2. QED
      BY <3>1
  <2>6. CASE ReadL1(r)
    BY <2>6, <2>2, <2>4 DEF ReadL1, At
  <2>7. CASE AskRead(r)
    BY <2>7, <2>2, <2>3 DEF AskRead, At
  <2>8. CASE CallRead(r)
    BY <2>8, <2>2, <2>3 DEF CallRead, At
  <2>9. CASE ReadSucceeds(r)
    BY <2>9, <2>4 DEF ReadSucceeds
  <2>10. CASE RecordEvent(r)
    BY <2>10, <2>4 DEF RecordEvent
  <2>11. QED
    BY <2>5, <2>6, <2>7, <2>8, <2>9, <2>10 DEF Read
<1>4. PICK q : request' = [request EXCEPT ![r] = q] /\ (q.at = "idle" \/ q.why \notin Writes)
  BY <1>3
<1>5. \A s \in Requests : request'[s] = IF s = r THEN q ELSE request[s]
  BY <1>4, <1>t DEF RequestsOK
<1>6. \A s \in Requests : /\ Writing(s)' <=> Writing(s)
                          /\ Writing(s) => request'[s] = request[s]
  BY <1>2, <1>4, <1>5 DEF Writing
<1>7. LogOK' /\ \A c \in Backends : Kept(c)' <=> Kept(c)
  BY <1>1 DEF LInv, LogOK, Kept
<1>8. QED
  BY <1>1, <1>6, <1>7, SameWriters

LEMMA ReplayBehind ==
    ASSUME Typed, LInv, Replay
    PROVE  LInv'
<1> DEFINE b == replay.b
           v == replay.ver
<1>0. UNCHANGED <<request, issued, torn, settled, joined>>
  BY DEF Replay, historyVars, serverVars
<1>t. /\ replay \in Request /\ (replay.at # "idle" => b \in Backends)
      /\ contract \in [Holder -> Contracts]
  BY DEF Typed, ReplayOK, FlagsOK, StoreOK
<1>i. Idle.at = "idle"
  BY DEF Idle
<1>s. ASSUME LogOK', ~torn => \A c \in Backends : Kept(c) => Kept(c)' PROVE LInv'
  BY <1>0, <1>s, SameWriters DEF Writing
<1>1. CASE \E c \in Backends, w \in Contracts : ReplayStarts(c, w)
  BY <1>0, <1>1, <1>s DEF ReplayStarts, logVars, LInv, LogOK, Kept
<1>2. CASE ReplayAsk
  <2>1. replay'.at \in {"call", "idle"} /\ (replay'.at = "call" => replay'.b = b /\ replay'.ver = v)
    BY <1>2, <1>i, <1>t DEF ReplayAsk, Request
  <2>2. QED
    BY <1>0, <1>2, <1>s, <2>1 DEF ReplayAsk, logVars, LInv, LogOK, Kept
<1>3. CASE ReplayCall
  <2>1. PICK o \in {"ok", "refused", "broken"} :
          Outcome(b, v, o) /\ replay' = [replay EXCEPT !.at = o]
    BY <1>3 DEF ReplayCall
  <2>2. replay'.at = o /\ replay'.b = b /\ replay'.ver = v
    BY <2>1, <1>t DEF Request
  <2>3. UNCHANGED <<logged, spilled, refused>> /\ b \in Backends /\ <<b, v>> \in spilled
    BY <1>3, <1>t DEF ReplayCall, logVars, LInv, LogOK
  <2>4. /\ contract' = contract \/ contract' = [contract EXCEPT ![b] = v]
        /\ o = "ok" => contract' = [contract EXCEPT ![b] = v]
    BY <2>1 DEF Outcome
  <2>5. /\ \A c \in Backends : contract'[c] = contract[c] \/ (c = b /\ contract'[c] = v)
        /\ o = "ok" => contract'[b] = v
    BY <2>3, <2>4, <1>t, Backend DEF Typed
  <2>6. QED
    BY <1>0, <1>s, <2>2, <2>3, <2>5 DEF LInv, LogOK, Kept
<1>4. CASE ReplaySucceeds
  <2>1. /\ contract' = contract /\ UNCHANGED <<spilled, refused>> /\ replay'.at = "idle"
        /\ logged' = logged \/ logged' = logged \ {<<b, v>>}
    BY <1>4, <1>i DEF ReplaySucceeds
  <2>2. LogOK'
    BY <1>0, <2>1 DEF LInv, LogOK
  <2>3. ASSUME ~torn, NEW c \in Backends, Kept(c) PROVE Kept(c)'
    <3>1. CASE <<c, issued>> = <<b, v>>
      <4>1. contract[c] = issued
        BY <1>4, <2>3, <3>1 DEF ReplaySucceeds, LInv, LogOK
      <4>2. QED
        BY <1>0, <2>1, <4>1 DEF Kept
    <3>2. CASE <<c, issued>> # <<b, v>>
      BY <1>0, <2>1, <2>3, <3>2 DEF Kept
    <3>3. QED
      BY <3>1, <3>2
  <2>4. QED
    BY <1>s, <2>2, <2>3
<1>5. CASE ReplayFails
  BY <1>0, <1>5, <1>s, <1>i DEF ReplayFails, logVars, LInv, LogOK, Kept
<1>6. QED
  BY <1>1, <1>2, <1>3, <1>4, <1>5 DEF Replay

\* After a registration that no other overlapped, a backend that does not hold its
\* contract has it in the log, or the log refused it, or it holds one that was
\* replayed from the log over it (RegisterServiceSubscription, walAppendSub and
\* replayWALEntry in metering_chain.go).
THEOREM BehindIsLoggedHolds == Spec => []BehindIsLogged
<1>1. Init => LInv
  BY Backend, InitTyped
     DEF Init, LInv, LogOK, OneWriter, SettledKept, BehindWriter, Writing, Idle
<1>2. Typed /\ LInv /\ [Next]_vars => LInv'
  <2> SUFFICES ASSUME Typed, LInv, [Next]_vars PROVE LInv'
    OBVIOUS
  <2>s. ASSUME UNCHANGED <<contract, request, replay, logged, spilled, refused, issued, torn,
                           settled, joined>>
        PROVE  LInv'
    BY <2>s, SameWriters DEF LInv, LogOK, Kept, Writing
  <2>1. CASE Environment
    BY <2>1, <2>s DEF Environment, logVars, historyVars
  <2>2. CASE Restart
    <3>1. /\ UNCHANGED <<logged, spilled, refused, issued, torn, settled>> /\ replay' = Idle
          /\ \A b \in Backends : contract'[b] = contract[b]
      BY <2>2, Backend DEF Restart, logVars, Typed, StoreOK
    <3>2. \A r \in Requests : ~Writing(r)'
      BY <2>2 DEF Restart, Writing, Idle
    <3>3. LogOK' /\ \A b \in Backends : Kept(b)' <=> Kept(b)
      BY <3>1 DEF LInv, LogOK, Kept, Idle
    <3>4. QED
      BY <3>1, <3>2, <3>3 DEF LInv, OneWriter, SettledKept, BehindWriter
  <2>3. CASE UNCHANGED vars
    BY <2>3, <2>s DEF vars, logVars, historyVars, serverVars
  <2>4. QED
    BY <2>1, <2>2, <2>3, RegisterBehind, ReadBehind, ReplayBehind DEF Next
<1>3. LInv => BehindIsLogged
  BY DEF LInv, SettledKept, Kept, BehindIsLogged
<1>4. QED
  BY <1>1, <1>2, <1>3, InitTyped, NextTyped, PTL DEF Spec
=============================================================================
