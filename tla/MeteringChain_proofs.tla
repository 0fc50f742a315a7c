------------------------ MODULE MeteringChain_proofs -------------------------
(***************************************************************************)
(* Proofs about MeteringChain, for any number of backends, events and      *)
(* callers, any channel size and any breaker threshold.                    *)
(***************************************************************************)
EXTENDS MeteringChain, FiniteSetTheorems, TLAPS

USE ChainAssumption

-----------------------------------------------------------------------------
(* The methods of a breaker *)

\* Each method leaves a breaker a breaker.
LEMMA BreakerFunctionsType ==
    ASSUME NEW b \in Breaker
    PROVE  /\ AfterAllow(b) \in Breaker
           /\ RecordSuccess(b) \in Breaker
           /\ RecordFailure(b) \in Breaker
           /\ Cool(b) \in Breaker
<1> USE DEF CircuitState
<1>1. AfterAllow(b) \in Breaker
  BY DEF Breaker, AfterAllow
<1>2. RecordSuccess(b) \in Breaker
  BY ThresholdAssumption DEF Breaker, RecordSuccess
<1>3. RecordFailure(b) \in Breaker
  <2>1. CASE Trips(b)
    BY <2>1, ThresholdAssumption DEF Breaker, RecordFailure
  <2>2. CASE ~Trips(b)
    <3>1. b.failures + 1 \in 0 .. Threshold - 1
      BY <2>2, ThresholdAssumption DEF Breaker, Trips
    <3>2. QED
      BY <2>2, <3>1 DEF Breaker, RecordFailure
  <2>3. QED
    BY <2>1, <2>2
<1>4. Cool(b) \in Breaker
  BY DEF Breaker, Cool
<1>5. QED
  BY <1>1, <1>2, <1>3, <1>4

-----------------------------------------------------------------------------
(* Type correctness *)

LEMMA InitTypeOK == Init => TypeOK
<1> SUFFICES ASSUME Init PROVE TypeOK
  OBVIOUS
<1> USE DEF Init
<1>1. seen \subseteq Events /\ memory \in [Events -> Nat] /\ owed \subseteq Events \ Unnamed
  OBVIOUS
<1>2. /\ producer \in [Producers -> [at : ProducerState, ev : Events \cup {NoEvent},
                                     todo : SUBSET Backends]]
      /\ \A p \in Producers : producer[p].at # "idle" => producer[p].ev \in Events
  BY DEF IdleProducer, ProducerState
<1>3. breaker \in [Backends -> Breaker]
  BY ThresholdAssumption DEF NewBreaker, Breaker, CircuitState
<1>4. chan \in [Backends -> Seq(Events)] /\ store \in [Backends -> SUBSET Events]
  OBVIOUS
<1>5. /\ worker \in [Backends -> [at : WorkerState, ev : Events \cup {NoEvent}]]
      /\ \A b \in Backends : worker[b].at \notin {"recv", "exited"} => worker[b].ev \in Events
  BY DEF IdleWorker, WorkerState
<1>6. /\ replay \in [at : ReplayState, entry : Entry \cup {<<>>}]
      /\ replay.at # "idle" => replay.entry \in Entry
  BY DEF IdleReplay, ReplayState
<1>7. /\ logged \subseteq Entry /\ delivered \subseteq Entry /\ refused \subseteq Entry
      /\ stop \in {"running", "draining", "stopped"} /\ prunes \in 0 .. MaxPrunes
  OBVIOUS
<1>8. forced \in BOOLEAN
  OBVIOUS
<1>9. QED
  BY <1>1, <1>2, <1>3, <1>4, <1>5, <1>6, <1>7, <1>8 DEF TypeOK

\* Asking a breaker and reporting to it.
LEMMA BreakersType ==
    ASSUME TypeOK, NEW b \in Backends, Ask(b) \/ ReportSuccess(b) \/ ReportFailure(b)
    PROVE  breaker' \in [Backends -> Breaker]
<1>1. breaker[b] \in Breaker /\ breaker \in [Backends -> Breaker]
  BY DEF TypeOK
<1>2. /\ AfterAllow(breaker[b]) \in Breaker
      /\ RecordSuccess(breaker[b]) \in Breaker
      /\ RecordFailure(breaker[b]) \in Breaker
  BY <1>1, BreakerFunctionsType
<1>3. QED
  BY <1>1, <1>2 DEF Ask, ReportSuccess, ReportFailure

LEMMA CallBackendType ==
    ASSUME TypeOK, NEW b \in Backends, NEW e \in Events, NEW outcome, CallBackend(b, e, outcome)
    PROVE  store' \in [Backends -> SUBSET Events] /\ outcome \in {"ok", "failed"}
<1>1. outcome \in {"ok", "failed"}
  BY DEF CallBackend
<1>2. store' = store \/ store' = [store EXCEPT ![b] = @ \cup {e}]
  BY DEF CallBackend
<1>3. store \in [Backends -> SUBSET Events] /\ store[b] \cup {e} \in SUBSET Events
  BY DEF TypeOK
<1>4. QED
  BY <1>1, <1>2, <1>3

LEMMA WalAppendType ==
    ASSUME TypeOK, NEW b \in Backends, NEW e \in Events, WalAppendEvent(b, e)
    PROVE  logged' \subseteq Entry /\ delivered' \subseteq Entry /\ refused' \subseteq Entry
BY DEF TypeOK, WalAppendEvent, logVars, Log!Log, Entry

LEMMA AdvancedType ==
    ASSUME TypeOK, NEW p \in Producers, NEW b \in Backends, producer[p].at # "idle"
    PROVE  /\ Advanced(p, b) \in [at : ProducerState, ev : Events \cup {NoEvent},
                                  todo : SUBSET Backends]
           /\ Advanced(p, b).at # "idle" => Advanced(p, b).ev \in Events
<1>1. CASE producer[p].todo = {b}
  BY <1>1 DEF Advanced, IdleProducer, ProducerState
<1>2. CASE producer[p].todo # {b}
  <2>1. /\ producer[p] \in [at : ProducerState, ev : Events \cup {NoEvent},
                            todo : SUBSET Backends]
        /\ producer[p].ev \in Events
    BY DEF TypeOK
  <2>2. Advanced(p, b) = [at |-> "gate", ev |-> producer[p].ev,
                          todo |-> producer[p].todo \ {b}]
    BY <1>2, <2>1 DEF Advanced
  <2>3. QED
    BY <2>1, <2>2 DEF ProducerState
<1>3. QED
  BY <1>1, <1>2

\* The three parts of the state that change together, typed part by part.
ProducerOK ==
    /\ producer \in [Producers -> [at : ProducerState, ev : Events \cup {NoEvent},
                                   todo : SUBSET Backends]]
    /\ \A p \in Producers : producer[p].at # "idle" => producer[p].ev \in Events

WorkerOK ==
    /\ worker \in [Backends -> [at : WorkerState, ev : Events \cup {NoEvent}]]
    /\ \A b \in Backends : worker[b].at \notin {"recv", "exited"} => worker[b].ev \in Events

ReplayOK ==
    /\ replay \in [at : ReplayState, entry : Entry \cup {<<>>}]
    /\ replay.at # "idle" => replay.entry \in Entry

RestOK ==
    /\ seen \subseteq Events
    /\ memory \in [Events -> Nat]
    /\ breaker \in [Backends -> Breaker]
    /\ chan \in [Backends -> Seq(Events)]
    /\ logged \subseteq Entry
    /\ delivered \subseteq Entry
    /\ refused \subseteq Entry
    /\ store \in [Backends -> SUBSET Events]
    /\ stop \in {"running", "draining", "stopped"}
    /\ owed \subseteq Events \ Unnamed
    /\ prunes \in 0 .. MaxPrunes

FlagsOK == forced \in BOOLEAN

LEMMA TypeParts ==
    /\ TypeOK <=> ProducerOK /\ WorkerOK /\ ReplayOK /\ RestOK /\ FlagsOK
    /\ TypeOK' <=> ProducerOK' /\ WorkerOK' /\ ReplayOK' /\ RestOK' /\ FlagsOK'
BY DEF TypeOK, ProducerOK, WorkerOK, ReplayOK, RestOK, FlagsOK

\* One caller moves on to a well-formed state.
LEMMA SetProducer ==
    ASSUME ProducerOK, NEW p \in Producers,
           NEW x \in [at : ProducerState, ev : Events \cup {NoEvent}, todo : SUBSET Backends],
           x.at # "idle" => x.ev \in Events,
           producer' = [producer EXCEPT ![p] = x]
    PROVE  ProducerOK'
BY DEF ProducerOK

LEMMA RecordTypeOK ==
    ASSUME TypeOK, NEW p \in Producers, Record(p)
    PROVE  TypeOK'
<1> USE DEF chainVars, logVars, stopVars
<1>1. FlagsOK'
  BY TypeParts DEF Record, WriteL1, Gate, Send, Spill, SendOnClosed, FlagsOK
<1>2. WorkerOK' /\ ReplayOK'
  BY TypeParts DEF Record, WriteL1, Gate, Send, Spill, SendOnClosed, WorkerOK, ReplayOK
<1>3. producer[p] \in [at : ProducerState, ev : Events \cup {NoEvent}, todo : SUBSET Backends]
  BY DEF TypeOK
<1>4. ASSUME WriteL1(p) PROVE ProducerOK' /\ RestOK'
  <2>1. producer[p].ev \in Events
    BY <1>4 DEF WriteL1, TypeOK
  <2>2. ProducerOK'
    BY <1>4, <2>1 DEF WriteL1, TypeOK, ProducerOK, ProducerState
  <2>3. RestOK'
    BY <1>4, <2>1 DEF WriteL1, TypeOK, RestOK
  <2>4. QED
    BY <2>2, <2>3
<1>5. ASSUME NEW b \in Backends, Gate(p, b) PROVE ProducerOK' /\ RestOK'
  <2>1. ProducerOK'
    BY <1>5, <1>3, AdvancedType DEF Gate, TypeOK, ProducerOK, ProducerState
  <2>2. breaker' \in [Backends -> Breaker]
    BY <1>5, BreakersType DEF Gate
  <2>3. RestOK'
    BY <1>5, <2>2 DEF Gate, TypeOK, RestOK
  <2>4. QED
    BY <2>1, <2>3
<1>6. ASSUME NEW b \in Backends, Send(p, b) PROVE ProducerOK' /\ RestOK'
  <2>1. ProducerOK'
    <3>1. CASE producer' = [producer EXCEPT ![p] = Advanced(p, b)]
      BY <1>6, <3>1, AdvancedType, SetProducer, TypeParts DEF Send
    <3>2. CASE producer' = [producer EXCEPT ![p].at = "spill"]
      <4>1. producer[p].ev \in Events
        BY <1>6 DEF Send, TypeOK
      <4>2. producer' = [producer EXCEPT ![p] = [producer[p] EXCEPT !.at = "spill"]]
        BY <3>2
      <4>3. [producer[p] EXCEPT !.at = "spill"] =
              [at |-> "spill", ev |-> producer[p].ev, todo |-> producer[p].todo]
        BY <1>3
      <4>4. QED
        BY <1>3, <4>1, <4>2, <4>3, SetProducer, TypeParts DEF ProducerState
    <3>3. QED
      BY <1>6, <3>1, <3>2 DEF Send
  <2>2. chan' \in [Backends -> Seq(Events)]
    <3>1. producer[p].ev \in Events
      BY <1>6 DEF Send, TypeOK
    <3>2. \/ chan' = chan
          \/ chan' = [chan EXCEPT ![b] = Append(chan[b], producer[p].ev)]
      BY <1>6 DEF Send
    <3>3. chan \in [Backends -> Seq(Events)]
      BY DEF TypeOK
    <3>4. Append(chan[b], producer[p].ev) \in Seq(Events)
      BY <3>1, <3>3
    <3>5. QED
      BY <3>2, <3>3, <3>4
  <2>3. RestOK'
    BY <1>6, <2>2 DEF Send, TypeOK, RestOK
  <2>4. QED
    BY <2>1, <2>3
<1>7. ASSUME NEW b \in Backends, Spill(p, b) PROVE ProducerOK' /\ RestOK'
  <2>1. ProducerOK'
    BY <1>7, <1>3, AdvancedType DEF Spill, TypeOK, ProducerOK, ProducerState
  <2>2. producer[p].ev \in Events
    BY <1>7 DEF Spill, TypeOK
  <2>3. logged' \subseteq Entry /\ delivered' \subseteq Entry /\ refused' \subseteq Entry
    BY <1>7, <2>2, WalAppendType DEF Spill
  <2>4. RestOK'
    BY <1>7, <2>3 DEF Spill, TypeOK, RestOK
  <2>5. QED
    BY <2>1, <2>4
<1>8. ASSUME SendOnClosed(p) PROVE ProducerOK' /\ RestOK'
  <2>1. ProducerOK'
    BY <1>8 DEF SendOnClosed, TypeOK, ProducerOK, ProducerState, IdleProducer
  <2>2. RestOK'
    BY <1>8 DEF SendOnClosed, TypeOK, RestOK
  <2>3. QED
    BY <2>1, <2>2
<1>9. ProducerOK' /\ RestOK'
  BY ONLY Record(p), <1>4, <1>5, <1>6, <1>7, <1>8, Zenon DEF Record
<1>10. QED
  BY <1>1, <1>2, <1>9, TypeParts

LEMMA WorkTypeOK ==
    ASSUME TypeOK, NEW b \in Backends, Work(b)
    PROVE  TypeOK'
<1> USE DEF chainVars, logVars, stopVars
<1>1. FlagsOK'
  BY TypeParts DEF Work, Receive, WorkerGate, WorkerWrite, WorkerSucceeds, WorkerFails,
                   WorkerSpill, WorkerExits, FlagsOK
<1>2. ProducerOK' /\ ReplayOK'
  BY TypeParts DEF Work, Receive, WorkerGate, WorkerWrite, WorkerSucceeds, WorkerFails,
                   WorkerSpill, WorkerExits, ProducerOK, ReplayOK
<1>3. /\ worker \in [Backends -> [at : WorkerState, ev : Events \cup {NoEvent}]]
      /\ worker[b].at \notin {"recv", "exited"} => worker[b].ev \in Events
  BY DEF TypeOK
<1>4. ASSUME NEW state \in WorkerState, WorkerAt(b, state),
             worker[b].at \in {"recv", "exited"} => state \in {"recv", "exited"}
      PROVE  WorkerOK'
  <2>1. worker' = [worker EXCEPT ![b] = [worker[b] EXCEPT !.at = state]]
    BY <1>4 DEF WorkerAt
  <2>2. [worker[b] EXCEPT !.at = state] = [at |-> state, ev |-> worker[b].ev]
    BY <1>3
  <2>3. [at |-> state, ev |-> worker[b].ev] \in [at : WorkerState, ev : Events \cup {NoEvent}]
    BY <1>3
  <2>4. state \notin {"recv", "exited"} => worker[b].ev \in Events
    BY <1>3, <1>4
  <2>5. \A c \in Backends : worker[c].at \notin {"recv", "exited"} => worker[c].ev \in Events
    BY DEF TypeOK
  <2>6. QED
    BY <1>3, <2>1, <2>2, <2>3, <2>4, <2>5 DEF WorkerOK
<1>5. worker' = [worker EXCEPT ![b] = IdleWorker] => WorkerOK'
  BY <1>3 DEF IdleWorker, WorkerOK, WorkerState, TypeOK
<1>6. ASSUME Receive(b) PROVE WorkerOK' /\ RestOK'
  <2>1. /\ chan \in [Backends -> Seq(Events)] /\ chan[b] # <<>>
        /\ chan' = [chan EXCEPT ![b] = Tail(chan[b])]
    BY <1>6 DEF Receive, TypeOK
  <2>2. Head(chan[b]) \in Events /\ Tail(chan[b]) \in Seq(Events)
    BY <2>1
  <2>3. WorkerOK'
    BY <1>3, <1>6, <2>2 DEF Receive, WorkerOK, WorkerState, TypeOK
  <2>4. chan' \in [Backends -> Seq(Events)]
    BY <2>1, <2>2
  <2>5. RestOK'
    BY <1>6, <2>4 DEF Receive, TypeOK, RestOK
  <2>6. QED
    BY <2>3, <2>5
<1>7. ASSUME WorkerGate(b) PROVE WorkerOK' /\ RestOK'
  <2>1. WorkerOK'
    BY <1>4, <1>7 DEF WorkerGate, WorkerState
  <2>2. breaker' \in [Backends -> Breaker]
    BY <1>7, BreakersType DEF WorkerGate
  <2>3. RestOK'
    BY <1>7, <2>2 DEF WorkerGate, TypeOK, RestOK
  <2>4. QED
    BY <2>1, <2>3
<1>8. ASSUME WorkerWrite(b) PROVE WorkerOK' /\ RestOK'
  <2>1. PICK outcome \in {"ok", "failed"} :
          CallBackend(b, worker[b].ev, outcome) /\ WorkerAt(b, outcome)
    BY <1>8 DEF WorkerWrite
  <2>2. worker[b].at = "write" /\ worker[b].ev \in Events
    BY <1>3, <1>8 DEF WorkerWrite
  <2>3. WorkerOK'
    BY <1>4, <2>1, <2>2 DEF WorkerState
  <2>4. store' \in [Backends -> SUBSET Events]
    BY <2>1, <2>2, CallBackendType
  <2>5. RestOK'
    BY <1>8, <2>4 DEF WorkerWrite, TypeOK, RestOK
  <2>6. QED
    BY <2>3, <2>5
<1>9. ASSUME WorkerSucceeds(b) PROVE WorkerOK' /\ RestOK'
  <2>1. breaker' \in [Backends -> Breaker]
    BY <1>9, BreakersType DEF WorkerSucceeds
  <2>2. RestOK'
    BY <1>9, <2>1 DEF WorkerSucceeds, TypeOK, RestOK
  <2>3. QED
    BY <1>5, <1>9, <2>2 DEF WorkerSucceeds
<1>10. ASSUME WorkerFails(b) PROVE WorkerOK' /\ RestOK'
  <2>1. breaker' \in [Backends -> Breaker]
    BY <1>10, BreakersType DEF WorkerFails
  <2>2. RestOK'
    BY <1>10, <2>1 DEF WorkerFails, TypeOK, RestOK
  <2>3. WorkerOK'
    BY <1>4, <1>10 DEF WorkerFails, WorkerState
  <2>4. QED
    BY <2>2, <2>3
<1>11. ASSUME WorkerSpill(b) PROVE WorkerOK' /\ RestOK'
  <2>1. worker[b].ev \in Events
    BY <1>3, <1>11 DEF WorkerSpill
  <2>2. logged' \subseteq Entry /\ delivered' \subseteq Entry /\ refused' \subseteq Entry
    BY <1>11, <2>1, WalAppendType DEF WorkerSpill
  <2>3. RestOK'
    BY <1>11, <2>2 DEF WorkerSpill, TypeOK, RestOK
  <2>4. QED
    BY <1>5, <1>11, <2>3 DEF WorkerSpill
<1>12. ASSUME WorkerExits(b) PROVE WorkerOK' /\ RestOK'
  <2>1. WorkerOK'
    BY <1>4, <1>12 DEF WorkerExits, WorkerState
  <2>2. RestOK'
    BY <1>12 DEF WorkerExits, TypeOK, RestOK
  <2>3. QED
    BY <2>1, <2>2
<1>13. WorkerOK' /\ RestOK'
  BY ONLY Work(b), <1>6, <1>7, <1>8, <1>9, <1>10, <1>11, <1>12, Zenon DEF Work
<1>14. QED
  BY <1>1, <1>2, <1>13, TypeParts

LEMMA ReplayTypeOK ==
    ASSUME TypeOK, ReplayEntry
    PROVE  TypeOK'
<1> USE DEF chainVars, logVars, stopVars
<1> DEFINE b == replay.entry[1]
           e == replay.entry[2]
<1>1. FlagsOK'
  BY TypeParts DEF ReplayEntry, ReplayGate, ReplayWrite, ReplaySucceeds, ReplayFails, FlagsOK
<1>2. ProducerOK' /\ WorkerOK'
  BY TypeParts DEF ReplayEntry, ReplayGate, ReplayWrite, ReplaySucceeds, ReplayFails,
                   ProducerOK, WorkerOK
<1>3. /\ replay \in [at : ReplayState, entry : Entry \cup {<<>>}]
      /\ replay.entry \in Entry /\ b \in Backends /\ e \in Events
  BY DEF TypeOK, Entry, ReplayEntry, ReplayGate, ReplayWrite, ReplaySucceeds, ReplayFails
<1>4. replay' = IdleReplay => ReplayOK'
  BY DEF IdleReplay, ReplayOK, ReplayState
<1>5. \A state \in ReplayState : replay' = [replay EXCEPT !.at = state] => ReplayOK'
  BY <1>3 DEF ReplayOK
<1>6. ASSUME ReplayGate PROVE ReplayOK' /\ RestOK'
  <2>1. ReplayOK'
    BY <1>4, <1>5, <1>6 DEF ReplayGate, ReplayState
  <2>2. breaker' \in [Backends -> Breaker]
    BY <1>3, <1>6, BreakersType DEF ReplayGate
  <2>3. RestOK'
    BY <1>6, <2>2 DEF ReplayGate, TypeOK, RestOK
  <2>4. QED
    BY <2>1, <2>3
<1>7. ASSUME ReplayWrite PROVE ReplayOK' /\ RestOK'
  <2>1. PICK outcome \in {"ok", "failed"} : CallBackend(b, e, outcome) /\ ReplayAt(outcome)
    BY <1>7 DEF ReplayWrite
  <2>2. ReplayOK'
    BY <1>5, <2>1 DEF ReplayAt, ReplayState
  <2>3. store' \in [Backends -> SUBSET Events]
    BY <1>3, <2>1, CallBackendType
  <2>4. RestOK'
    BY <1>7, <2>3 DEF ReplayWrite, TypeOK, RestOK
  <2>5. QED
    BY <2>2, <2>4
<1>8. ASSUME ReplaySucceeds PROVE ReplayOK' /\ RestOK'
  <2>1. breaker' \in [Backends -> Breaker]
    BY <1>3, <1>8, BreakersType DEF ReplaySucceeds
  <2>2. logged' \subseteq Entry /\ delivered' \subseteq Entry /\ refused' \subseteq Entry
    BY <1>3, <1>8 DEF ReplaySucceeds, Log!Deliver, TypeOK
  <2>3. RestOK'
    BY <1>8, <2>1, <2>2 DEF ReplaySucceeds, TypeOK, RestOK
  <2>4. QED
    BY <1>4, <1>8, <2>3 DEF ReplaySucceeds
<1>9. ASSUME ReplayFails PROVE ReplayOK' /\ RestOK'
  <2>1. breaker' \in [Backends -> Breaker]
    BY <1>3, <1>9, BreakersType DEF ReplayFails
  <2>2. RestOK'
    BY <1>9, <2>1 DEF ReplayFails, TypeOK, RestOK
  <2>3. QED
    BY <1>4, <1>9, <2>2 DEF ReplayFails
<1>10. QED
  BY <1>1, <1>2, <1>6, <1>7, <1>8, <1>9, TypeParts DEF ReplayEntry

LEMMA NextTypeOK == TypeOK /\ [Next]_vars => TypeOK'
<1> SUFFICES ASSUME TypeOK, [Next]_vars PROVE TypeOK'
  OBVIOUS
<1> USE DEF chainVars, logVars, stopVars
<1> USE DEF ProducerOK, WorkerOK, ReplayOK, RestOK, FlagsOK
<1>1. ASSUME NEW p \in Producers, NEW e \in Events, BeginRecord(p, e) PROVE TypeOK'
  <2>1. ProducerOK'
    <3>1. [at |-> "l1", ev |-> e, todo |-> {}] \in
            [at : ProducerState, ev : Events \cup {NoEvent}, todo : SUBSET Backends]
      BY DEF ProducerState
    <3>2. QED
      BY <1>1, <3>1, TypeParts DEF BeginRecord
  <2>2. WorkerOK' /\ ReplayOK'
    BY <1>1, TypeParts DEF BeginRecord
  <2>3. RestOK'
    BY <1>1, TypeParts DEF BeginRecord
  <2>4. FlagsOK'
    BY <1>1, TypeParts DEF BeginRecord
  <2>5. QED
    BY <2>1, <2>2, <2>3, <2>4, TypeParts
<1>2. ASSUME NEW p \in Producers, Record(p) PROVE TypeOK'
  BY <1>2, RecordTypeOK
<1>3. CASE Prune
  BY <1>3 DEF Prune, TypeOK
<1>4. ASSUME NEW b \in Backends, Work(b) PROVE TypeOK'
  BY <1>4, WorkTypeOK
<1>5. ASSUME NEW b \in Backends, CooldownPasses(b) PROVE TypeOK'
  <2>1. breaker' \in [Backends -> Breaker]
    <3>1. Cool(breaker[b]) \in Breaker
      BY BreakerFunctionsType DEF TypeOK
    <3>2. QED
      BY <1>5, <3>1 DEF CooldownPasses, TypeOK
  <2>2. QED
    BY <1>5, <2>1 DEF CooldownPasses, TypeOK
<1>6. ASSUME NEW p \in Producers, NEW e \in Events, Duplicate(p, e) PROVE TypeOK'
  BY <1>6 DEF Duplicate, vars, TypeOK
<1>7. CASE ReplayEntry
  BY <1>7, ReplayTypeOK
<1>8. ASSUME NEW entry \in logged, ReplayStarts(entry) PROVE TypeOK'
  BY <1>8 DEF ReplayStarts, TypeOK, ReplayState
<1>9. CASE DeleteReplayed
  BY <1>9 DEF DeleteReplayed, Log!Forget, TypeOK
<1>10. CASE StopBegins
  BY <1>10 DEF StopBegins, TypeOK
<1>11. CASE StopEnds
  BY <1>11 DEF StopEnds, TypeOK
<1>12. CASE UNCHANGED vars
  BY <1>12 DEF vars, TypeOK
<1>13. QED
  BY <1>1, <1>2, <1>3, <1>4, <1>5, <1>6, <1>7, <1>8, <1>9, <1>10, <1>11, <1>12 DEF Next

(* The goroutines, queues, breakers and log stay in the sets their         *)
(* definitions name; in particular whoever is at work has an event.        *)
THEOREM TypeCorrect == Spec => []TypeOK
BY InitTypeOK, NextTypeOK, PTL DEF Spec

-----------------------------------------------------------------------------
(***************************************************************************)
(* The inductive invariant behind NeverDropped.                            *)
(***************************************************************************)

\* Between calls a caller owes nothing to anybody.
IdleOwesNothing == \A p \in Producers : producer[p].at = "idle" => producer[p].todo = {}

\* A worker leaves its loop only when the channel is closed and empty.
ExitedIsEmpty ==
    \A b \in Backends : worker[b].at = "exited" => stop # "running" /\ chan[b] = <<>>

\* Nobody reports a success that did not happen, or delivers what is not stored.
SuccessIsStored ==
    /\ \A b \in Backends : worker[b].at = "ok" => worker[b].ev \in store[b]
    /\ replay.at = "ok" => replay.entry[2] \in store[replay.entry[1]]
    /\ \A b \in Backends, e \in Events : <<b, e>> \in delivered => e \in store[b]

StoppedIsDrained ==
    stop = "stopped" /\ ~forced => \A b \in Backends : worker[b].at = "exited"

\* Stop gives up only at its end.
NotYetForced == forced => stop = "stopped"

\* Where an event for b may be: one disjunct per place, or the log would not take it.
Held(b, e) ==
    \/ Durable(b, e)
    \/ <<b, e>> \in refused
    \/ Queued(b, e)
    \/ InWorker(b, e)
    \/ stop = "running" /\ InProducer(b, e)

AllHeld == ~forced => \A e \in owed, b \in Backends : Held(b, e)

Support ==
    /\ TypeOK
    /\ IdleOwesNothing
    /\ ExitedIsEmpty
    /\ SuccessIsStored
    /\ StoppedIsDrained
    /\ NotYetForced

IInv == Support /\ AllHeld

LEMMA InitIInv == Init => IInv
<1> SUFFICES ASSUME Init PROVE IInv
  OBVIOUS
<1>1. TypeOK
  BY InitTypeOK
<1>2. IdleOwesNothing /\ ExitedIsEmpty /\ SuccessIsStored
  BY DEF Init, IdleOwesNothing, ExitedIsEmpty, SuccessIsStored, IdleProducer, IdleWorker,
         IdleReplay
<1>3. StoppedIsDrained /\ NotYetForced /\ AllHeld
  BY DEF Init, StoppedIsDrained, NotYetForced, AllHeld
<1>4. QED
  BY <1>1, <1>2, <1>3 DEF IInv, Support

LEMMA AdvancedIs ==
    ASSUME TypeOK, NEW p \in Producers, NEW b \in Backends
    PROVE  /\ Advanced(p, b).at = "idle" => Advanced(p, b).todo = {}
           /\ \A c \in producer[p].todo \ {b} :
                 Advanced(p, b).ev = producer[p].ev /\ c \in Advanced(p, b).todo
<1>1. producer[p] \in [at : ProducerState, ev : Events \cup {NoEvent}, todo : SUBSET Backends]
  BY DEF TypeOK
<1>2. CASE producer[p].todo = {b}
  BY <1>2 DEF Advanced, IdleProducer
<1>3. CASE producer[p].todo # {b}
  <2>1. Advanced(p, b) = [at |-> "gate", ev |-> producer[p].ev,
                          todo |-> producer[p].todo \ {b}]
    BY <1>1, <1>3 DEF Advanced
  <2>2. QED
    BY <2>1
<1>4. QED
  BY <1>2, <1>3

LEMMA RecordSupport ==
    ASSUME Support, NEW p \in Producers, Record(p)
    PROVE  Support'
<1> USE DEF chainVars, logVars, stopVars
<1>1. TypeOK /\ TypeOK'
  BY RecordTypeOK DEF Support
<1>2. IdleOwesNothing'
  <2>1. producer \in [Producers -> [at : ProducerState, ev : Events \cup {NoEvent},
                                    todo : SUBSET Backends]]
    BY <1>1 DEF TypeOK
  <2>2. \A q \in Producers : producer[q].at = "idle" => producer[q].todo = {}
    BY DEF Support, IdleOwesNothing
  <2>3. CASE WriteL1(p)
    BY <2>1, <2>2, <2>3 DEF WriteL1, IdleOwesNothing
  <2>4. ASSUME NEW b \in Backends, Gate(p, b) PROVE IdleOwesNothing'
    BY <1>1, <2>1, <2>2, <2>4, AdvancedIs DEF Gate, IdleOwesNothing
  <2>5. ASSUME NEW b \in Backends, Send(p, b) PROVE IdleOwesNothing'
    BY <1>1, <2>1, <2>2, <2>5, AdvancedIs DEF Send, IdleOwesNothing
  <2>6. ASSUME NEW b \in Backends, Spill(p, b) PROVE IdleOwesNothing'
    BY <1>1, <2>1, <2>2, <2>6, AdvancedIs DEF Spill, IdleOwesNothing
  <2>7. CASE SendOnClosed(p)
    BY <2>1, <2>2, <2>7 DEF SendOnClosed, IdleOwesNothing, IdleProducer
  <2>8. QED
    BY ONLY Record(p), <2>3, <2>4, <2>5, <2>6, <2>7, Zenon DEF Record
<1>3. worker' = worker /\ stop' = stop /\ forced' = forced /\ store' = store /\ replay' = replay
  BY DEF Record, WriteL1, Gate, Send, Spill, SendOnClosed
<1>4. \A b \in Backends : stop # "running" => chan'[b] = chan[b]
  BY DEF Record, WriteL1, Gate, Send, Spill, SendOnClosed
<1>5. delivered' = delivered
  BY DEF Record, WriteL1, Gate, Send, Spill, SendOnClosed, WalAppendEvent, Log!Log
<1>6. ExitedIsEmpty'
  BY <1>3, <1>4 DEF Support, ExitedIsEmpty
<1>7. SuccessIsStored' /\ StoppedIsDrained' /\ NotYetForced'
  BY <1>3, <1>5 DEF Support, SuccessIsStored, StoppedIsDrained, NotYetForced
<1>8. QED
  BY <1>1, <1>2, <1>6, <1>7 DEF Support

(* What a caller has passed on is held by the channel or the log, and what *)
(* it has not it keeps.                                                    *)
LEMMA RecordHeld ==
    ASSUME IInv, NEW p \in Producers, Record(p)
    PROVE  AllHeld'
<1> USE DEF chainVars, logVars, stopVars
<1>1. TypeOK /\ Support
  BY DEF IInv, Support
<1>2. producer \in [Producers -> [at : ProducerState, ev : Events \cup {NoEvent},
                                  todo : SUBSET Backends]]
  BY <1>1 DEF TypeOK
<1>3. worker' = worker /\ stop' = stop /\ forced' = forced /\ store' = store
  BY DEF Record, WriteL1, Gate, Send, Spill, SendOnClosed
<1>4. SUFFICES ASSUME ~forced, NEW e \in owed', NEW c \in Backends PROVE Held(c, e)'
  BY <1>3 DEF AllHeld
<1>5. logged \subseteq logged' /\ refused \subseteq refused'
  BY DEF Record, WriteL1, Gate, Send, Spill, SendOnClosed, WalAppendEvent, Log!Log
<1>6. Durable(c, e) \/ <<c, e>> \in refused \/ InWorker(c, e) => Held(c, e)'
  BY <1>3, <1>5 DEF Held, Durable, InWorker
<1>7. CASE WriteL1(p)
  <2>1. chan' = chan
    BY <1>7 DEF WriteL1
  <2>2. CASE e \in owed
    <3>1. Held(c, e)
      BY <1>4, <2>2 DEF IInv, AllHeld
    <3>2. Queued(c, e) => Queued(c, e)'
      BY <2>1 DEF Queued
    <3>3. InProducer(c, e) => InProducer(c, e)'
      BY <1>2, <1>7 DEF InProducer, WriteL1
    <3>4. QED
      BY <1>3, <1>6, <3>1, <3>2, <3>3 DEF Held
  <2>3. CASE e \notin owed
    <3>1. stop = "running" /\ e = producer[p].ev
      BY <1>7, <2>3 DEF WriteL1
    <3>2. InProducer(c, e)'
      BY <1>2, <1>7, <3>1 DEF InProducer, WriteL1
    <3>3. QED
      BY <1>3, <3>1, <3>2 DEF Held
  <2>4. QED
    BY <2>2, <2>3
<1>8. SUFFICES ASSUME ~WriteL1(p) PROVE Held(c, e)'
  BY <1>7
<1>9. e \in owed /\ Held(c, e)
  <2>1. owed' = owed
    BY <1>8 DEF Record, Gate, Send, Spill, SendOnClosed
  <2>2. QED
    BY <1>4, <2>1 DEF IInv, AllHeld
<1>10. Queued(c, e) => Queued(c, e)'
  <2>1. CASE chan' = chan
    BY <2>1 DEF Queued
  <2>2. ASSUME NEW b \in Backends, chan' = [chan EXCEPT ![b] = Append(chan[b], producer[p].ev)]
        PROVE  Queued(c, e) => Queued(c, e)'
    <3>1. chan \in [Backends -> Seq(Events)]
      BY <1>1 DEF TypeOK
    <3>2. c # b => chan'[c] = chan[c]
      BY <2>2, <3>1
    <3>3. c = b => chan'[c] = Append(chan[c], producer[p].ev)
      BY <2>2, <3>1
    <3>4. \A i \in 1 .. Len(chan[c]) : i \in 1 .. Len(chan'[c]) /\ chan'[c][i] = chan[c][i]
      BY <3>1, <3>2, <3>3
    <3>5. QED
      BY <3>4 DEF Queued
  <2>3. \/ chan' = chan
        \/ \E b \in Backends : chan' = [chan EXCEPT ![b] = Append(chan[b], producer[p].ev)]
    BY <1>8 DEF Record, Gate, Send, Spill, SendOnClosed
  <2>4. QED
    BY <2>1, <2>2, <2>3
<1>11. ASSUME stop = "running", InProducer(c, e) PROVE Held(c, e)'
  <2>1. PICK q \in Producers : producer[q].ev = e /\ c \in producer[q].todo
    BY <1>11 DEF InProducer
  <2>2. CASE q # p
    <3>1. producer'[q] = producer[q]
      BY <1>2, <1>8, <2>2 DEF Record, Gate, Send, Spill, SendOnClosed
    <3>2. InProducer(c, e)'
      BY <2>1, <3>1 DEF InProducer
    <3>3. QED
      BY <1>3, <1>11, <3>2 DEF Held
  <2>3. ASSUME q = p, producer'[p].ev = e, c \in producer'[p].todo PROVE Held(c, e)'
    BY <1>3, <1>11, <2>3 DEF Held, InProducer
  <2>4. ASSUME q = p, NEW b \in Backends, Gate(p, b) PROVE Held(c, e)'
    <3>1. producer'[p].ev = e /\ c \in producer'[p].todo
      BY <1>2, <1>11, <2>1, <2>4 DEF Gate
    <3>2. QED
      BY <2>3, <2>4, <3>1
  <2>5. ASSUME q = p, NEW b \in Backends, Send(p, b) PROVE Held(c, e)'
    <3>1. CASE producer' = [producer EXCEPT ![p].at = "spill"]
      <4>1. producer'[p].ev = e /\ c \in producer'[p].todo
        BY <1>2, <2>1, <2>5, <3>1
      <4>2. QED
        BY <2>3, <2>5, <4>1
    <3>2. CASE chan' = [chan EXCEPT ![b] = Append(@, producer[p].ev)]
                /\ producer' = [producer EXCEPT ![p] = Advanced(p, b)]
      <4>1. CASE c = b
        <5>1. chan'[c] = Append(chan[c], e) /\ chan[c] \in Seq(Events)
          BY <1>1, <2>1, <2>5, <3>2, <4>1 DEF TypeOK
        <5>2. Len(chan[c]) + 1 \in 1 .. Len(chan'[c]) /\ chan'[c][Len(chan[c]) + 1] = e
          BY <5>1
        <5>3. QED
          BY <5>2 DEF Held, Queued
      <4>2. CASE c # b
        <5>1. producer'[p].ev = e /\ c \in producer'[p].todo
          BY <1>1, <1>2, <2>1, <2>5, <3>2, <4>2, AdvancedIs
        <5>2. QED
          BY <2>3, <2>5, <5>1
      <4>3. QED
        BY <4>1, <4>2
    <3>3. QED
      BY <2>5, <3>1, <3>2 DEF Send
  <2>6. ASSUME q = p, NEW b \in Backends, Spill(p, b) PROVE Held(c, e)'
    <3>1. CASE c = b
      <4>1. <<c, e>> \in logged' \/ <<c, e>> \in refused'
        BY <1>11, <2>1, <2>6, <3>1 DEF Spill, WalAppendEvent, Log!Log
      <4>2. QED
        BY <4>1 DEF Held, Durable
    <3>2. CASE c # b
      <4>1. producer'[p].ev = e /\ c \in producer'[p].todo
        BY <1>1, <1>2, <2>1, <2>6, <3>2, AdvancedIs DEF Spill
      <4>2. QED
        BY <2>3, <2>6, <4>1
    <3>3. QED
      BY <3>1, <3>2
  <2>7. ~SendOnClosed(p)
    BY <1>11 DEF SendOnClosed
  <2>8. QED
    BY ONLY Record(p), <1>8, <2>2, <2>4, <2>5, <2>6, <2>7, Zenon DEF Record
<1>12. QED
  BY <1>6, <1>9, <1>10, <1>11 DEF Held

\* What a call on a backend leaves behind.
LEMMA CallBackendStores ==
    ASSUME TypeOK, NEW b \in Backends, NEW e \in Events, NEW outcome, CallBackend(b, e, outcome)
    PROVE  /\ \A c \in Backends : store[c] \subseteq store'[c]
           /\ outcome = "ok" => e \in store'[b]
           /\ \A c \in Backends : store'[c] \subseteq store[c] \cup {e}
           /\ \A c \in Backends : c # b => store'[c] = store[c]
<1>1. store' = store \/ store' = [store EXCEPT ![b] = @ \cup {e}]
  BY DEF CallBackend
<1>2. outcome = "ok" => store' = [store EXCEPT ![b] = @ \cup {e}]
  BY DEF CallBackend
<1>3. store \in [Backends -> SUBSET Events]
  BY DEF TypeOK
<1>4. QED
  BY <1>1, <1>2, <1>3

LEMMA WorkKeeps ==
    ASSUME TypeOK, NEW b \in Backends, Work(b)
    PROVE  /\ UNCHANGED <<producer, replay, owed, stop, forced, memory>>
           /\ \A c \in Backends : store[c] \subseteq store'[c]
           /\ logged \subseteq logged' /\ refused \subseteq refused' /\ delivered' = delivered
           /\ \A c \in Backends : c # b => worker'[c] = worker[c] /\ chan'[c] = chan[c]
<1> USE DEF chainVars, logVars, stopVars
<1>1. UNCHANGED <<producer, replay, owed, stop, forced, memory>>
  BY DEF Work, Receive, WorkerGate, WorkerWrite, WorkerSucceeds, WorkerFails, WorkerSpill,
         WorkerExits
<1>2. logged \subseteq logged' /\ refused \subseteq refused' /\ delivered' = delivered
  BY DEF Work, Receive, WorkerGate, WorkerWrite, WorkerSucceeds, WorkerFails, WorkerSpill,
         WorkerExits, WalAppendEvent, Log!Log
<1>3. \A c \in Backends : store[c] \subseteq store'[c]
  <2>1. CASE WorkerWrite(b)
    <3>1. worker[b].ev \in Events
      BY <2>1 DEF WorkerWrite, TypeOK
    <3>2. QED
      BY <2>1, <3>1, CallBackendStores DEF WorkerWrite
  <2>2. CASE ~WorkerWrite(b)
    BY <2>2 DEF Work, Receive, WorkerGate, WorkerSucceeds, WorkerFails, WorkerSpill, WorkerExits
  <2>3. QED
    BY <2>1, <2>2
<1>4. \A c \in Backends : c # b => worker'[c] = worker[c] /\ chan'[c] = chan[c]
  BY DEF TypeOK, Work, Receive, WorkerGate, WorkerWrite, WorkerSucceeds, WorkerFails,
         WorkerSpill, WorkerExits, WorkerAt
<1>5. QED
  BY <1>1, <1>2, <1>3, <1>4

LEMMA WorkSupport ==
    ASSUME Support, NEW b \in Backends, Work(b)
    PROVE  Support'
<1> USE DEF chainVars, logVars, stopVars
<1>1. TypeOK /\ TypeOK'
  BY WorkTypeOK DEF Support
<1>2. /\ worker \in [Backends -> [at : WorkerState, ev : Events \cup {NoEvent}]]
      /\ chan \in [Backends -> Seq(Events)]
  BY <1>1 DEF TypeOK
<1>3. IdleOwesNothing'
  BY <1>1, WorkKeeps DEF Support, IdleOwesNothing
<1>4. ExitedIsEmpty'
  <2>1. worker'[b].at = "exited" => stop # "running" /\ chan'[b] = <<>>
    BY <1>2 DEF Work, Receive, WorkerGate, WorkerWrite, WorkerSucceeds, WorkerFails,
                WorkerSpill, WorkerExits, WorkerAt, IdleWorker
  <2>2. QED
    BY <1>1, <2>1, WorkKeeps DEF Support, ExitedIsEmpty
<1>5. SuccessIsStored'
  <2>1. worker'[b].at = "ok" => worker'[b].ev \in store'[b]
    <3>1. CASE WorkerWrite(b)
      <4>1. worker[b].ev \in Events
        BY <3>1, <1>1 DEF WorkerWrite, TypeOK
      <4>2. PICK outcome \in {"ok", "failed"} :
              CallBackend(b, worker[b].ev, outcome) /\ WorkerAt(b, outcome)
        BY <3>1 DEF WorkerWrite
      <4>3. worker'[b].at = outcome /\ worker'[b].ev = worker[b].ev
        BY <1>2, <4>2 DEF WorkerAt
      <4>4. QED
        BY <1>1, <4>1, <4>2, <4>3, CallBackendStores
    <3>2. CASE ~WorkerWrite(b)
      BY <1>2, <3>2 DEF Work, Receive, WorkerGate, WorkerSucceeds, WorkerFails, WorkerSpill,
                        WorkerExits, WorkerAt, IdleWorker
    <3>3. QED
      BY <3>1, <3>2
  <2>2. replay.at = "ok" => replay.entry \in Entry
    BY <1>1 DEF TypeOK
  <2>3. replay.at = "ok" => replay.entry[1] \in Backends
    BY <2>2 DEF Entry
  <2>4. QED
    BY <1>1, <2>1, <2>3, WorkKeeps DEF Support, SuccessIsStored
<1>6. StoppedIsDrained' /\ NotYetForced'
  <2>1. worker[b].at # "exited"
    BY DEF Work, Receive, WorkerGate, WorkerWrite, WorkerSucceeds, WorkerFails, WorkerSpill,
           WorkerExits
  <2>2. QED
    BY <1>1, <2>1, WorkKeeps DEF Support, StoppedIsDrained, NotYetForced
<1>7. QED
  BY <1>1, <1>3, <1>4, <1>5, <1>6 DEF Support

(* A worker takes an event from its channel and keeps it until it is       *)
(* stored or logged.                                                       *)
LEMMA WorkHeld ==
    ASSUME IInv, NEW b \in Backends, Work(b)
    PROVE  AllHeld'
<1> USE DEF chainVars, logVars, stopVars
<1>1. TypeOK /\ Support
  BY DEF IInv, Support
<1>2. SUFFICES ASSUME ~forced, NEW e \in owed, NEW c \in Backends, Held(c, e)
               PROVE  Held(c, e)'
  BY <1>1, WorkKeeps DEF IInv, AllHeld
<1>3. Durable(c, e) \/ <<c, e>> \in refused => Durable(c, e)' \/ <<c, e>> \in refused'
  BY <1>1, WorkKeeps DEF Durable
<1>4. InProducer(c, e) => InProducer(c, e)'
  BY <1>1, WorkKeeps DEF InProducer
<1>5. CASE c # b
  <2>1. Queued(c, e) => Queued(c, e)'
    BY <1>1, <1>5, WorkKeeps DEF Queued
  <2>2. InWorker(c, e) => InWorker(c, e)'
    BY <1>1, <1>5, WorkKeeps DEF InWorker
  <2>3. QED
    BY <1>1, <1>2, <1>3, <1>4, <2>1, <2>2, WorkKeeps DEF Held
<1>6. CASE c = b
  <2>1. /\ worker \in [Backends -> [at : WorkerState, ev : Events \cup {NoEvent}]]
        /\ chan \in [Backends -> Seq(Events)]
    BY <1>1 DEF TypeOK
  <2>2. ASSUME Queued(b, e) PROVE Queued(b, e)' \/ InWorker(b, e)'
    <3>1. PICK i \in 1 .. Len(chan[b]) : chan[b][i] = e
      BY <2>2 DEF Queued
    <3>2. CASE Receive(b)
      <4>1. chan'[b] = Tail(chan[b]) /\ worker'[b] = [at |-> "gate", ev |-> Head(chan[b])]
        BY <2>1, <3>2 DEF Receive
      <4>2. CASE i = 1
        BY <3>1, <4>1, <4>2 DEF InWorker
      <4>3. CASE i # 1
        <5>1. i - 1 \in 1 .. Len(chan'[b]) /\ chan'[b][i - 1] = e
          BY <2>1, <3>1, <4>1, <4>3
        <5>2. QED
          BY <5>1 DEF Queued
      <4>4. QED
        BY <4>2, <4>3
    <3>3. CASE ~Receive(b)
      BY <2>2, <3>3 DEF Work, WorkerGate, WorkerWrite, WorkerSucceeds, WorkerFails,
                        WorkerSpill, WorkerExits, Queued
    <3>4. QED
      BY <3>2, <3>3
  <2>3. ASSUME InWorker(b, e) PROVE InWorker(b, e)' \/ Durable(b, e)' \/ <<b, e>> \in refused'
    <3>1. worker[b].ev = e /\ worker[b].at \notin {"recv", "exited"}
      BY <2>3 DEF InWorker
    <3>2. CASE WorkerGate(b) \/ WorkerWrite(b) \/ WorkerFails(b)
      BY <2>1, <3>1, <3>2 DEF WorkerGate, WorkerWrite, WorkerFails, WorkerAt, InWorker
    <3>3. CASE WorkerSucceeds(b)
      <4>1. e \in store[b]
        BY <1>1, <3>1, <3>3 DEF WorkerSucceeds, Support, SuccessIsStored
      <4>2. QED
        BY <1>3, <1>6, <4>1 DEF Durable
    <3>4. CASE WorkerSpill(b)
      <4>1. <<b, e>> \in logged' \/ <<b, e>> \in refused'
        BY <3>1, <3>4 DEF WorkerSpill, WalAppendEvent, Log!Log
      <4>2. QED
        BY <4>1 DEF Durable
    <3>5. ~Receive(b) /\ ~WorkerExits(b)
      BY <3>1 DEF Receive, WorkerExits
    <3>6. QED
      BY <3>2, <3>3, <3>4, <3>5 DEF Work
  <2>4. QED
    BY <1>1, <1>2, <1>3, <1>4, <1>6, <2>2, <2>3, WorkKeeps DEF Held
<1>7. QED
  BY <1>5, <1>6

LEMMA ReplayKeeps ==
    ASSUME TypeOK, ReplayEntry
    PROVE  /\ UNCHANGED <<producer, worker, chan, owed, stop, forced, memory, logged, refused>>
           /\ \A c \in Backends : store[c] \subseteq store'[c]
           /\ replay.entry \in Entry
<1> USE DEF chainVars, logVars, stopVars
<1>1. UNCHANGED <<producer, worker, chan, owed, stop, forced, memory, logged, refused>>
  BY DEF ReplayEntry, ReplayGate, ReplayWrite, ReplaySucceeds, ReplayFails, Log!Deliver
<1>2. replay.entry \in Entry
  BY DEF TypeOK, ReplayEntry, ReplayGate, ReplayWrite, ReplaySucceeds, ReplayFails
<1>3. \A c \in Backends : store[c] \subseteq store'[c]
  <2>1. CASE ReplayWrite
    <3>1. replay.entry[1] \in Backends /\ replay.entry[2] \in Events
      BY <1>2 DEF Entry
    <3>2. QED
      BY <2>1, <3>1, CallBackendStores DEF ReplayWrite
  <2>2. CASE ~ReplayWrite
    BY <2>2 DEF ReplayEntry, ReplayGate, ReplaySucceeds, ReplayFails
  <2>3. QED
    BY <2>1, <2>2
<1>4. QED
  BY <1>1, <1>2, <1>3

LEMMA ReplaySupport ==
    ASSUME Support, ReplayEntry
    PROVE  Support'
<1> USE DEF chainVars, logVars, stopVars
<1> DEFINE b == replay.entry[1]
           e == replay.entry[2]
<1>1. TypeOK /\ TypeOK'
  BY ReplayTypeOK DEF Support
<1>2. /\ replay.entry \in Entry /\ b \in Backends /\ e \in Events
      /\ replay.entry = <<b, e>>
  BY <1>1, ReplayKeeps DEF Entry
<1>3. IdleOwesNothing' /\ ExitedIsEmpty' /\ StoppedIsDrained' /\ NotYetForced'
  BY <1>1, ReplayKeeps DEF Support, IdleOwesNothing, ExitedIsEmpty, StoppedIsDrained,
                           NotYetForced
<1>4. \A c \in Backends : worker'[c].at = "ok" => worker'[c].ev \in store'[c]
  BY <1>1, ReplayKeeps DEF Support, SuccessIsStored
<1>5. replay'.at = "ok" => replay'.entry[2] \in store'[replay'.entry[1]]
  <2>1. CASE ReplayWrite
    <3>1. PICK outcome \in {"ok", "failed"} : CallBackend(b, e, outcome) /\ ReplayAt(outcome)
      BY <2>1 DEF ReplayWrite
    <3>2. replay'.at = outcome /\ replay'.entry = replay.entry
      BY <1>1, <3>1 DEF ReplayAt, TypeOK
    <3>3. QED
      BY <1>1, <1>2, <3>1, <3>2, CallBackendStores
  <2>2. CASE ~ReplayWrite
    BY <1>1, <2>2 DEF ReplayEntry, ReplayGate, ReplaySucceeds, ReplayFails, IdleReplay, TypeOK
  <2>3. QED
    BY <2>1, <2>2
<1>6. ASSUME NEW c \in Backends, NEW f \in Events, <<c, f>> \in delivered'
      PROVE  f \in store'[c]
  <2>1. \/ <<c, f>> \in delivered
        \/ replay.at = "ok" /\ <<c, f>> = <<b, e>>
    BY <1>2, <1>6 DEF ReplayEntry, ReplayGate, ReplayWrite, ReplaySucceeds, ReplayFails,
                      Log!Deliver
  <2>2. f \in store[c]
    BY <2>1 DEF Support, SuccessIsStored
  <2>3. QED
    BY <1>1, <2>2, ReplayKeeps
<1>7. QED
  BY <1>1, <1>3, <1>4, <1>5, <1>6 DEF Support, SuccessIsStored

LEMMA ReplayHeld ==
    ASSUME IInv, ReplayEntry
    PROVE  AllHeld'
<1>1. TypeOK
  BY DEF IInv, Support
<1>2. \A e \in owed, b \in Backends : Held(b, e) => Held(b, e)'
  BY <1>1, ReplayKeeps DEF Held, Durable, Queued, InWorker, InProducer
<1>3. QED
  BY <1>1, <1>2, ReplayKeeps DEF IInv, AllHeld

\* What holds e is not touched.
LEMMA HeldStays ==
    ASSUME AllHeld, UNCHANGED <<owed, producer, worker, chan, store, logged, refused, stop, forced>>
    PROVE  AllHeld'
<1>1. ASSUME NEW e, NEW b, Held(b, e) PROVE Held(b, e)'
  <2>1. Durable(b, e) => Durable(b, e)'
    BY DEF Durable
  <2>2. Queued(b, e) => Queued(b, e)'
    BY DEF Queued
  <2>3. InWorker(b, e) => InWorker(b, e)'
    BY DEF InWorker
  <2>4. InProducer(b, e) => InProducer(b, e)'
    BY DEF InProducer
  <2>5. QED
    BY <1>1, <2>1, <2>2, <2>3, <2>4 DEF Held
<1>2. QED
  BY <1>1 DEF AllHeld

LEMMA NextIInv == IInv /\ [Next]_vars => IInv'
<1> SUFFICES ASSUME IInv, [Next]_vars PROVE IInv'
  OBVIOUS
<1> USE DEF chainVars, logVars, stopVars
<1>1. Support /\ TypeOK /\ TypeOK'
  BY NextTypeOK DEF IInv, Support
<1>2. /\ producer \in [Producers -> [at : ProducerState, ev : Events \cup {NoEvent},
                                     todo : SUBSET Backends]]
      /\ breaker \in [Backends -> Breaker]
  BY <1>1 DEF TypeOK
<1>3. ASSUME NEW p \in Producers, NEW e \in Events, BeginRecord(p, e) PROVE IInv'
  <2>1. UNCHANGED <<owed, worker, chan, store, logVars, replay, stop, forced>>
    BY <1>3 DEF BeginRecord
  <2>2. IdleOwesNothing'
    BY <1>1, <1>2, <1>3 DEF BeginRecord, Support, IdleOwesNothing
  <2>3. ExitedIsEmpty' /\ SuccessIsStored' /\ StoppedIsDrained' /\ NotYetForced'
    BY <1>1, <2>1 DEF Support, ExitedIsEmpty, SuccessIsStored, StoppedIsDrained,
                  NotYetForced
  <2>4. ASSUME NEW f \in owed, NEW b \in Backends, InProducer(b, f) PROVE InProducer(b, f)'
    <3>1. PICK q \in Producers : producer[q].ev = f /\ b \in producer[q].todo
      BY <2>4 DEF InProducer
    <3>2. q # p
      BY <1>1, <1>3, <3>1 DEF BeginRecord, Support, IdleOwesNothing
    <3>3. producer'[q] = producer[q]
      BY <1>2, <1>3, <3>2 DEF BeginRecord
    <3>4. QED
      BY <3>1, <3>3 DEF InProducer
  <2>5. \A f \in owed, b \in Backends : Held(b, f) => Held(b, f)'
    BY <2>1, <2>4 DEF Held, Durable, Queued, InWorker
  <2>6. AllHeld'
    BY <2>1, <2>5 DEF IInv, AllHeld
  <2>7. QED
    BY <1>1, <2>2, <2>3, <2>6 DEF IInv, Support
<1>4. ASSUME NEW p \in Producers, Record(p) PROVE IInv'
  BY <1>1, <1>4, RecordSupport, RecordHeld DEF IInv
<1>5. ASSUME NEW b \in Backends, Work(b) PROVE IInv'
  BY <1>1, <1>5, WorkSupport, WorkHeld DEF IInv
<1>6. CASE ReplayEntry
  BY <1>1, <1>6, ReplaySupport, ReplayHeld DEF IInv
<1>7. ASSUME NEW entry \in logged, ReplayStarts(entry) PROVE IInv'
  <2>1. UNCHANGED <<owed, producer, worker, chan, store, logVars, stop, forced>>
    BY <1>7 DEF ReplayStarts
  <2>2. replay'.at = "gate"
    BY <1>7 DEF ReplayStarts
  <2>3. Support'
    BY <1>1, <2>1, <2>2 DEF Support, IdleOwesNothing, ExitedIsEmpty, SuccessIsStored,
                            StoppedIsDrained, NotYetForced
  <2>4. AllHeld'
    BY <2>1, HeldStays DEF IInv
  <2>5. QED
    BY <2>3, <2>4 DEF IInv
<1>8. CASE DeleteReplayed
  <2>1. UNCHANGED <<owed, producer, worker, chan, store, delivered, refused, replay, stop, forced>>
    BY <1>8 DEF DeleteReplayed, Log!Forget
  <2>2. \A b \in Backends, e \in Events : <<b, e>> \in logged \ logged' => e \in store[b]
    <3>1. logged \ logged' \subseteq delivered
      BY <1>8 DEF DeleteReplayed, Log!Forget
    <3>2. QED
      BY <1>1, <3>1 DEF Support, SuccessIsStored
  <2>3. Support'
    BY <1>1, <2>1 DEF Support, IdleOwesNothing, ExitedIsEmpty, SuccessIsStored,
                      StoppedIsDrained, NotYetForced
  <2>4. owed \subseteq Events
    BY <1>1 DEF TypeOK
  <2>5. \A e \in owed, b \in Backends : Held(b, e) => Held(b, e)'
    BY <2>1, <2>2, <2>4 DEF Held, Durable, Queued, InWorker, InProducer
  <2>6. AllHeld'
    BY <2>1, <2>5 DEF IInv, AllHeld
  <2>7. QED
    BY <2>3, <2>6 DEF IInv
<1>9. CASE StopBegins
  <2>1. UNCHANGED <<producer, worker, chan, store, logVars, replay, forced>>
        /\ stop = "running" /\ stop' = "draining"
        /\ owed' = owed \ {producer[p].ev : p \in Producers}
    BY <1>9 DEF StopBegins
  <2>2. Support'
    BY <1>1, <2>1 DEF Support, IdleOwesNothing, ExitedIsEmpty, SuccessIsStored,
                      StoppedIsDrained, NotYetForced
  <2>3. \A e \in owed', b \in Backends : ~InProducer(b, e)
    BY <2>1 DEF InProducer
  <2>4. \A e \in owed', b \in Backends : ~forced => Held(b, e)'
    BY <2>1, <2>3 DEF IInv, AllHeld, Held, Durable, Queued, InWorker
  <2>5. AllHeld'
    BY <2>1, <2>4 DEF AllHeld
  <2>6. QED
    BY <2>2, <2>5 DEF IInv
<1>10. CASE StopEnds
  <2>1. /\ UNCHANGED <<owed, producer, worker, chan, store, logVars, replay>>
        /\ stop = "draining" /\ stop' = "stopped"
        /\ ~forced' => \A b \in Backends : worker[b].at = "exited"
    BY <1>10 DEF StopEnds
  <2>2. IdleOwesNothing' /\ ExitedIsEmpty' /\ SuccessIsStored' /\ StoppedIsDrained' /\ NotYetForced'
    BY <1>1, <2>1 DEF Support, IdleOwesNothing, ExitedIsEmpty, SuccessIsStored,
                      StoppedIsDrained, NotYetForced
  <2>3. ~forced
    BY <1>1, <2>1 DEF IInv, Support, NotYetForced
  <2>4. AllHeld'
    BY <2>1, <2>3 DEF IInv, AllHeld, Held, Durable, Queued, InWorker
  <2>5. QED
    BY <1>1, <2>2, <2>4 DEF IInv, Support
<1>11. CASE UNCHANGED <<owed, producer, worker, chan, store, logVars, replay, stop, forced>>
  <2>1. Support'
    BY <1>1, <1>11 DEF Support, IdleOwesNothing, ExitedIsEmpty, SuccessIsStored,
                       StoppedIsDrained, NotYetForced
  <2>2. AllHeld'
    BY <1>11, HeldStays DEF IInv
  <2>3. QED
    BY <2>1, <2>2 DEF IInv
<1>12. QED
  BY <1>3, <1>4, <1>5, <1>6, <1>7, <1>8, <1>9, <1>10, <1>11
     DEF Next, Duplicate, Prune, CooldownPasses, vars

LEMMA IInvHolds == Spec => []IInv
BY InitIInv, NextIInv, PTL DEF Spec

-----------------------------------------------------------------------------
(* Results *)

(* An event counted in L1 is, for every backend, stored, logged, or held   *)
(* by the channel or goroutine that will store or log it, in every         *)
(* interleaving of callers, workers, replay and Stop.                      *)
THEOREM NeverDroppedHolds == Spec => []NeverDropped
<1>1. IInv => NeverDropped
  BY DEF IInv, AllHeld, Held, NeverDropped
<1>2. QED
  BY <1>1, IInvHolds, PTL

(* A Stop that does not time out leaves every event recorded before it     *)
(* stored or logged, at every backend.                                     *)
THEOREM StopDrainsHolds == Spec => []StopDrains
<1>1. IInv => StopDrains
  <2> SUFFICES ASSUME IInv, stop = "stopped", ~forced, NEW e \in owed, NEW b \in Backends
               PROVE  Durable(b, e) \/ <<b, e>> \in refused
    BY DEF StopDrains
  <2>1. worker[b].at = "exited" /\ chan[b] = <<>>
    BY DEF IInv, Support, StoppedIsDrained, ExitedIsEmpty
  <2>2. ~Queued(b, e) /\ ~InWorker(b, e)
    BY <2>1 DEF Queued, InWorker
  <2>3. QED
    BY <2>2 DEF IInv, AllHeld, Held
<1>2. QED
  BY <1>1, IInvHolds, PTL
-----------------------------------------------------------------------------
(***************************************************************************)
(* The chain implements EventDelivery: the safety half.                    *)
(***************************************************************************)

\* An event in anybody's hands but those of the first step has been counted.
CallersKnow ==
    \A p \in Producers :
        producer[p].at \in {"gate", "send", "spill"} => producer[p].ev \in Counted

QueuesKnow ==
    /\ \A b \in Backends : \A i \in 1 .. Len(chan[b]) : chan[b][i] \in Counted
    /\ \A b \in Backends : worker[b].at \notin {"recv", "exited"} => worker[b].ev \in Counted

LogKnows ==
    /\ \A x \in logged : x[2] \in Counted
    /\ replay.at # "idle" => replay.entry[2] \in Counted

Known == CallersKnow /\ QueuesKnow /\ LogKnows

LEMMA InitKnown == Init => Known
BY DEF Init, Known, CallersKnow, QueuesKnow, LogKnows, IdleProducer, IdleWorker, IdleReplay

\* L1 only ever adds.
LEMMA CountedGrows ==
    ASSUME TypeOK, [Next]_vars
    PROVE  Counted \subseteq Counted'
<1> USE DEF chainVars, logVars, stopVars
<1>1. memory \in [Events -> Nat]
  BY DEF TypeOK
<1>2. memory' = memory \/ \E p \in Producers : WriteL1(p)
  <2>1. ASSUME NEW p \in Producers, Record(p) PROVE memory' = memory \/ WriteL1(p)
    BY <2>1 DEF Record, Gate, Send, Spill, SendOnClosed
  <2>2. ASSUME NEW b \in Backends, Work(b) PROVE memory' = memory
    BY <2>2, WorkKeeps
  <2>3. CASE ReplayEntry
    BY <2>3, ReplayKeeps
  <2>4. QED
    BY <2>1, <2>2, <2>3 DEF Next, vars, BeginRecord, Duplicate, Prune, CooldownPasses,
       ReplayStarts, DeleteReplayed, StopBegins, StopEnds
<1>3. ASSUME NEW p \in Producers, WriteL1(p) PROVE Counted \subseteq Counted'
  <2>1. memory' = [memory EXCEPT ![producer[p].ev] = @ + 1]
    BY <1>3 DEF WriteL1
  <2>2. QED
    BY <1>1, <2>1 DEF Counted
<1>4. memory' = memory => Counted \subseteq Counted'
  BY DEF Counted
<1>5. QED
  BY <1>2, <1>3, <1>4

LEMMA RecordKnown ==
    ASSUME TypeOK, Known, Counted \subseteq Counted', NEW p \in Producers, Record(p)
    PROVE  Known'
<1> USE DEF chainVars, logVars, stopVars
<1>1. /\ producer \in [Producers -> [at : ProducerState, ev : Events \cup {NoEvent},
                                     todo : SUBSET Backends]]
      /\ chan \in [Backends -> Seq(Events)]
      /\ memory \in [Events -> Nat]
  BY DEF TypeOK
<1>2. worker' = worker /\ replay' = replay
  BY DEF Record, WriteL1, Gate, Send, Spill, SendOnClosed
<1>3. producer[p].at \in {"gate", "send", "spill"} => producer[p].ev \in Counted
  BY DEF Known, CallersKnow
<1>4. \A q \in Producers \ {p} : producer'[q] = producer[q]
  BY <1>1 DEF Record, WriteL1, Gate, Send, Spill, SendOnClosed
<1>5. producer'[p].at \in {"gate", "send", "spill"} => producer'[p].ev \in Counted'
  <2>1. CASE WriteL1(p)
    <3>1. producer[p].ev \in Events
      BY <2>1 DEF WriteL1, TypeOK
    <3>2. memory'[producer[p].ev] > 0
      BY <1>1, <2>1, <3>1 DEF WriteL1
    <3>3. producer'[p].ev = producer[p].ev
      BY <1>1, <2>1 DEF WriteL1
    <3>4. QED
      BY <3>1, <3>2, <3>3 DEF Counted
  <2>2. CASE ~WriteL1(p)
    <3>1. \/ producer'[p].at = "idle"
          \/ /\ producer[p].at \in {"gate", "send", "spill"}
             /\ producer'[p].ev = producer[p].ev
      <4>1. ASSUME NEW b \in Backends
            PROVE  Advanced(p, b).at = "idle" \/ Advanced(p, b).ev = producer[p].ev
        BY <1>1 DEF Advanced, IdleProducer
      <4>2. QED
        BY <1>1, <2>2, <4>1 DEF Record, Gate, Send, Spill, SendOnClosed, IdleProducer
    <3>2. QED
      BY <1>3, <3>1
  <2>3. QED
    BY <2>1, <2>2
<1>6. CallersKnow'
  BY <1>4, <1>5 DEF Known, CallersKnow
<1>7. ASSUME NEW c \in Backends, NEW i \in 1 .. Len(chan'[c]) PROVE chan'[c][i] \in Counted'
  <2>1. CASE chan' = chan
    BY <1>7, <2>1 DEF Known, QueuesKnow
  <2>2. ASSUME NEW b \in Backends, Send(p, b),
               chan' = [chan EXCEPT ![b] = Append(chan[b], producer[p].ev)]
        PROVE  chan'[c][i] \in Counted'
    <3>1. producer[p].ev \in Counted /\ producer[p].ev \in Events
      BY <1>3, <2>2 DEF Send, TypeOK
    <3>2. CASE c # b
      BY <1>1, <1>7, <2>2, <3>2 DEF Known, QueuesKnow
    <3>3. CASE c = b
      <4>1. chan'[c] = Append(chan[c], producer[p].ev)
        BY <1>1, <2>2, <3>3
      <4>2. chan[c] \in Seq(Events) /\ i \in 1 .. Len(chan'[c])
        BY <1>1, <1>7
      <4>3. i \in 1 .. Len(chan[c]) + 1
        BY <3>1, <4>1, <4>2
      <4>4. CASE i = Len(chan[c]) + 1
        <5>1. chan'[c][i] = producer[p].ev
          BY <4>1, <4>2, <4>4
        <5>2. QED
          BY <3>1, <5>1
      <4>5. CASE i # Len(chan[c]) + 1
        <5>1. i \in 1 .. Len(chan[c]) /\ chan'[c][i] = chan[c][i]
          BY <4>1, <4>2, <4>3, <4>5
        <5>2. QED
          BY <5>1 DEF Known, QueuesKnow
      <4>6. QED
        BY <4>4, <4>5
    <3>4. QED
      BY <3>2, <3>3
  <2>3. chan' = chan \/ \E b \in Backends :
            Send(p, b) /\ chan' = [chan EXCEPT ![b] = Append(chan[b], producer[p].ev)]
    BY DEF Record, WriteL1, Gate, Send, Spill, SendOnClosed
  <2>4. QED
    BY <2>1, <2>2, <2>3
<1>8. QueuesKnow'
  BY <1>2, <1>7 DEF Known, QueuesKnow
<1>9. ASSUME NEW x \in logged' PROVE x[2] \in Counted'
  <2>1. CASE x \in logged
    BY <2>1 DEF Known, LogKnows
  <2>2. CASE x \notin logged
    <3>1. PICK b \in Backends : Spill(p, b)
      BY <1>9, <2>2 DEF Record, WriteL1, Gate, Send, Spill, SendOnClosed
    <3>2. x = <<b, producer[p].ev>> /\ producer[p].at = "spill"
      BY <1>9, <2>2, <3>1 DEF Spill, WalAppendEvent, Log!Log
    <3>3. QED
      BY <1>3, <3>2
  <2>3. QED
    BY <2>1, <2>2
<1>10. LogKnows'
  BY <1>2, <1>9 DEF Known, LogKnows
<1>11. QED
  BY <1>6, <1>8, <1>10 DEF Known

LEMMA WorkKnown ==
    ASSUME TypeOK, Known, Counted \subseteq Counted', NEW b \in Backends, Work(b)
    PROVE  Known'
<1> USE DEF chainVars, logVars, stopVars
<1>1. /\ worker \in [Backends -> [at : WorkerState, ev : Events \cup {NoEvent}]]
      /\ chan \in [Backends -> Seq(Events)]
  BY DEF TypeOK
<1>2. CallersKnow'
  BY WorkKeeps DEF Known, CallersKnow
<1>3. worker'[b].at \notin {"recv", "exited"} => worker'[b].ev \in Counted'
  <2>1. CASE Receive(b)
    <3>1. chan[b] # <<>> /\ worker'[b].ev = chan[b][1]
      BY <1>1, <2>1 DEF Receive
    <3>2. 1 \in 1 .. Len(chan[b])
      BY <1>1, <3>1
    <3>3. QED
      BY <3>1, <3>2 DEF Known, QueuesKnow
  <2>2. CASE ~Receive(b)
    <3>1. \/ worker'[b].at \in {"recv", "exited"}
          \/ worker'[b].ev = worker[b].ev /\ worker[b].at \notin {"recv", "exited"}
      BY <1>1, <2>2 DEF Work, WorkerGate, WorkerWrite, WorkerSucceeds, WorkerFails,
                        WorkerSpill, WorkerExits, WorkerAt, IdleWorker
    <3>2. QED
      BY <3>1 DEF Known, QueuesKnow
  <2>3. QED
    BY <2>1, <2>2
<1>4. \A i \in 1 .. Len(chan'[b]) : chan'[b][i] \in Counted'
  <2>1. CASE Receive(b)
    <3>1. chan[b] # <<>> /\ chan'[b] = Tail(chan[b]) /\ chan[b] \in Seq(Events)
      BY <1>1, <2>1 DEF Receive
    <3>2. \A i \in 1 .. Len(chan'[b]) : i + 1 \in 1 .. Len(chan[b]) /\ chan'[b][i] = chan[b][i + 1]
      BY <3>1
    <3>3. QED
      BY <3>2 DEF Known, QueuesKnow
  <2>2. CASE ~Receive(b)
    <3>1. chan' = chan
      BY <2>2 DEF Work, WorkerGate, WorkerWrite, WorkerSucceeds, WorkerFails, WorkerSpill,
                  WorkerExits
    <3>2. QED
      BY <3>1 DEF Known, QueuesKnow
  <2>3. QED
    BY <2>1, <2>2
<1>5. QueuesKnow'
  BY <1>3, <1>4, WorkKeeps DEF Known, QueuesKnow
<1>6. ASSUME NEW x \in logged' PROVE x[2] \in Counted'
  <2>1. CASE x \in logged
    BY <2>1 DEF Known, LogKnows
  <2>2. CASE x \notin logged
    <3>1. WorkerSpill(b)
      BY <1>6, <2>2 DEF Work, Receive, WorkerGate, WorkerWrite, WorkerSucceeds, WorkerFails,
                        WorkerSpill, WorkerExits
    <3>2. x = <<b, worker[b].ev>> /\ worker[b].at = "spill"
      BY <1>6, <2>2, <3>1 DEF WorkerSpill, WalAppendEvent, Log!Log
    <3>3. QED
      BY <3>2 DEF Known, QueuesKnow
  <2>3. QED
    BY <2>1, <2>2
<1>7. LogKnows'
  BY <1>6, WorkKeeps DEF Known, LogKnows
<1>8. QED
  BY <1>2, <1>5, <1>7 DEF Known

LEMMA NextKnown == TypeOK /\ Known /\ [Next]_vars => Known'
<1> SUFFICES ASSUME TypeOK, Known, [Next]_vars PROVE Known'
  OBVIOUS
<1> USE DEF chainVars, logVars, stopVars
<1>1. Counted \subseteq Counted'
  BY CountedGrows
<1>2. ASSUME UNCHANGED <<producer, worker, chan, logged>>,
             replay'.at # "idle" => replay'.entry[2] \in Counted'
      PROVE  Known'
  BY <1>1, <1>2 DEF Known, CallersKnow, QueuesKnow, LogKnows
<1>3. ASSUME UNCHANGED <<producer, worker, chan, replay>>, logged' \subseteq logged
      PROVE  Known'
  BY <1>1, <1>3 DEF Known, CallersKnow, QueuesKnow, LogKnows
<1>4. ASSUME NEW p \in Producers, NEW e \in Events, BeginRecord(p, e) PROVE Known'
  <2>1. UNCHANGED <<worker, chan, replay, logged>>
    BY <1>4 DEF BeginRecord
  <2>2. \A q \in Producers : producer'[q] = producer[q] \/ producer'[q].at = "l1"
    BY <1>4 DEF BeginRecord, TypeOK
  <2>3. CallersKnow'
    BY <1>1, <2>2 DEF Known, CallersKnow
  <2>4. QED
    BY <1>1, <2>1, <2>3 DEF Known, QueuesKnow, LogKnows
<1>5. ASSUME NEW p \in Producers, Record(p) PROVE Known'
  BY <1>1, <1>5, RecordKnown
<1>6. ASSUME NEW b \in Backends, Work(b) PROVE Known'
  BY <1>1, <1>6, WorkKnown
<1>7. CASE ReplayEntry
  <2>1. UNCHANGED <<producer, worker, chan, logged>>
    BY <1>7, ReplayKeeps
  <2>2. \/ replay'.at = "idle"
        \/ replay'.entry = replay.entry /\ replay.at # "idle"
    BY <1>7 DEF TypeOK, ReplayEntry, ReplayGate, ReplayWrite, ReplaySucceeds, ReplayFails,
                ReplayAt, IdleReplay
  <2>3. replay'.at # "idle" => replay'.entry[2] \in Counted'
    BY <1>1, <2>2 DEF Known, LogKnows
  <2>4. QED
    BY <1>2, <2>1, <2>3
<1>8. ASSUME NEW entry \in logged, ReplayStarts(entry) PROVE Known'
  BY <1>1, <1>2, <1>8 DEF ReplayStarts, Known, LogKnows
<1>9. CASE DeleteReplayed
  BY <1>3, <1>9 DEF DeleteReplayed, Log!Forget
<1>10. CASE Prune \/ StopBegins \/ StopEnds \/ UNCHANGED vars
  BY <1>3, <1>10 DEF Prune, StopBegins, StopEnds, vars
<1>11. ASSUME NEW b \in Backends, CooldownPasses(b) PROVE Known'
  BY <1>3, <1>11 DEF CooldownPasses
<1>12. ASSUME NEW p \in Producers, NEW e \in Events, Duplicate(p, e) PROVE Known'
  BY <1>3, <1>12 DEF Duplicate, vars
<1>13. QED
  BY <1>4, <1>5, <1>6, <1>7, <1>8, <1>9, <1>10, <1>11, <1>12 DEF Next

-----------------------------------------------------------------------------
(* The refinement mapping *)

\* What EventDelivery calls durable.
DurableAt == [b \in Backends |-> {e \in Events : Durable(b, e)}]

\* And what it calls refused.
RefusedAt == [b \in Backends |-> {e \in Events : <<b, e>> \in refused}]

\* Nothing becomes durable and nothing ceases to be.
LEMMA SameDurable ==
    ASSUME \A c \in Backends, f \in Events : Durable(c, f)' <=> Durable(c, f)
    PROVE  DurableAt' = DurableAt
BY DEF DurableAt

\* The log refuses nothing new.
LEMMA SameRefused ==
    ASSUME refused' = refused
    PROVE  RefusedAt' = RefusedAt
BY DEF RefusedAt

\* One counted event becomes durable at one backend.
LEMMA OneMoreDurable ==
    ASSUME NEW b \in Backends, NEW e \in Counted, Counted' = Counted, refused' = refused,
           \A c \in Backends, f \in Events :
               Durable(c, f)' <=> Durable(c, f) \/ (c = b /\ f = e)
    PROVE  Delivery!Next
<1>1. e \in Events
  BY DEF Counted
<1>2. DurableAt' = [DurableAt EXCEPT ![b] = @ \cup {e}]
  <2>1. \A c \in Backends : DurableAt'[c] = {f \in Events : Durable(c, f) \/ (c = b /\ f = e)}
    BY DEF DurableAt
  <2>2. \A c \in Backends :
            DurableAt'[c] = IF c = b THEN DurableAt[c] \cup {e} ELSE DurableAt[c]
    BY <1>1, <2>1 DEF DurableAt
  <2>3. DurableAt' = [c \in Backends |-> DurableAt'[c]]
    BY DEF DurableAt
  <2>4. QED
    BY <2>2, <2>3 DEF DurableAt
<1>3. Delivery!Secure(b, e)
  BY <1>2, SameRefused DEF Delivery!Secure, DurableAt, RefusedAt
<1>4. QED
  BY <1>1, <1>3 DEF Delivery!Next

\* The log refuses one counted event for one backend.
LEMMA OneMoreRefused ==
    ASSUME NEW b \in Backends, NEW e \in Counted, UNCHANGED <<memory, store, logged>>,
           refused' = refused \cup {<<b, e>>}
    PROVE  Delivery!Next
<1>1. e \in Events /\ Counted' = Counted
  BY DEF Counted
<1>2. DurableAt' = DurableAt
  BY SameDurable DEF Durable
<1>3. \A c \in Backends :
          RefusedAt'[c] = IF c = b THEN RefusedAt[c] \cup {e} ELSE RefusedAt[c]
  BY <1>1 DEF RefusedAt
<1>4. RefusedAt' = [RefusedAt EXCEPT ![b] = @ \cup {e}]
  <2>1. RefusedAt' = [c \in Backends |-> RefusedAt'[c]]
    BY DEF RefusedAt
  <2>2. QED
    BY <1>3, <2>1 DEF RefusedAt
<1>5. Delivery!Refuse(b, e)
  BY <1>1, <1>2, <1>4 DEF Delivery!Refuse, DurableAt, RefusedAt
<1>6. QED
  BY <1>1, <1>5 DEF Delivery!Next

\* A step of a caller, a worker or the replay for event e and backend b.
LEMMA DurableStep ==
    ASSUME TypeOK, NEW b \in Backends, NEW e \in Events, e \in Counted, memory' = memory,
           \/ /\ logged' = logged /\ refused' = refused
              /\ store' = store \/ store' = [store EXCEPT ![b] = @ \cup {e}]
           \/ store' = store /\ logged' = logged \cup {<<b, e>>} /\ refused' = refused
           \/ store' = store /\ logged' = logged /\ refused' = refused \cup {<<b, e>>}
    PROVE  Delivery!Next \/ UNCHANGED Delivery!vars
<1>1. Counted' = Counted
  BY DEF Counted
<1>2. store \in [Backends -> SUBSET Events]
  BY DEF TypeOK
<1>3. CASE refused' = refused
           /\ \A c \in Backends, f \in Events : Durable(c, f)' <=> Durable(c, f)
  BY <1>1, <1>3, SameDurable, SameRefused DEF Delivery!vars, DurableAt, RefusedAt
<1>4. CASE refused' = refused
           /\ \A c \in Backends, f \in Events :
                 Durable(c, f)' <=> Durable(c, f) \/ (c = b /\ f = e)
  BY <1>1, <1>4, OneMoreDurable
<1>5. CASE UNCHANGED <<store, logged, refused>>
  BY <1>3, <1>5 DEF Durable
<1>6. CASE store' = [store EXCEPT ![b] = @ \cup {e}] /\ logged' = logged /\ refused' = refused
  BY <1>2, <1>4, <1>6 DEF Durable
<1>7. CASE store' = store /\ logged' = logged \cup {<<b, e>>} /\ refused' = refused
  BY <1>4, <1>7 DEF Durable
<1>8. CASE store' = store /\ logged' = logged /\ refused' = refused \cup {<<b, e>>}
  BY <1>8, OneMoreRefused
<1>9. QED
  BY <1>5, <1>6, <1>7, <1>8

\* A step that writes nowhere.
LEMMA IdleStep ==
    ASSUME UNCHANGED <<memory, store, logged, refused>>
    PROVE  UNCHANGED Delivery!vars
<1>1. Counted' = Counted
  BY DEF Counted
<1>2. \A c \in Backends, f \in Events : Durable(c, f)' <=> Durable(c, f)
  BY DEF Durable
<1>3. QED
  BY <1>1, <1>2, SameDurable, SameRefused DEF Delivery!vars, DurableAt, RefusedAt

LEMMA StepRefines ==
    ASSUME IInv, Known, [Next]_vars
    PROVE  Delivery!Next \/ UNCHANGED Delivery!vars
<1> USE DEF chainVars, logVars, stopVars
<1>1. TypeOK
  BY DEF IInv, Support
<1>2. memory \in [Events -> Nat] /\ store \in [Backends -> SUBSET Events]
  BY <1>1 DEF TypeOK
<1>3. ASSUME NEW p \in Producers, WriteL1(p) PROVE Delivery!Next \/ UNCHANGED Delivery!vars
  <2>1. producer[p].ev \in Events /\ memory' = [memory EXCEPT ![producer[p].ev] = @ + 1]
        /\ UNCHANGED <<store, logged, refused>>
    BY <1>1, <1>3 DEF WriteL1, TypeOK
  <2>2. Counted' = Counted \cup {producer[p].ev}
    BY <1>2, <2>1 DEF Counted
  <2>3. DurableAt' = DurableAt
    <3>1. \A c \in Backends, f \in Events : Durable(c, f)' <=> Durable(c, f)
      BY <2>1 DEF Durable
    <3>2. QED
      BY <3>1, SameDurable
  <2>4. Delivery!Accept(producer[p].ev)
    BY <2>1, <2>2, <2>3, SameRefused DEF Delivery!Accept, DurableAt, RefusedAt
  <2>5. QED
    BY <2>1, <2>4 DEF Delivery!Next
<1>4. ASSUME NEW p \in Producers, NEW b \in Backends, Spill(p, b)
      PROVE  Delivery!Next \/ UNCHANGED Delivery!vars
  <2>1. producer[p].ev \in Events /\ producer[p].ev \in Counted
    BY <1>1, <1>4 DEF Spill, TypeOK, Known, CallersKnow
  <2>2. /\ memory' = memory /\ store' = store
        /\ \/ logged' = logged \cup {<<b, producer[p].ev>>} /\ refused' = refused
           \/ logged' = logged /\ refused' = refused \cup {<<b, producer[p].ev>>}
    BY <1>4 DEF Spill, WalAppendEvent, Log!Log
  <2>3. QED
    BY <1>1, <2>1, <2>2, DurableStep
<1>5. ASSUME NEW b \in Backends, WorkerWrite(b) \/ WorkerSpill(b)
      PROVE  Delivery!Next \/ UNCHANGED Delivery!vars
  <2>1. worker[b].ev \in Events /\ worker[b].ev \in Counted
    BY <1>1, <1>5 DEF WorkerWrite, WorkerSpill, TypeOK, Known, QueuesKnow
  <2>2. CASE WorkerWrite(b)
    <3>1. memory' = memory /\ logged' = logged /\ refused' = refused
          /\ (store' = store \/ store' = [store EXCEPT ![b] = @ \cup {worker[b].ev}])
      BY <2>2 DEF WorkerWrite, CallBackend
    <3>2. QED
      BY <1>1, <2>1, <3>1, DurableStep
  <2>3. CASE WorkerSpill(b)
    <3>1. /\ memory' = memory /\ store' = store
          /\ \/ logged' = logged \cup {<<b, worker[b].ev>>} /\ refused' = refused
             \/ logged' = logged /\ refused' = refused \cup {<<b, worker[b].ev>>}
      BY <2>3 DEF WorkerSpill, WalAppendEvent, Log!Log
    <3>2. QED
      BY <1>1, <2>1, <3>1, DurableStep
  <2>4. QED
    BY <1>5, <2>2, <2>3
<1>6. ASSUME ReplayWrite PROVE Delivery!Next \/ UNCHANGED Delivery!vars
  <2>1. replay.entry \in Entry /\ replay.entry[2] \in Counted
    BY <1>1, <1>6 DEF ReplayWrite, TypeOK, Known, LogKnows
  <2>2. replay.entry[1] \in Backends /\ replay.entry[2] \in Events
    BY <2>1 DEF Entry
  <2>3. memory' = memory /\ logged' = logged /\ refused' = refused
        /\ (store' = store
            \/ store' = [store EXCEPT ![replay.entry[1]] = @ \cup {replay.entry[2]}])
    BY <1>6 DEF ReplayWrite, CallBackend
  <2>4. QED
    BY <1>1, <2>1, <2>2, <2>3, DurableStep
<1>7. ASSUME DeleteReplayed PROVE Delivery!Next \/ UNCHANGED Delivery!vars
  <2>1. memory' = memory /\ store' = store /\ refused' = refused
        /\ logged' \subseteq logged /\ logged \ logged' \subseteq delivered
    BY <1>7 DEF DeleteReplayed, Log!Forget
  <2>2. \A c \in Backends, f \in Events : <<c, f>> \in delivered => f \in store[c]
    BY DEF IInv, Support, SuccessIsStored
  <2>3. \A c \in Backends, f \in Events : Durable(c, f)' <=> Durable(c, f)
    BY <2>1, <2>2 DEF Durable
  <2>4. Counted' = Counted
    BY <2>1 DEF Counted
  <2>5. QED
    BY <2>1, <2>3, <2>4, SameDurable, SameRefused DEF Delivery!vars, DurableAt, RefusedAt
<1>8. ASSUME NEW p \in Producers, Record(p) PROVE Delivery!Next \/ UNCHANGED Delivery!vars
  <2>1. (\E b \in Backends : Gate(p, b) \/ Send(p, b)) \/ SendOnClosed(p)
          => UNCHANGED <<memory, store, logged, refused>>
    BY DEF Gate, Send, SendOnClosed
  <2>2. QED
    BY <1>3, <1>4, <1>8, <2>1, IdleStep DEF Record
<1>9. ASSUME NEW b \in Backends, Work(b) PROVE Delivery!Next \/ UNCHANGED Delivery!vars
  <2>1. Receive(b) \/ WorkerGate(b) \/ WorkerSucceeds(b) \/ WorkerFails(b) \/ WorkerExits(b)
          => UNCHANGED <<memory, store, logged, refused>>
    BY DEF Receive, WorkerGate, WorkerSucceeds, WorkerFails, WorkerExits
  <2>2. QED
    BY <1>5, <1>9, <2>1, IdleStep DEF Work
<1>10. CASE ReplayEntry
  <2>1. ReplayGate \/ ReplaySucceeds \/ ReplayFails => UNCHANGED <<memory, store, logged, refused>>
    BY DEF ReplayGate, ReplaySucceeds, ReplayFails, Log!Deliver
  <2>2. QED
    BY <1>6, <1>10, <2>1, IdleStep DEF ReplayEntry
<1>11. CASE \E p \in Producers, e \in Events : BeginRecord(p, e)
  BY <1>11, IdleStep DEF BeginRecord
<1>12. CASE Prune \/ StopBegins \/ StopEnds \/ UNCHANGED vars
  BY <1>12, IdleStep DEF Prune, StopBegins, StopEnds, vars
<1>13. CASE \/ \E b \in Backends : CooldownPasses(b)
            \/ \E p \in Producers, e \in Events : Duplicate(p, e)
  BY <1>13, IdleStep DEF CooldownPasses, Duplicate, vars
<1>14. CASE \E entry \in logged : ReplayStarts(entry)
  BY <1>14, IdleStep DEF ReplayStarts
<1>15. QED
  BY <1>7, <1>8, <1>9, <1>10, <1>11, <1>12, <1>13, <1>14 DEF Next

(* The write path implements EventDelivery's safety half: an event becomes *)
(* durable only after it was counted, one backend at a time, and through   *)
(* failures, replays and the deletion of segments never ceases to be.      *)
THEOREM RefinesEventDelivery == Spec => ImplementsEventDeliverySafe
<1>1. Init => Delivery!Init
  <2> SUFFICES ASSUME Init PROVE Delivery!Init
    OBVIOUS
  <2>1. \A c \in Backends : {f \in Events : Durable(c, f)} = {}
    BY DEF Init, Durable
  <2>2. Counted = {} /\ refused = {}
    BY DEF Init, Counted
  <2>3. QED
    BY <2>1, <2>2 DEF Delivery!Init
<1>2. Spec => []Known
  <2>1. Spec => []TypeOK
    BY TypeCorrect
  <2>2. QED
    BY <2>1, InitKnown, NextKnown, PTL DEF Spec
<1>3. IInv /\ Known /\ [Next]_vars => [Delivery!Next]_(Delivery!vars)
  BY StepRefines
<1>4. QED
  BY <1>1, <1>2, <1>3, IInvHolds, PTL DEF Spec, ImplementsEventDeliverySafe, Delivery!SafeSpec


-----------------------------------------------------------------------------
(***************************************************************************)
(* An event is counted once in a retention window.  What makes this        *)
(* inductive is that a caller which has entered the event in the dedup     *)
(* table and not yet written it has already used up the entry.             *)
(***************************************************************************)

\* The callers that are about to write e to L1.
Entering(e) == {p \in Producers : producer[p].at = "l1" /\ producer[p].ev = e}

CountInv ==
    \A e \in Events \ Unnamed :
        /\ IsFiniteSet(Entering(e))
        /\ memory[e] + Cardinality(Entering(e)) <= prunes + (IF e \in seen THEN 1 ELSE 0)

LEMMA InitCount == Init => CountInv
<1> SUFFICES ASSUME Init, NEW e \in Events \ Unnamed
             PROVE  /\ IsFiniteSet(Entering(e))
                    /\ memory[e] + Cardinality(Entering(e))
                         <= prunes + (IF e \in seen THEN 1 ELSE 0)
  BY DEF CountInv
<1>1. Entering(e) = {}
  BY DEF Init, Entering, IdleProducer
<1>2. memory[e] = 0 /\ prunes = 0 /\ e \notin seen
  BY DEF Init
<1>3. QED
  BY <1>1, <1>2, FS_EmptySet

\* Nobody starts or ends writing e, and nothing but the time has changed.
LEMMA SameCount ==
    ASSUME CountInv, memory' = memory, seen' = seen, prunes' = prunes,
           \A p \in Producers : \/ producer'[p] = producer[p]
                                \/ producer[p].at # "l1" /\ producer'[p].at # "l1"
    PROVE  CountInv'
<1>1. \A e \in Events : Entering(e)' = Entering(e)
  BY DEF Entering
<1>2. QED
  BY <1>1 DEF CountInv

\* The fan-out loop never goes back to the first step.
LEMMA RecordEnters ==
    ASSUME TypeOK, NEW p \in Producers, Record(p), ~WriteL1(p)
    PROVE  /\ UNCHANGED <<memory, seen, prunes>>
           /\ \A q \in Producers \ {p} : producer'[q] = producer[q]
           /\ producer[p].at # "l1" /\ producer'[p].at # "l1"
<1> USE DEF chainVars
<1>1. producer \in [Producers -> [at : ProducerState, ev : Events \cup {NoEvent},
                                  todo : SUBSET Backends]]
  BY DEF TypeOK
<1>2. UNCHANGED <<memory, seen, prunes>> /\ producer[p].at # "l1"
  BY DEF Record, Gate, Send, Spill, SendOnClosed
<1>3. \A q \in Producers \ {p} : producer'[q] = producer[q]
  BY <1>1 DEF Record, Gate, Send, Spill, SendOnClosed
<1>4. \A b \in Backends : Advanced(p, b).at # "l1"
  BY <1>1 DEF Advanced, IdleProducer
<1>5. producer'[p].at # "l1"
  BY <1>1, <1>4 DEF Record, Gate, Send, Spill, SendOnClosed, IdleProducer
<1>6. QED
  BY <1>2, <1>3, <1>5

\* A caller enters e, which was not in the table.
LEMMA BeginCounts ==
    ASSUME TypeOK, CountInv, NEW p \in Producers, NEW e \in Events, BeginRecord(p, e)
    PROVE  CountInv'
<1>1. /\ producer[p].at = "idle"
      /\ IF e \in Unnamed THEN seen' = seen ELSE e \notin seen /\ seen' = seen \cup {e}
      /\ producer' = [producer EXCEPT ![p] = [at |-> "l1", ev |-> e, todo |-> {}]]
      /\ memory' = memory /\ prunes' = prunes
  BY DEF BeginRecord
<1>2. producer \in [Producers -> [at : ProducerState, ev : Events \cup {NoEvent},
                                  todo : SUBSET Backends]]
  BY DEF TypeOK
<1>3. memory[e] \in Nat /\ prunes \in Nat
  BY DEF TypeOK
<1>4. ASSUME NEW f \in Events \ Unnamed
      PROVE  /\ IsFiniteSet(Entering(f)')
             /\ memory'[f] + Cardinality(Entering(f)')
                  <= prunes' + (IF f \in seen' THEN 1 ELSE 0)
  <2>1. CASE f # e
    <3>1. Entering(f)' = Entering(f)
      BY <1>1, <1>2, <2>1 DEF Entering
    <3>2. QED
      BY <1>1, <2>1, <3>1 DEF CountInv
  <2>2. CASE f = e
    <3>1. Entering(f)' = Entering(f) \cup {p} /\ p \notin Entering(f)
      BY <1>1, <1>2, <2>2 DEF Entering
    <3>2. /\ IsFiniteSet(Entering(f)')
          /\ Cardinality(Entering(f)') = Cardinality(Entering(f)) + 1
          /\ Cardinality(Entering(f)) \in Nat
      BY <3>1, FS_AddElement, FS_CardinalityType DEF CountInv
    <3>3. memory[f] + Cardinality(Entering(f)) <= prunes
      BY <1>1, <1>3, <2>2, <3>2 DEF CountInv
    <3>4. QED
      BY <1>1, <1>3, <2>2, <3>2, <3>3
  <2>3. QED
    BY <2>1, <2>2
<1>5. QED
  BY <1>4 DEF CountInv

\* A caller writes the event it had entered.
LEMMA WriteCounts ==
    ASSUME TypeOK, CountInv, NEW p \in Producers, WriteL1(p)
    PROVE  CountInv'
<1> DEFINE e == producer[p].ev
<1>1. /\ producer[p].at = "l1" /\ e \in Events
      /\ memory' = [memory EXCEPT ![e] = @ + 1]
      /\ producer' = [producer EXCEPT ![p] = [at |-> "gate", ev |-> e, todo |-> Backends]]
      /\ seen' = seen /\ prunes' = prunes
  BY DEF WriteL1, TypeOK
<1>2. producer \in [Producers -> [at : ProducerState, ev : Events \cup {NoEvent},
                                  todo : SUBSET Backends]]
  BY DEF TypeOK
<1>3. memory \in [Events -> Nat] /\ prunes \in Nat
  BY DEF TypeOK
<1>4. ASSUME NEW f \in Events \ Unnamed
      PROVE  /\ IsFiniteSet(Entering(f)')
             /\ memory'[f] + Cardinality(Entering(f)')
                  <= prunes' + (IF f \in seen' THEN 1 ELSE 0)
  <2>1. CASE f # e
    <3>1. Entering(f)' = Entering(f) /\ memory'[f] = memory[f]
      BY <1>1, <1>2, <1>3, <2>1 DEF Entering
    <3>2. QED
      BY <1>1, <3>1 DEF CountInv
  <2>2. CASE f = e
    <3>1. Entering(f)' = Entering(f) \ {p} /\ p \in Entering(f)
      BY <1>1, <1>2, <2>2 DEF Entering
    <3>2. /\ IsFiniteSet(Entering(f)')
          /\ Cardinality(Entering(f)') = Cardinality(Entering(f)) - 1
          /\ Cardinality(Entering(f)) \in Nat
      BY <3>1, FS_RemoveElement, FS_CardinalityType DEF CountInv
    <3>3. memory'[f] = memory[f] + 1 /\ memory[f] \in Nat
      BY <1>1, <1>3, <2>2
    <3>4. QED
      BY <1>1, <1>3, <3>2, <3>3 DEF CountInv
  <2>3. QED
    BY <2>1, <2>2
<1>5. QED
  BY <1>4 DEF CountInv

LEMMA NextCount == TypeOK /\ CountInv /\ [Next]_vars => CountInv'
<1> SUFFICES ASSUME TypeOK, CountInv, [Next]_vars PROVE CountInv'
  OBVIOUS
<1> USE DEF chainVars
<1>1. ASSUME NEW p \in Producers, NEW e \in Events, BeginRecord(p, e) PROVE CountInv'
  BY <1>1, BeginCounts
<1>2. ASSUME NEW p \in Producers, Record(p) PROVE CountInv'
  <2>1. CASE WriteL1(p)
    BY <2>1, WriteCounts
  <2>2. CASE ~WriteL1(p)
    BY <1>2, <2>2, RecordEnters, SameCount
  <2>3. QED
    BY <2>1, <2>2
<1>3. CASE Prune
  <2>1. /\ prunes' = prunes + 1 /\ seen' \subseteq seen /\ memory' = memory
        /\ producer' = producer /\ prunes \in Nat /\ memory \in [Events -> Nat]
    BY <1>3 DEF Prune, TypeOK
  <2>2. ASSUME NEW e \in Events \ Unnamed
        PROVE  /\ IsFiniteSet(Entering(e)')
               /\ memory'[e] + Cardinality(Entering(e)')
                    <= prunes' + (IF e \in seen' THEN 1 ELSE 0)
    <3>1. Entering(e)' = Entering(e)
      BY <2>1 DEF Entering
    <3>2. Cardinality(Entering(e)) \in Nat /\ memory[e] \in Nat
      BY <2>1, FS_CardinalityType DEF CountInv
    <3>3. memory[e] + Cardinality(Entering(e)) <= prunes + 1
      BY <2>1, <3>2 DEF CountInv
    <3>4. QED
      BY <2>1, <3>1, <3>2, <3>3 DEF CountInv
  <2>3. QED
    BY <2>2 DEF CountInv
<1>4. ASSUME NEW b \in Backends, Work(b) PROVE CountInv'
  <2>1. UNCHANGED <<producer, memory, seen, prunes>>
    BY <1>4 DEF Work, Receive, WorkerGate, WorkerWrite, WorkerSucceeds, WorkerFails,
                WorkerSpill, WorkerExits
  <2>2. QED
    BY <2>1, SameCount
<1>5. CASE ReplayEntry
  <2>1. UNCHANGED <<producer, memory, seen, prunes>>
    BY <1>5 DEF ReplayEntry, ReplayGate, ReplayWrite, ReplaySucceeds, ReplayFails
  <2>2. QED
    BY <2>1, SameCount
<1>6. CASE (\E entry \in logged : ReplayStarts(entry)) \/ DeleteReplayed
  <2>1. UNCHANGED <<producer, memory, seen, prunes>>
    BY <1>6 DEF ReplayStarts, DeleteReplayed
  <2>2. QED
    BY <2>1, SameCount
<1>7. CASE \/ \E b \in Backends : CooldownPasses(b)
           \/ \E p \in Producers, e \in Events : Duplicate(p, e)
  <2>1. UNCHANGED <<producer, memory, seen, prunes>>
    BY <1>7 DEF CooldownPasses, Duplicate, vars
  <2>2. QED
    BY <2>1, SameCount
<1>8. CASE StopBegins \/ StopEnds \/ UNCHANGED vars
  <2>1. UNCHANGED <<producer, memory, seen, prunes>>
    BY <1>8 DEF StopBegins, StopEnds, vars
  <2>2. QED
    BY <2>1, SameCount
<1>9. QED
  BY <1>1, <1>2, <1>3, <1>4, <1>5, <1>6, <1>7, <1>8 DEF Next

(* However many goroutines present an event at once, and wherever they     *)
(* are when the prune goroutine forgets it, L1 counts it at most once more *)
(* than it was forgotten: the table is read and written under one lock.    *)
THEOREM CountedOnceHolds == Spec => []CountedOnce
<1>1. TypeOK /\ CountInv => CountedOnce
  <2> SUFFICES ASSUME TypeOK, CountInv, NEW e \in Events \ Unnamed PROVE memory[e] <= 1 + prunes
    BY DEF CountedOnce
  <2>1. memory[e] \in Nat /\ prunes \in Nat /\ Cardinality(Entering(e)) \in Nat
    BY FS_CardinalityType DEF TypeOK, CountInv
  <2>2. memory[e] + Cardinality(Entering(e)) <= prunes + (IF e \in seen THEN 1 ELSE 0)
    BY DEF CountInv
  <2>3. QED
    BY <2>1, <2>2
<1>2. Spec => []TypeOK
  BY TypeCorrect
<1>3. Spec => []CountInv
  BY <1>2, InitCount, NextCount, PTL DEF Spec
<1>4. QED
  BY <1>1, <1>2, <1>3, PTL


-----------------------------------------------------------------------------
(***************************************************************************)
(* What a crash can lose is bounded by the channel and the worker.         *)
(***************************************************************************)

\* A bounded channel: a send that finds it full does not wait, it overflows.
Room == \A b \in Backends : Len(chan[b]) <= ChannelSize

LEMMA InitRoom == Init => Room
<1> SUFFICES ASSUME Init, NEW b \in Backends PROVE Len(chan[b]) <= ChannelSize
  BY DEF Room
<1>1. chan[b] = <<>>
  BY DEF Init
<1>2. QED
  BY <1>1

LEMMA NextRoom == TypeOK /\ Room /\ [Next]_vars => Room'
<1> SUFFICES ASSUME TypeOK, Room, [Next]_vars PROVE Room'
  OBVIOUS
<1> USE DEF chainVars
<1>1. chan \in [Backends -> Seq(Events)]
  BY DEF TypeOK
<1>2. chan' = chan => Room'
  BY DEF Room
<1>3. ASSUME NEW p \in Producers, NEW b \in Backends, Send(p, b) PROVE Room'
  <2>1. CASE chan' = chan
    BY <1>2, <2>1
  <2>2. CASE Len(chan[b]) < ChannelSize /\ chan' = [chan EXCEPT ![b] = Append(@, producer[p].ev)]
    <3>1. producer[p].ev \in Events
      BY <1>3 DEF Send, TypeOK
    <3>2. Len(chan'[b]) = Len(chan[b]) + 1 /\ Len(chan[b]) \in Nat
      BY <1>1, <2>2, <3>1
    <3>3. \A c \in Backends : c # b => chan'[c] = chan[c]
      BY <1>1, <2>2
    <3>4. Len(chan'[b]) <= ChannelSize
      BY <2>2, <3>2
    <3>5. QED
      BY <3>3, <3>4 DEF Room
  <2>3. QED
    BY <1>3, <2>1, <2>2 DEF Send
<1>4. ASSUME NEW p \in Producers, Record(p) PROVE Room'
  <2>1. chan' = chan \/ \E b \in Backends : Send(p, b)
    BY <1>4 DEF Record, WriteL1, Gate, Spill, SendOnClosed
  <2>2. QED
    BY <1>2, <1>3, <2>1
<1>5. ASSUME NEW b \in Backends, Work(b) PROVE Room'
  <2>1. CASE Receive(b)
    <3>1. chan[b] # <<>> /\ chan' = [chan EXCEPT ![b] = Tail(@)]
      BY <2>1 DEF Receive
    <3>2. Len(chan'[b]) <= Len(chan[b]) /\ Len(chan[b]) \in Nat /\ Len(chan'[b]) \in Nat
      BY <1>1, <3>1
    <3>3. \A c \in Backends : c # b => chan'[c] = chan[c]
      BY <1>1, <3>1
    <3>4. Len(chan'[b]) <= ChannelSize
      BY <3>2 DEF Room
    <3>5. QED
      BY <3>3, <3>4 DEF Room
  <2>2. CASE ~Receive(b)
    <3>1. chan' = chan
      BY <1>5, <2>2 DEF Work, WorkerGate, WorkerWrite, WorkerSucceeds, WorkerFails,
                        WorkerSpill, WorkerExits
    <3>2. QED
      BY <1>2, <3>1
  <2>3. QED
    BY <2>1, <2>2
<1>6. CASE ReplayEntry
  BY <1>2, <1>6, ReplayKeeps
<1>7. CASE \E p \in Producers, e \in Events : BeginRecord(p, e)
  BY <1>2, <1>7 DEF BeginRecord
<1>8. CASE Prune \/ DeleteReplayed \/ StopBegins \/ StopEnds \/ UNCHANGED vars
  BY <1>2, <1>8 DEF Prune, DeleteReplayed, StopBegins, StopEnds, vars
<1>9. CASE \/ \E b \in Backends : CooldownPasses(b)
           \/ \E p \in Producers, e \in Events : Duplicate(p, e)
  BY <1>2, <1>9 DEF CooldownPasses, Duplicate, vars
<1>10. CASE \E entry \in logged : ReplayStarts(entry)
  BY <1>2, <1>10 DEF ReplayStarts
<1>11. QED
  BY <1>4, <1>5, <1>6, <1>7, <1>8, <1>9, <1>10 DEF Next

\* A sequence holds no more elements than it is long.
LEMMA ElementsBounded ==
    ASSUME NEW S, NEW s \in Seq(S)
    PROVE  /\ IsFiniteSet({s[i] : i \in 1 .. Len(s)})
           /\ Cardinality({s[i] : i \in 1 .. Len(s)}) <= Len(s)
<1> DEFINE dom == 1 .. Len(s)
           elements == {s[i] : i \in dom}
<1>1. Len(s) \in Nat /\ s \in [dom -> S]
  OBVIOUS
<1>2. IsFiniteSet(dom) /\ Cardinality(dom) = Len(s)
  <2>1. 1 \in Int /\ Len(s) \in Int
    BY <1>1
  <2>2. IsFiniteSet(dom) /\ Cardinality(dom) = IF 1 > Len(s) THEN 0 ELSE Len(s) - 1 + 1
    BY <2>1, FS_Interval, Zenon
  <2>3. QED
    BY <1>1, <2>2
<1>3. s \in [dom -> elements]
  BY <1>1
<1>4. s \in Surjection(dom, elements)
  BY <1>3 DEF Surjection
<1>5. IsFiniteSet(elements) /\ Cardinality(elements) <= Cardinality(dom)
  BY <1>2, <1>4, FS_Surjection, Zenon
<1>6. QED
  BY <1>2, <1>5

(* A crash loses, of the events whose recording has returned, at most a    *)
(* channel of them and the one in the worker's hands, at each backend and  *)
(* however long the backend has been failing.                              *)
THEOREM BoundedLossHolds == Spec => []BoundedLoss
<1>1. IInv /\ Room => BoundedLoss
  <2> SUFFICES ASSUME IInv, Room, ~forced, NEW b \in Backends
               PROVE  Cardinality(AtRisk(b)) <= ChannelSize + 1
    BY DEF BoundedLoss
  <2> DEFINE queue == {chan[b][i] : i \in 1 .. Len(chan[b])}
  <2>1. chan[b] \in Seq(Events)
    BY DEF IInv, Support, TypeOK
  <2>2. IsFiniteSet(queue) /\ Cardinality(queue) <= Len(chan[b])
    BY <2>1, ElementsBounded
  <2>3. IsFiniteSet(queue \cup {worker[b].ev})
        /\ Cardinality(queue \cup {worker[b].ev}) <= Cardinality(queue) + 1
    <3>1. Cardinality(queue) \in Nat
      BY <2>2, FS_CardinalityType
    <3>2. /\ IsFiniteSet(queue \cup {worker[b].ev})
          /\ Cardinality(queue \cup {worker[b].ev}) =
               IF worker[b].ev \in queue THEN Cardinality(queue) ELSE Cardinality(queue) + 1
      BY <2>2, FS_AddElement, Zenon
    <3>3. QED
      BY <3>1, <3>2
  <2>4. AtRisk(b) \subseteq queue \cup {worker[b].ev}
    <3> SUFFICES ASSUME NEW e \in AtRisk(b), e \notin queue PROVE e = worker[b].ev
      OBVIOUS
    <3>1. e \in owed /\ ~Durable(b, e) /\ <<b, e>> \notin refused
          /\ \A p \in Producers : producer[p].ev # e
      BY DEF AtRisk
    <3>2. ~Queued(b, e) /\ ~InProducer(b, e)
      BY <3>1 DEF Queued, InProducer
    <3>3. InWorker(b, e)
      BY <3>1, <3>2 DEF IInv, AllHeld, Held
    <3>4. QED
      BY <3>3 DEF InWorker
  <2>5. IsFiniteSet(AtRisk(b)) /\ Cardinality(AtRisk(b)) <= Cardinality(queue \cup {worker[b].ev})
    BY <2>3, <2>4, FS_Subset
  <2>6. Len(chan[b]) \in Nat /\ Len(chan[b]) <= ChannelSize
    BY <2>1 DEF Room
  <2>7. /\ Cardinality(AtRisk(b)) \in Nat /\ Cardinality(queue) \in Nat
        /\ Cardinality(queue \cup {worker[b].ev}) \in Nat
    BY <2>2, <2>3, <2>5, FS_CardinalityType
  <2>8. QED
    BY <2>2, <2>3, <2>5, <2>6, <2>7
<1>2. Spec => []TypeOK
  BY TypeCorrect
<1>3. Spec => []Room
  BY <1>2, InitRoom, NextRoom, PTL DEF Spec
<1>4. QED
  BY <1>1, <1>3, IInvHolds, PTL
=============================================================================
