---------------------------- MODULE MeteringChain ----------------------------
(***************************************************************************)
(* The write path of the metering chain (internal/kernel/metering_chain.go)*)
(* in one incarnation of the process: the goroutines that record usage     *)
(* events, the async write worker of every backend, the WAL replay loop,   *)
(* and Stop.  They share the dedup table, the memory store (L1), a circuit *)
(* breaker and a bounded channel per backend, and the write-ahead log.     *)
(*                                                                         *)
(* Each lock, channel operation and backend call is a step.  The breaker   *)
(* is CircuitBreaker's; the log is DurableLog, which MeteringWAL           *)
(* implements.  A backend stores an event once, whatever how often it is   *)
(* sent (ON CONFLICT (event_id) DO NOTHING; ZADD of the same member).      *)
(***************************************************************************)
EXTENDS CircuitBreaker, Sequences, FiniteSets

CONSTANTS
    Backends,      \* the backends with priority > 0, written asynchronously
    Priority,      \* their order in the fan-out
    Events,        \* usage events, by EventID
    Unnamed,       \* the empty EventID, if any event comes without one
    NoEvent,
    Producers,     \* goroutines calling RecordMeteringEvent
    ChannelSize,
    MayStop,       \* does somebody call Stop()?
    MaxPrunes,     \* bound on the prune cycles that expire something
    MaxUnnamed     \* bound on the events without an ID

ASSUME ChainAssumption ==
    /\ Backends # {}
    /\ Priority \in [Backends -> Nat \ {0}]
    /\ \A b, c \in Backends : Priority[b] = Priority[c] => b = c
    /\ NoEvent \notin Events
    /\ Unnamed \subseteq Events
    /\ ChannelSize \in Nat \ {0}
    /\ MayStop \in BOOLEAN
    /\ MaxPrunes \in Nat
    /\ MaxUnnamed \in Nat

VARIABLES
    seen,       \* EventDedup.seen
    memory,     \* L1: how many times each event is in the memory store
    producer,   \* each caller's progress: the step it is at, its
                \* event, and the backends it has yet to reach
    breaker,    \* a circuit breaker per backend
    chan,       \* asyncChans: queued events per backend, oldest first
    worker,     \* asyncWriteWorker of each backend: step and event
    replay,     \* replayWALEntry: step and entry
    logged,     \* WAL: entries <<backend, event>> in the log
    delivered,  \* WAL: entries replayed with success
    refused,    \* history: entries whose Append failed, which nobody learnt
    store,      \* what each backend holds
    stop,       \* "running", "draining" (channels closed) or "stopped"
    forced,     \* Stop gave up waiting for the workers
    owed,       \* history: events with an ID whose recording did not overlap Stop
    prunes      \* bound

chainVars == <<seen, memory, owed, prunes>>
logVars   == <<logged, delivered, refused>>
stopVars  == <<stop, forced>>
vars == <<chainVars, producer, breaker, chan, worker, replay, logVars, store, stopVars>>

Entry == Backends \X Events

Log == INSTANCE DurableLog WITH Entries <- Entry

ProducerState == {"idle", "l1", "gate", "send", "spill"}
WorkerState   == {"recv", "gate", "write", "ok", "failed", "spill", "exited"}
ReplayState   == {"idle", "gate", "write", "ok", "failed"}

TypeOK ==
    /\ seen \subseteq Events
    /\ memory \in [Events -> Nat]
    /\ producer \in [Producers -> [at : ProducerState, ev : Events \cup {NoEvent},
                                   todo : SUBSET Backends]]
    /\ \A p \in Producers : producer[p].at # "idle" => producer[p].ev \in Events
    /\ breaker \in [Backends -> Breaker]
    /\ chan \in [Backends -> Seq(Events)]
    /\ worker \in [Backends -> [at : WorkerState, ev : Events \cup {NoEvent}]]
    /\ \A b \in Backends : worker[b].at \notin {"recv", "exited"} => worker[b].ev \in Events
    /\ replay \in [at : ReplayState, entry : Entry \cup {<<>>}]
    /\ replay.at # "idle" => replay.entry \in Entry
    /\ logged \subseteq Entry
    /\ delivered \subseteq Entry
    /\ refused \subseteq Entry
    /\ store \in [Backends -> SUBSET Events]
    /\ stop \in {"running", "draining", "stopped"}
    /\ forced \in BOOLEAN
    /\ owed \subseteq Events \ Unnamed
    /\ prunes \in 0 .. MaxPrunes

IdleProducer == [at |-> "idle", ev |-> NoEvent, todo |-> {}]
IdleWorker   == [at |-> "recv", ev |-> NoEvent]
IdleReplay   == [at |-> "idle", entry |-> <<>>]

Init ==
    /\ seen = {}
    /\ memory = [e \in Events |-> 0]
    /\ producer = [p \in Producers |-> IdleProducer]
    /\ breaker = [b \in Backends |-> NewBreaker]
    /\ chan = [b \in Backends |-> <<>>]
    /\ worker = [b \in Backends |-> IdleWorker]
    /\ replay = IdleReplay
    /\ logged = {}
    /\ delivered = {}
    /\ refused = {}
    /\ store = [b \in Backends |-> {}]
    /\ stop = "running"
    /\ forced = FALSE
    /\ owed = {}
    /\ prunes = 0

-----------------------------------------------------------------------------
(* What the three kinds of goroutine share *)

\* cb.Allow(), cb.RecordSuccess() and cb.RecordFailure() on b's breaker.
Ask(b)           == breaker' = [breaker EXCEPT ![b] = AfterAllow(@)]
ReportSuccess(b) == breaker' = [breaker EXCEPT ![b] = RecordSuccess(@)]
ReportFailure(b) == breaker' = [breaker EXCEPT ![b] = RecordFailure(@)]

(* backend.RecordMeteringEvent(e).  Nothing is assumed of the backend: any *)
(* call may fail, and a failed one may have stored the event all the same, *)
(* as the connection can break after the commit.                           *)
CallBackend(b, e, outcome) ==
    /\ outcome \in {"ok", "failed"}
    /\ \/ store' = [store EXCEPT ![b] = @ \cup {e}]
       \/ outcome = "failed" /\ store' = store

(* walAppendEvent ignores the error of Append.  A stopped WAL takes        *)
(* nothing, and a running one nothing while its segment cannot be rotated  *)
(* or written.                                                             *)
WalAppendEvent(b, e) ==
    \/ stop # "stopped" /\ Log!Log(<<b, e>>) /\ UNCHANGED refused
    \/ refused' = refused \cup {<<b, e>>} /\ UNCHANGED <<logged, delivered>>

-----------------------------------------------------------------------------
(* RecordMeteringEvent *)

\* Mutant of BeginRecord: the event is entered but not looked up.
BeginRecordUnchecked(p, e) ==
    /\ producer[p].at = "idle"
    /\ seen' = seen \cup {e}
    /\ producer' = [producer EXCEPT ![p] = [at |-> "l1", ev |-> e, todo |-> {}]]
    /\ UNCHANGED <<memory, owed, prunes, breaker, chan, worker, replay, logVars, store, stopVars>>

(* IsDuplicate looks the event up and enters it under one lock, unless its *)
(* ID is empty: nothing in front of it - handler, bus, Validate - asks for *)
(* one.                                                                    *)
BeginRecord(p, e) ==
    /\ producer[p].at = "idle"
    /\ \/ e \in Unnamed /\ memory[e] < MaxUnnamed /\ UNCHANGED seen
       \/ e \notin Unnamed \cup seen /\ seen' = seen \cup {e}
    /\ producer' = [producer EXCEPT ![p] = [at |-> "l1", ev |-> e, todo |-> {}]]
    /\ UNCHANGED <<memory, owed, prunes, breaker, chan, worker, replay, logVars, store, stopVars>>

\* A duplicate returns nil: it is neither counted nor passed on.
Duplicate(p, e) == producer[p].at = "idle" /\ e \in seen /\ UNCHANGED vars

\* The memory store appends; it never fails.
WriteL1(p) ==
    LET e == producer[p].ev IN
    /\ producer[p].at = "l1"
    /\ memory' = [memory EXCEPT ![e] = @ + 1]
    /\ owed' = IF stop = "running" THEN owed \cup ({e} \ Unnamed) ELSE owed
    /\ producer' = [producer EXCEPT ![p] = [at |-> "gate", ev |-> e, todo |-> Backends]]
    /\ UNCHANGED <<seen, prunes, breaker, chan, worker, replay, logVars, store,
                   stopVars>>

\* The backend the fan-out loop has come to.
Current(p, b) ==
    /\ b \in producer[p].todo
    /\ \A c \in producer[p].todo : Priority[b] <= Priority[c]

\* Mutant of Advanced: the call returns after the first backend.
AdvancedReturns(p, b) == IF b \in producer[p].todo THEN IdleProducer ELSE producer[p]

\* The loop goes on to the next backend, or the call returns nil.
Advanced(p, b) ==
    IF producer[p].todo = {b}
      THEN IdleProducer
      ELSE [producer[p] EXCEPT !.at = "gate", !.todo = @ \ {b}]

(* The breaker is asked and the channel looked up.  After Stop there is no *)
(* channel: the event goes neither to it nor to the WAL.                   *)
Gate(p, b) ==
    /\ producer[p].at = "gate"
    /\ Current(p, b)
    /\ Ask(b)
    /\ producer' = [producer EXCEPT ![p] =
         IF ~Allowed(breaker[b]) THEN [@ EXCEPT !.at = "spill"]
         ELSE IF stop = "running" THEN [@ EXCEPT !.at = "send"]
         ELSE Advanced(p, b)]
    /\ UNCHANGED <<chainVars, chan, worker, replay, logVars, store, stopVars>>

\* Mutants of Send: a full channel drops the event, or holds one too many.
SendDrops(p, b) ==
    /\ producer[p].at = "send"
    /\ Current(p, b)
    /\ stop = "running"
    /\ chan' = IF Len(chan[b]) < ChannelSize
                 THEN [chan EXCEPT ![b] = Append(@, producer[p].ev)] ELSE chan
    /\ producer' = [producer EXCEPT ![p] = Advanced(p, b)]
    /\ UNCHANGED <<chainVars, breaker, worker, replay, logVars, store, stopVars>>

SendOneMore(p, b) ==
    /\ producer[p].at = "send"
    /\ Current(p, b)
    /\ stop = "running"
    /\ \/ /\ Len(chan[b]) <= ChannelSize
          /\ chan' = [chan EXCEPT ![b] = Append(@, producer[p].ev)]
          /\ producer' = [producer EXCEPT ![p] = Advanced(p, b)]
       \/ /\ Len(chan[b]) > ChannelSize
          /\ producer' = [producer EXCEPT ![p].at = "spill"]
          /\ UNCHANGED chan
    /\ UNCHANGED <<chainVars, breaker, worker, replay, logVars, store, stopVars>>

\* The non-blocking send finds room, or the event overflows to the WAL.
Send(p, b) ==
    /\ producer[p].at = "send"
    /\ Current(p, b)
    /\ stop = "running"
    /\ \/ /\ Len(chan[b]) < ChannelSize
          /\ chan' = [chan EXCEPT ![b] = Append(@, producer[p].ev)]
          /\ producer' = [producer EXCEPT ![p] = Advanced(p, b)]
       \/ /\ Len(chan[b]) >= ChannelSize
          /\ producer' = [producer EXCEPT ![p].at = "spill"]
          /\ UNCHANGED chan
    /\ UNCHANGED <<chainVars, breaker, worker, replay, logVars, store, stopVars>>

(* Stop closed the channel after the lookup: the send panics.  In the      *)
(* ingest handler net/http recovers, and the rest of the fan-out does not  *)
(* happen; in a goroutine of the event bus the process ends here.          *)
SendOnClosed(p) ==
    /\ producer[p].at = "send"
    /\ stop # "running"
    /\ producer' = [producer EXCEPT ![p] = IdleProducer]
    /\ UNCHANGED <<chainVars, breaker, chan, worker, replay, logVars, store, stopVars>>

Spill(p, b) ==
    /\ producer[p].at = "spill"
    /\ Current(p, b)
    /\ WalAppendEvent(b, producer[p].ev)
    /\ producer' = [producer EXCEPT ![p] = Advanced(p, b)]
    /\ UNCHANGED <<chainVars, breaker, chan, worker, replay, store, stopVars>>

Record(p) ==
    \/ WriteL1(p)
    \/ \E b \in Backends : Gate(p, b) \/ Send(p, b) \/ Spill(p, b)
    \/ SendOnClosed(p)

\* The prune goroutine forgets the events older than the retention window.
Prune ==
    /\ prunes < MaxPrunes
    /\ prunes' = prunes + 1
    /\ \E expired \in SUBSET seen \ {{}} : seen' = seen \ expired
    /\ UNCHANGED <<memory, owed, producer, breaker, chan, worker, replay, logVars, store, stopVars>>

-----------------------------------------------------------------------------
(* asyncWriteWorker *)

WorkerAt(b, state) == worker' = [worker EXCEPT ![b].at = state]

Receive(b) ==
    /\ worker[b].at = "recv"
    /\ chan[b] # <<>>
    /\ worker' = [worker EXCEPT ![b] = [at |-> "gate", ev |-> Head(chan[b])]]
    /\ chan' = [chan EXCEPT ![b] = Tail(@)]
    /\ UNCHANGED <<chainVars, producer, breaker, replay, logVars, store, stopVars>>

WorkerGate(b) ==
    /\ worker[b].at = "gate"
    /\ Ask(b)
    /\ WorkerAt(b, IF Allowed(breaker[b]) THEN "write" ELSE "spill")
    /\ UNCHANGED <<chainVars, producer, chan, replay, logVars, store, stopVars>>

WorkerWrite(b) ==
    /\ worker[b].at = "write"
    /\ \E outcome \in {"ok", "failed"} :
         /\ CallBackend(b, worker[b].ev, outcome)
         /\ WorkerAt(b, outcome)
    /\ UNCHANGED <<chainVars, producer, breaker, chan, replay, logVars, stopVars>>

WorkerSucceeds(b) ==
    /\ worker[b].at = "ok"
    /\ ReportSuccess(b)
    /\ worker' = [worker EXCEPT ![b] = IdleWorker]
    /\ UNCHANGED <<chainVars, producer, chan, replay, logVars, store, stopVars>>

\* Mutant of WorkerFails: the failed event is not written to the WAL.
WorkerFailsAndForgets(b) ==
    /\ worker[b].at = "failed"
    /\ ReportFailure(b)
    /\ worker' = [worker EXCEPT ![b] = IdleWorker]
    /\ UNCHANGED <<chainVars, producer, chan, replay, logVars, store, stopVars>>

WorkerFails(b) ==
    /\ worker[b].at = "failed"
    /\ ReportFailure(b)
    /\ WorkerAt(b, "spill")
    /\ UNCHANGED <<chainVars, producer, chan, replay, logVars, store, stopVars>>

WorkerSpill(b) ==
    /\ worker[b].at = "spill"
    /\ WalAppendEvent(b, worker[b].ev)
    /\ worker' = [worker EXCEPT ![b] = IdleWorker]
    /\ UNCHANGED <<chainVars, producer, breaker, chan, replay, store, stopVars>>

\* Mutant of WorkerExits: the worker leaves what is queued.
WorkerExitsAtOnce(b) ==
    /\ worker[b].at = "recv"
    /\ stop # "running"
    /\ WorkerAt(b, "exited")
    /\ UNCHANGED <<chainVars, producer, breaker, chan, replay, logVars, store, stopVars>>

\* `for op := range ch` ends when the channel is closed and empty.
WorkerExits(b) ==
    /\ worker[b].at = "recv"
    /\ stop # "running"
    /\ chan[b] = <<>>
    /\ WorkerAt(b, "exited")
    /\ UNCHANGED <<chainVars, producer, breaker, chan, replay, logVars, store, stopVars>>

Work(b) ==
    \/ Receive(b) \/ WorkerGate(b) \/ WorkerWrite(b) \/ WorkerSucceeds(b)
    \/ WorkerFails(b) \/ WorkerSpill(b) \/ WorkerExits(b)

-----------------------------------------------------------------------------
(* The WAL replay loop *)

ReplayAt(state) == replay' = [replay EXCEPT !.at = state]

(* A pass reads the next entry of a sealed segment.  Which entries are     *)
(* sealed, and their order, is MeteringWAL's business: here any entry.  A  *)
(* pass under way when the WAL stops is not interrupted.                   *)
ReplayStarts(entry) ==
    /\ replay.at = "idle"
    /\ entry \in logged
    /\ replay' = [at |-> "gate", entry |-> entry]
    /\ UNCHANGED <<chainVars, producer, breaker, chan, worker, logVars, store, stopVars>>

\* "circuit is open": the entry, and so its segment, stays in the log.
ReplayGate ==
    LET b == replay.entry[1] IN
    /\ replay.at = "gate"
    /\ Ask(b)
    /\ replay' = IF Allowed(breaker[b]) THEN [replay EXCEPT !.at = "write"] ELSE IdleReplay
    /\ UNCHANGED <<chainVars, producer, chan, worker, logVars, store, stopVars>>

ReplayWrite ==
    /\ replay.at = "write"
    /\ \E outcome \in {"ok", "failed"} :
         /\ CallBackend(replay.entry[1], replay.entry[2], outcome)
         /\ ReplayAt(outcome)
    /\ UNCHANGED <<chainVars, producer, breaker, chan, worker, logVars, stopVars>>

ReplaySucceeds ==
    /\ replay.at = "ok"
    /\ ReportSuccess(replay.entry[1])
    /\ Log!Deliver(replay.entry)
    /\ UNCHANGED refused
    /\ replay' = IdleReplay
    /\ UNCHANGED <<chainVars, producer, chan, worker, store, stopVars>>

ReplayFails ==
    /\ replay.at = "failed"
    /\ ReportFailure(replay.entry[1])
    /\ replay' = IdleReplay
    /\ UNCHANGED <<chainVars, producer, chan, worker, logVars, store, stopVars>>

\* Mutant of DeleteReplayed: entries that were not replayed go too.
DeleteUnreplayed ==
    /\ replay.at = "idle"
    /\ \E done \in SUBSET logged \ {{}} : logged' = logged \ done
    /\ UNCHANGED <<delivered, refused>>
    /\ UNCHANGED <<chainVars, producer, breaker, chan, worker, replay, store, stopVars>>

\* Between two entries: a segment whose entries were all replayed is deleted.
DeleteReplayed ==
    /\ replay.at = "idle"
    /\ \E done \in SUBSET (logged \cap delivered) \ {{}} : Log!Forget(done)
    /\ UNCHANGED refused
    /\ UNCHANGED <<chainVars, producer, breaker, chan, worker, replay, store, stopVars>>

ReplayEntry == ReplayGate \/ ReplayWrite \/ ReplaySucceeds \/ ReplayFails

-----------------------------------------------------------------------------
(* Stop and the environment *)

\* Stop closes every channel under the chain's lock.
StopBegins ==
    /\ MayStop
    /\ stop = "running"
    /\ stop' = "draining"
    /\ owed' = owed \ {producer[p].ev : p \in Producers}
    /\ UNCHANGED <<seen, memory, prunes, producer, breaker, chan, worker, replay, logVars,
                   store, forced>>

(* Every worker has exited, or ShutdownTimeout has passed and Stop goes on *)
(* without them; then the WAL is stopped.                                  *)
StopEnds ==
    /\ stop = "draining"
    /\ stop' = "stopped"
    /\ forced' = \E b \in Backends : worker[b].at # "exited"
    /\ UNCHANGED <<chainVars, producer, breaker, chan, worker, replay, logVars, store>>

CooldownPasses(b) ==
    /\ breaker[b].state = "open"
    /\ ~breaker[b].cooled
    /\ breaker' = [breaker EXCEPT ![b] = Cool(@)]
    /\ UNCHANGED <<chainVars, producer, chan, worker, replay, logVars, store, stopVars>>

Next ==
    \/ \E p \in Producers : Record(p) \/ \E e \in Events : BeginRecord(p, e) \/ Duplicate(p, e)
    \/ Prune
    \/ \E b \in Backends : Work(b) \/ CooldownPasses(b)
    \/ ReplayEntry
    \/ \E entry \in logged : ReplayStarts(entry)
    \/ DeleteReplayed
    \/ StopBegins
    \/ StopEnds

(***************************************************************************)
(* A call that has begun goes on, a worker works as long as it has         *)
(* something to do, the replay of an entry that has begun ends (backend    *)
(* calls have timeouts), and time passes.  Nobody is obliged to record an  *)
(* event, to prune, to stop, or to start a replay - the tail of the log    *)
(* may never be one - and nothing is assumed of the backends.              *)
(***************************************************************************)
Fairness ==
    /\ \A p \in Producers : WF_vars(Record(p))
    /\ \A b \in Backends : WF_vars(Work(b)) /\ WF_vars(CooldownPasses(b))
    /\ WF_vars(ReplayEntry)

Spec == Init /\ [][Next]_vars /\ Fairness

-----------------------------------------------------------------------------
(* Properties *)

\* e is in backend b, or the log will bring it there.
Durable(b, e) == e \in store[b] \/ <<b, e>> \in logged

Queued(b, e) == \E i \in 1 .. Len(chan[b]) : chan[b][i] = e

InWorker(b, e) == worker[b].at \notin {"recv", "exited"} /\ worker[b].ev = e

\* Some call is yet to pass e on to b.
InProducer(b, e) == \E p \in Producers : producer[p].ev = e /\ b \in producer[p].todo

(* "Channel full -> overflow to WAL (never drop)": from the moment it is   *)
(* counted in L1 an event is, for every backend, stored, logged, or in the *)
(* hands of exactly the goroutines that will store or log it - through     *)
(* full channels, open circuits, failed writes and Stop.  The one way out  *)
(* is a log that would not take it: walAppendEvent drops the event then,   *)
(* and says so to nobody.  A Stop that gave up waiting for its workers, or *)
(* that overlapped the recording of the event, promises nothing.           *)
NeverDropped ==
    ~forced =>
        \A e \in owed, b \in Backends :
            \/ Durable(b, e)
            \/ <<b, e>> \in refused
            \/ Queued(b, e)
            \/ InWorker(b, e)
            \/ stop = "running" /\ InProducer(b, e)

(* Stop "drains async channels, flushes WAL": when it returns without      *)
(* having timed out, every event recorded before it is durable everywhere, *)
(* but for what the log would not take, while it ran or in the drain.      *)
StopDrains ==
    stop = "stopped" /\ ~forced =>
        \A e \in owed, b \in Backends : Durable(b, e) \/ <<b, e>> \in refused

(* What a crash at this moment would lose at b of the events whose         *)
(* recording has returned: those neither stored nor logged, and not lost   *)
(* already because the log would not take them.  It is bounded by the size *)
(* of the channel ("bounded async channel") and the event in the worker's  *)
(* hands, whatever the backend does.                                       *)
AtRisk(b) ==
    {e \in owed : /\ ~Durable(b, e)
                  /\ <<b, e>> \notin refused
                  /\ \A p \in Producers : producer[p].ev # e}

BoundedLoss ==
    ~forced => \A b \in Backends : Cardinality(AtRisk(b)) <= ChannelSize + 1

(* "Prevents duplicate metering events from being recorded": however many  *)
(* goroutines present an event at once, L1 counts it at most once in a     *)
(* retention window.  Events without an ID are "never considered           *)
(* duplicates", and take nothing from those with one.                      *)
CountedOnce == \A e \in Events \ Unnamed : memory[e] <= 1 + prunes

\* What L1 counts.
Counted == {e \in Events : memory[e] > 0}

(* The chain implements EventDelivery: nothing durable is ever lost, and,  *)
(* when nobody calls Stop, an accepted event becomes durable at every      *)
(* backend that the log did not refuse it for, however often its writes    *)
(* fail.  Of the events without an ID, which Postgres takes for one and    *)
(* the same, it speaks of the first.                                       *)
Delivery == INSTANCE EventDelivery
    WITH accepted <- Counted,
         durable <- [b \in Backends |-> {e \in Events : Durable(b, e)}],
         refused <- [b \in Backends |-> {e \in Events : <<b, e>> \in refused}]

ImplementsEventDelivery     == Delivery!Spec
ImplementsEventDeliverySafe == Delivery!SafeSpec

(* "One request is allowed through.  If it succeeds -> closed.  If it      *)
(* fails -> open again": a half-open breaker is left again.                *)
HalfOpenResolves ==
    \A b \in Backends : (breaker[b].state = "half_open") ~> (breaker[b].state # "half_open")
=============================================================================
