---------------------------- MODULE MeteringReads ----------------------------
(***************************************************************************)
(* One tenant's contract for one service in the metering chain             *)
(* (internal/kernel/metering_chain.go): its registration, written to one   *)
(* backend after the other; the reads, which ask one backend after the     *)
(* other until one answers; the replay of logged registrations; and the    *)
(* health flags of the backends.  The callers are billing's: a client or a *)
(* module registers a contract, and a completion is admitted by the quota  *)
(* policy and counted when it ends (internal/modules/billing/module.go).   *)
(*                                                                         *)
(* A contract is the number of its registration.  L1, the memory store, is *)
(* backend 0: it is always healthy and its breaker never sees a failure.   *)
(* How a usage event reaches the other backends is MeteringChain's part,   *)
(* and a failed query answers with a partial statement: what they say a    *)
(* tenant has used may here be any amount.  Nor do the writes of events    *)
(* use the breakers here.  The log may refuse an entry, but what it took   *)
(* it is taken to keep over a restart (MeteringWAL says when it does not). *)
(* Events a client ingests can only use a quota up sooner, and are left    *)
(* out.                                                                    *)
(***************************************************************************)
EXTENDS CircuitBreaker, FiniteSets

CONSTANTS
    Backends,      \* the priorities of the durable backends
    Tabular,       \* those whose empty list of contracts is an answer
    Requests,      \* registrations and completions under way at once
    Quota,         \* DailyTokenQuota, in completions
    MaxContracts, MaxCounted, MaxRestarts      \* bounds

ASSUME ReadsAssumption ==
    /\ Backends \subseteq Nat \ {0}
    /\ IsFiniteSet(Backends)
    /\ IsFiniteSet(Requests)
    /\ Tabular \subseteq Backends
    /\ Quota \in Nat \ {0}
    /\ MaxContracts \in Nat /\ MaxCounted \in Nat /\ MaxRestarts \in Nat

VARIABLES
    contract,   \* what each backend holds; 0 is nothing
    counted,    \* completions L1 has counted since the process started
    from,       \* of these, those outside the window its statement sums over
    began,      \* history: of these, those not of the current cycle of the
                \* contract L1 holds, since it holds it
    joined,     \* durable backends that were reachable when it started
    up,         \* does the server answer?
    healthy,    \* the backend's flag
    breaker,
    request,    \* each request: its step, what it is doing, the backend it
                \* has come to, and the contract it writes
    replay,     \* replayWALEntry: step and entry
    logged,     \* entries <<backend, contract>> of the log
    spilled,    \* history: entries ever logged
    refused,    \* history: entries the log did not take
    issued,     \* history: contracts made so far
    settled,    \* history: what each backend should hold, 0 if nobody can say
    torn,       \* history: registrations have overlapped since one was alone
    missed,     \* history: backends whose breaker was last let through by a
                \* read that then had nothing to report
    restarts    \* bound

serverVars  == <<joined, up>>
usageVars   == <<counted, from, began>>
logVars     == <<logged, spilled, refused>>
historyVars == <<issued, settled, torn, restarts>>
vars == <<contract, usageVars, serverVars, healthy, breaker, request, replay,
          logVars, historyVars, missed>>

Contracts == 0 .. MaxContracts
Holder    == Backends \cup {0}

Writes == {"register", "default"}
Reads  == {"quota", "contract"}

Idle == [at |-> "idle", why |-> "register", b |-> 0, ver |-> 0]

(* A completion the quota policy let in is recorded when it has ended,     *)
(* which begins with a read of the contracts; it may need a default one    *)
(* before its usage is counted.                                            *)
Admitted    == [at |-> "ask", why |-> "contract", b |-> 0, ver |-> 0]
Defaultable == [Admitted EXCEPT !.at = "default"]
Recordable  == [Admitted EXCEPT !.at = "record"]

Init ==
    /\ contract = [b \in Holder |-> 0]
    /\ counted = 0 /\ from = 0 /\ began = 0
    /\ joined = Backends
    /\ up = [b \in Backends |-> TRUE]
    /\ healthy = [b \in Backends |-> TRUE]
    /\ breaker = [b \in Backends |-> NewBreaker]
    /\ request = [r \in Requests |-> Idle]
    /\ replay = Idle
    /\ logged = {}
    /\ spilled = {}
    /\ refused = {}
    /\ issued = 0
    /\ settled = [b \in Backends |-> 0]
    /\ torn = FALSE
    /\ missed = {}
    /\ restarts = 0

-----------------------------------------------------------------------------
(* Calls of a durable backend, by a request or by the replay *)

\* cb.Allow().  Whoever has been let through is in flight, and may report.
Ask(b) ==
    /\ breaker' = [breaker EXCEPT ![b] = AfterAllow(@)]
    /\ missed' = IF Allowed(breaker[b]) THEN missed \ {b} ELSE missed

(* b.RegisterServiceSubscription: refused by the flag, or written, or      *)
(* broken off, perhaps after the write; the server may also refuse it.     *)
Outcome(b, v, outcome) ==
    \/ ~healthy[b] /\ outcome = "refused" /\ UNCHANGED contract
    \/ healthy[b] /\ up[b] /\ outcome = "ok" /\ contract' = [contract EXCEPT ![b] = v]
    \/ /\ healthy[b] /\ ~up[b]
       /\ \/ outcome \in {"refused", "broken"} /\ UNCHANGED contract
          \/ outcome = "broken" /\ contract' = [contract EXCEPT ![b] = v]

\* Only a connection error lowers the flag.
Failed(b, outcome) ==
    /\ healthy' = IF outcome = "broken" THEN [healthy EXCEPT ![b] = FALSE] ELSE healthy
    /\ breaker' = [breaker EXCEPT ![b] = RecordFailure(@)]

\* Mutant of Succeeded: only failures are reported.
SucceededUnreported(b) == UNCHANGED breaker

Succeeded(b) == breaker' = [breaker EXCEPT ![b] = RecordSuccess(@)]

-----------------------------------------------------------------------------
(* RegisterServiceSubscription: every backend in turn *)

Become(r, q) == request' = [request EXCEPT ![r] = q]
Goes(r, at)  == Become(r, [request[r] EXCEPT !.at = at])
At(r, at, why) == request[r].at = at /\ request[r].why \in why

Deeper(b) == {c \in joined : c > b}

\* The loop goes on to the next backend, or ends and the request is at q.
Onward(r, q) ==
    LET rest == Deeper(request[r].b) IN
    IF rest = {} THEN Become(r, q)
    ELSE Become(r, [request[r] EXCEPT
                      !.at = "ask", !.b = CHOOSE c \in rest : \A d \in rest : c <= d])

Writing(r) == request[r].at # "idle" /\ request[r].why \in Writes

\* A contract is made.  From here until its registration ends, and after it
\* if another one overlaps it, nobody can say what the backends should hold.
Issue(r, why) ==
    /\ issued < MaxContracts
    /\ issued' = issued + 1
    /\ Become(r, [at |-> "ask", why |-> why, b |-> 0, ver |-> issued + 1])
    /\ settled' = [b \in Backends |-> 0]
    /\ torn' = \E s \in Requests \ {r} : Writing(s)
    /\ UNCHANGED <<contract, usageVars, healthy, breaker, logVars, missed, restarts>>

\* handleRegisterSubscription, or the subscription manager's CreateContract.
BeginRegister(r) == request[r].at = "idle" /\ Issue(r, "register")

\* usage.recorded found no contract and registers the default one.
BeginDefault(r) == At(r, "default", Reads) /\ Issue(r, "default")

(* The loop after a backend: at its end a recording goes on to the event,  *)
(* and the other callers answer.                                           *)
Written(r) ==
    LET q == request[r] IN
    /\ Onward(r, IF q.why = "default" THEN Recordable ELSE Idle)
    /\ settled' = IF Deeper(q.b) = {} /\ ~torn
                    THEN [b \in Backends |-> IF b \in joined THEN q.ver ELSE 0]
                    ELSE settled
    /\ UNCHANGED <<issued, torn, restarts>>

(* The contract replaces the one before it, and its anchor, now or what    *)
(* the registration says, decides which of the events counted so far its   *)
(* window holds.                                                           *)
WriteL1(r) ==
    /\ At(r, "ask", Writes)
    /\ request[r].b = 0
    /\ contract' = [contract EXCEPT ![0] = request[r].ver]
    /\ from' \in 0 .. counted
    /\ began' = counted
    /\ Written(r)
    /\ UNCHANGED <<counted, healthy, breaker, logVars, missed>>

AskWrite(r) ==
    LET b == request[r].b IN
    /\ At(r, "ask", Writes)
    /\ b # 0
    /\ Ask(b)
    /\ Goes(r, IF Allowed(breaker[b]) THEN "call" ELSE "spill")
    /\ UNCHANGED <<contract, usageVars, healthy, logVars, historyVars>>

CallWrite(r) ==
    /\ At(r, "call", Writes)
    /\ \E outcome \in {"ok", "refused", "broken"} :
         Outcome(request[r].b, request[r].ver, outcome) /\ Goes(r, outcome)
    /\ UNCHANGED <<usageVars, healthy, breaker, logVars, historyVars, missed>>

WriteSucceeds(r) ==
    /\ At(r, "ok", Writes)
    /\ Succeeded(request[r].b)
    /\ Written(r)
    /\ UNCHANGED <<contract, usageVars, healthy, logVars, missed>>

WriteFails(r) ==
    /\ request[r].at \in {"refused", "broken"}
    /\ Failed(request[r].b, request[r].at)
    /\ Goes(r, "spill")
    /\ UNCHANGED <<contract, usageVars, logVars, historyVars, missed>>

\* Mutant of SpillSub: the contract is not written to the log.
SpillSubForgets(r) ==
    /\ At(r, "spill", Writes)
    /\ Written(r)
    /\ UNCHANGED <<contract, usageVars, healthy, breaker, logVars, missed>>

\* walAppendSub, which does not look at what Append returns.
SpillSub(r) ==
    LET e == <<request[r].b, request[r].ver>> IN
    /\ At(r, "spill", Writes)
    /\ \/ logged' = logged \cup {e} /\ spilled' = spilled \cup {e} /\ UNCHANGED refused
       \/ refused' = refused \cup {e} /\ UNCHANGED <<logged, spilled>>
    /\ Written(r)
    /\ UNCHANGED <<contract, usageVars, healthy, breaker, missed>>

-----------------------------------------------------------------------------
(* The cascades: GetServiceUsageStatement for the policy under-quota, and  *)
(* GetServiceSubscriptions for usage.recorded                              *)

\* The policy is asked before a completion.
BeginCompletion(r) ==
    /\ request[r].at = "idle"
    /\ counted < MaxCounted
    /\ Become(r, [at |-> "ask", why |-> "quota", b |-> 0, ver |-> 0])
    /\ UNCHANGED <<usageVars, breaker, missed>>

\* Mutant of UnderQuota: a tenant that has used up its quota is let in.
UnderQuotaAt(n) == n <= Quota

UnderQuota(n) == n < Quota

\* What the statement of L1 sums up (billing's getTenantTokenUsage).
Usage == counted - from

\* No statement counts as no usage.
Unanswered(r) == Onward(r, IF request[r].why = "quota" THEN Admitted ELSE Defaultable)

ReadL1(r) ==
    /\ At(r, "ask", Reads)
    /\ request[r].b = 0
    /\ IF contract[0] = 0 THEN Unanswered(r)
       ELSE Become(r, CASE request[r].why = "contract" -> Recordable
                        [] UnderQuota(Usage)           -> Admitted
                        [] OTHER                       -> Idle)
    /\ UNCHANGED <<usageVars, breaker, missed>>

\* An unhealthy backend is passed over before its breaker is asked.
AskRead(r) ==
    LET b == request[r].b IN
    /\ At(r, "ask", Reads)
    /\ b # 0
    /\ IF healthy[b] THEN Ask(b) ELSE UNCHANGED <<breaker, missed>>
    /\ IF healthy[b] /\ Allowed(breaker[b]) THEN Goes(r, "call") ELSE Unanswered(r)
    /\ UNCHANGED usageVars

(* The query.  A failed one lowers no flag.  Without an answer the loop    *)
(* goes on, and the breaker that let the read through hears nothing.       *)
Answers(b, why) ==
    healthy[b] /\ up[b] /\ (contract[b] # 0 \/ (why = "contract" /\ b \in Tabular))

CallRead(r) ==
    LET b == request[r].b IN
    /\ At(r, "call", Reads)
    /\ IF Answers(b, request[r].why)
         THEN Goes(r, IF contract[b] = 0 THEN "empty" ELSE "hit") /\ UNCHANGED missed
         ELSE Unanswered(r) /\ missed' = missed \cup {b}
    /\ UNCHANGED <<usageVars, breaker>>

ReadSucceeds(r) ==
    /\ request[r].at \in {"hit", "empty"}
    /\ Succeeded(request[r].b)
    /\ \/ request[r].why = "quota" /\ \E q \in {Admitted, Idle} : Become(r, q)
       \/ /\ request[r].why = "contract"
          /\ Become(r, IF request[r].at = "hit" THEN Recordable ELSE Defaultable)
    /\ UNCHANGED <<usageVars, missed>>

(* RecordMeteringEvent, as far as L1.  The event may have been stamped     *)
(* before the cycle began or the contract was anchored, or the contract be *)
(* anchored in the future: it is then in no window.                        *)
RecordEvent(r) ==
    /\ request[r].at = "record"
    /\ counted' = counted + 1
    /\ \/ UNCHANGED <<from, began>>
       \/ from' = from + 1 /\ began' = began + 1
    /\ Become(r, Idle)
    /\ UNCHANGED <<breaker, missed>>

Register(r) ==
    /\ \/ BeginRegister(r) \/ BeginDefault(r) \/ WriteL1(r) \/ AskWrite(r) \/ CallWrite(r)
       \/ WriteSucceeds(r) \/ WriteFails(r) \/ SpillSub(r)
    /\ UNCHANGED <<serverVars, replay>>

Read(r) ==
    /\ \/ BeginCompletion(r) \/ ReadL1(r) \/ AskRead(r) \/ CallRead(r) \/ ReadSucceeds(r)
       \/ RecordEvent(r)
    /\ UNCHANGED <<contract, serverVars, healthy, replay, logVars, historyVars>>

-----------------------------------------------------------------------------
(* replayWALEntry of a register_sub entry.  Which entries a pass can see,  *)
(* and in which order, is MeteringWAL's part: here any of them.            *)

ReplayStarts(b, v) ==
    /\ replay.at = "idle"
    /\ <<b, v>> \in logged
    /\ b \in joined
    /\ replay' = [at |-> "ask", why |-> "register", b |-> b, ver |-> v]
    /\ UNCHANGED <<contract, healthy, breaker, logVars, missed>>

ReplayAsk ==
    /\ replay.at = "ask"
    /\ Ask(replay.b)
    /\ replay' = IF Allowed(breaker[replay.b]) THEN [replay EXCEPT !.at = "call"] ELSE Idle
    /\ UNCHANGED <<contract, healthy, logVars>>

ReplayCall ==
    /\ replay.at = "call"
    /\ \E outcome \in {"ok", "refused", "broken"} :
         /\ Outcome(replay.b, replay.ver, outcome)
         /\ replay' = [replay EXCEPT !.at = outcome]
    /\ UNCHANGED <<healthy, breaker, logVars, missed>>

\* The entry goes with its segment, now or after other replays of it.
ReplaySucceeds ==
    /\ replay.at = "ok"
    /\ Succeeded(replay.b)
    /\ replay' = Idle
    /\ logged' \in {logged, logged \ {<<replay.b, replay.ver>>}}
    /\ UNCHANGED <<contract, healthy, spilled, refused, missed>>

ReplayFails ==
    /\ replay.at \in {"refused", "broken"}
    /\ Failed(replay.b, replay.at)
    /\ replay' = Idle
    /\ UNCHANGED <<contract, logVars, missed>>

Replay ==
    /\ \/ \E b \in Backends, v \in Contracts : ReplayStarts(b, v)
       \/ ReplayAsk \/ ReplayCall \/ ReplaySucceeds \/ ReplayFails
    /\ UNCHANGED <<usageVars, serverVars, request, historyVars>>

-----------------------------------------------------------------------------
(* Health, time, and the process *)

\* healthProbe: the flag becomes what the ping says.
HealthProbe(b) ==
    /\ b \in joined
    /\ healthy' = [healthy EXCEPT ![b] = up[b]]
    /\ UNCHANGED <<usageVars, up, breaker>>

ServerChanges(b) ==
    /\ up' = [up EXCEPT ![b] = ~@]
    /\ UNCHANGED <<usageVars, healthy, breaker>>

CooldownPasses(b) ==
    /\ breaker[b].state = "open" /\ ~breaker[b].cooled
    /\ breaker' = [breaker EXCEPT ![b] = Cool(@)]
    /\ UNCHANGED <<usageVars, up, healthy>>

\* The next cycle of L1's contract begins: its window holds no event yet.
CycleBegins ==
    /\ contract[0] # 0
    /\ from' = counted
    /\ began' = counted
    /\ UNCHANGED <<counted, up, healthy, breaker>>

Environment ==
    /\ \/ \E b \in Backends : HealthProbe(b) \/ ServerChanges(b) \/ CooldownPasses(b)
       \/ CycleBegins
    /\ UNCHANGED <<contract, joined, request, replay, logVars, historyVars, missed>>

(* The process ends anywhere and starts again: buildMeteringChain adds the *)
(* backends that answer the first ping; L1 is empty.                       *)
Restart ==
    /\ restarts < MaxRestarts
    /\ restarts' = restarts + 1
    /\ contract' = [contract EXCEPT ![0] = 0]
    /\ counted' = 0 /\ from' = 0 /\ began' = 0
    /\ joined' = {b \in Backends : up[b]}
    /\ healthy' = [b \in Backends |-> TRUE]
    /\ breaker' = [b \in Backends |-> NewBreaker]
    /\ request' = [r \in Requests |-> Idle]
    /\ replay' = Idle
    /\ missed' = {}
    /\ UNCHANGED <<up, logVars, issued, settled, torn>>

Next ==
    \/ \E r \in Requests : Register(r) \/ Read(r)
    \/ Replay
    \/ Environment
    \/ Restart

Spec == Init /\ [][Next]_vars

-----------------------------------------------------------------------------
(* Properties *)

RequestState == {"idle", "ask", "call", "ok", "hit", "empty", "refused", "broken",
                 "spill", "default", "record"}

Request == [at : RequestState, why : Writes \cup Reads, b : Holder, ver : Contracts]

\* Every variable has its type.
TypeOK ==
    /\ contract \in [Holder -> Contracts]
    /\ counted \in Nat
    /\ from \in 0 .. began
    /\ began \in 0 .. counted
    /\ joined \subseteq Backends
    /\ up \in [Backends -> BOOLEAN]
    /\ healthy \in [Backends -> BOOLEAN]
    /\ breaker \in [Backends -> Breaker]
    /\ request \in [Requests -> Request]
    /\ replay \in Request
    /\ logged \subseteq Backends \X Contracts
    /\ spilled \subseteq Backends \X Contracts
    /\ refused \subseteq Backends \X Contracts
    /\ issued \in Contracts
    /\ settled \in [Backends -> Contracts]
    /\ torn \in BOOLEAN
    /\ missed \subseteq Backends
    /\ restarts \in 0 .. MaxRestarts

(* A registration that no other one overlapped leaves every backend of the *)
(* chain with the contract, or the log with an entry that will bring it -  *)
(* through refused and broken writes, open circuits and restarts - unless  *)
(* the log refused that very entry, which walAppendSub does not notice.    *)
(* What a backend may hold instead is only a contract that was logged for  *)
(* it once: the replay of an old entry comes over a newer registration     *)
(* (metering_chain.go, case "register_sub").                               *)
BehindIsLogged ==
    \A b \in Backends :
        settled[b] # 0 =>
            \/ contract[b] = settled[b]
            \/ <<b, settled[b]>> \in logged \cup refused
            \/ <<b, contract[b]>> \in spilled

(* under-quota is checked before a completion and its usage recorded after *)
(* it by another goroutine.  Until the process restarts, a tenant exceeds  *)
(* its quota in no cycle of a contract by more than the completions that   *)
(* were between the two at once.  Registering the contract again, or the   *)
(* next cycle, gives the quota anew.                                       *)
QuotaBound ==
    restarts = 0 => counted - began <= Quota - 1 + Cardinality(Requests)

\* A call of b that its breaker let through and that has not reported.
InFlight(q, b) == q.b = b /\ q.at \in {"call", "ok", "hit", "empty", "refused", "broken"}

(* "One request is allowed through": a half-open breaker waits for it, or  *)
(* it was a read that found nothing and did not report - which, but for a  *)
(* late success, leaves the backend out of the chain until a restart.      *)
StrandedByMiss ==
    \A b \in Backends :
        breaker[b].state = "half_open" =>
            \/ \E r \in Requests : InFlight(request[r], b)
            \/ InFlight(replay, b)
            \/ b \in missed
=============================================================================
