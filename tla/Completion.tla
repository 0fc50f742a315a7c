----------------------------- MODULE Completion -----------------------------
(***************************************************************************)
(* A chat completion (internal/modules/completion/module.go) from its      *)
(* request to the usage event it ends in (internal/modules/billing): the   *)
(* policies, the session, the answer of a provider at once or as a stream, *)
(* the transcript and the usage.  The provider of a stream is a goroutine  *)
(* of its own that writes to a channel the handler reads; the client may   *)
(* leave at any moment, or stay and stop reading what it is sent.          *)
(*                                                                         *)
(* Of a message the model keeps the turn it belongs to, its role and       *)
(* whether the answer is whole; of an answer, its number of words.         *)
(***************************************************************************)
EXTENDS Sessions, Naturals, FiniteSetsExt

CONSTANTS
    Requests,      \* connections, each with at most one request at a time
    Lengths,       \* bound: how many words an answer may have
    Buffer,        \* capacity of a stream's channel (20)
    MaxRetries,    \* of the OpenAI provider (3)
    MaxTurns       \* bound: requests posted

\* How an answer ended, and a message of a transcript.
Ends == {"none", "finish", "cut", "left", "error"}
Entry == [turn : 1..MaxTurns, role : {"user", "assistant"}, end : Ends]

ASSUME CompletionAssumption ==
    /\ Lengths \subseteq Nat
    /\ \E longest \in Lengths : \A n \in Lengths : n <= longest
    /\ Buffer \in Nat \ {0}
    /\ MaxRetries \in Nat /\ MaxTurns \in Nat
    /\ None \notin [key : Keys, messages : Seq(Entry)]

VARIABLES
    request,       \* the handler of each connection
    producer,      \* the goroutine and the channel of its stream
    pending,       \* usage.recorded: subscriber goroutines that have not run
    billed,        \* usage events in the statements
    collided,      \* history: usage events dropped as duplicates
    completed,     \* history: the usage of every answer that was completed
    delivered,     \* history: turns of each session that its client knows of
    turns          \* bound: requests posted so far

sessionVars == <<sessions, index>>
usageVars == <<pending, billed, collided>>
historyVars == <<completed, delivered, turns>>
vars == <<sessionVars, request, producer, usageVars, historyVars>>

Idle == [at |-> "idle", key |-> None, id |-> None, turn |-> 0,
         provider |-> "mock", tries |-> 0, gone |-> FALSE, got |-> 0,
         end |-> "none", told |-> {}, missed |-> {}]

NoStream == [at |-> "closed", provider |-> "mock", left |-> 0, cut |-> FALSE,
             chan |-> <<>>]

Init ==
    /\ SessionsInit
    /\ request = [r \in Requests |-> Idle]
    /\ producer = [r \in Requests |-> NoStream]
    /\ pending = {} /\ billed = {} /\ collided = {}
    /\ completed = {}
    /\ delivered = [id \in SessionIds |-> {}]
    /\ turns = 0

At(r, step) == request[r].at = step

Become(r, record) == request' = [request EXCEPT ![r] = record]

Goes(r, step) == Become(r, [request[r] EXCEPT !.at = step])

Leaves(r) == Become(r, Idle)

-----------------------------------------------------------------------------
\* POST /v1/chat/completions, on a connection whose last stream has ended.
Post(r) ==
    /\ At(r, "idle")
    /\ producer[r].at = "closed"
    /\ turns < MaxTurns
    /\ turns' = turns + 1
    /\ \E key \in Keys, id \in SessionIds :
         Become(r, [Idle EXCEPT !.at = "policies", !.key = key, !.id = id,
                                !.turn = turns + 1, !.told = delivered[id]])
    /\ UNCHANGED <<sessionVars, producer, usageVars, completed, delivered>>

\* valid-api-key, has-active-subscription and under-quota, which other modules
\* answer.
CheckPolicies(r) ==
    /\ At(r, "policies")
    /\ Goes(r, "session") \/ Leaves(r)
    /\ UNCHANGED <<sessionVars, producer, usageVars, historyVars>>

GetSession(r) ==
    /\ At(r, "session")
    /\ GetOrCreateSession(request[r].key, request[r].id)
    /\ Goes(r, "build")
    /\ UNCHANGED <<producer, usageVars, historyVars>>

\* The turns in the transcript of a session.
TurnsOf(id) ==
    IF Exists(id) THEN {sessions[id].messages[i].turn : i \in DOMAIN sessions[id].messages}
    ELSE {}

Keeping == {request[q].turn : q \in {q \in Requests : At(q, "keep")}}

\* BuildMessages reads the transcript without the lock.  (Of a session deleted
\* meanwhile it reads what was left; no property tells.)  Whether the request asks
\* for a stream, and of which provider, matters from here on.
Build(r) ==
    LET req == request[r]
    IN  /\ At(r, "build")
        /\ \E step \in {"open", "generate"}, p \in {"mock", "openai"} :
             Become(r, [req EXCEPT !.at = step, !.provider = p, !.told = {},
                                   !.missed = (req.told \ TurnsOf(req.id)) \ Keeping])
        /\ UNCHANGED <<sessionVars, producer, usageVars, historyVars>>

-----------------------------------------------------------------------------
Usage(r) == [turn |-> request[r].turn, tokens |-> request[r].got]

\* The answer is complete: got words, and how it ended.
Complete(r, got, end) ==
    /\ Become(r, [request[r] EXCEPT !.at = "keep", !.got = got, !.end = end,
                                   !.provider = "mock", !.tries = 0, !.gone = FALSE])
    /\ completed' = completed \cup
         {[turn |-> request[r].turn, tokens |-> got]}

\* GenerateWithFallback: an answer of the provider asked, after retries.
Generated(r) ==
    /\ At(r, "generate")
    /\ request[r].provider = "openai" => ~request[r].gone
    /\ \E n \in Lengths : Complete(r, n, "finish")
    /\ UNCHANGED <<sessionVars, producer, usageVars, delivered, turns>>

\* executeWithRetry waits and tries again.
Retry(r) ==
    /\ At(r, "generate")
    /\ request[r].provider = "openai"
    /\ ~request[r].gone
    /\ request[r].tries < MaxRetries
    /\ Become(r, [request[r] EXCEPT !.tries = @ + 1])
    /\ UNCHANGED <<sessionVars, producer, usageVars, historyVars>>

\* A fatal error, the last retry or a client that left: the mock answers, whether
\* the client is there or not; it fails only when told to (SimulateError).
FallBack(r) ==
    /\ At(r, "generate") \/ At(r, "open")
    /\ IF request[r].provider = "openai"
         THEN Become(r, [request[r] EXCEPT !.provider = "mock"])
         ELSE Leaves(r)
    /\ UNCHANGED <<sessionVars, producer, usageVars, historyVars>>

\* StreamWithFallback starts a goroutine; how long the answer is turns out later.
OpenStream(r) ==
    /\ At(r, "open")
    /\ request[r].provider = "openai" => ~request[r].gone
    /\ \E n \in Lengths :
         producer' = [producer EXCEPT ![r] =
             [NoStream EXCEPT !.at = "check", !.provider = request[r].provider, !.left = n]]
    /\ Become(r, [request[r] EXCEPT !.at = "stream", !.provider = "mock"])
    /\ UNCHANGED <<sessionVars, usageVars, historyVars>>

\* ctx.Done: the client left, or the handler returned.
Cancelled(r) == request[r].gone \/ At(r, "idle")

\* The mock checks before every word, OpenAI's before every line.
Checks(r) == producer[r].provider = "openai" \/ producer[r].left > 0

ProducerMoves(r, record) ==
    /\ producer' = [producer EXCEPT ![r] = record]
    /\ UNCHANGED <<sessionVars, request, usageVars, historyVars>>

ProducerChecks(r) ==
    LET p == producer[r]
    IN  /\ p.at = "check"
        /\ ProducerMoves(r, [p EXCEPT !.at =
             IF Checks(r) /\ Cancelled(r) THEN "closed" ELSE "send"])

\* Mutant: the channel is not closed after the end.
ProducerSendsUnclosed(r) ==
    LET p == producer[r]
    IN  /\ p.at = "send"
        /\ Len(p.chan) < Buffer
        /\ \/ /\ p.left > 0
              /\ ProducerMoves(r, [p EXCEPT !.at = "check", !.left = @ - 1,
                                           !.chan = Append(@, "word")])
           \/ /\ p.left = 0
              /\ ProducerMoves(r, [p EXCEPT !.at = "over", !.chan = Append(@, "finish")])

\* A word, or the end with its count; blocks while the channel is full.  One line
\* of OpenAI's may hold the last word and the end, with no check between them.
\* OpenAI's end comes twice, with the finish_reason and with [DONE]: the second
\* changes nothing, and a failure between them ends as one before the first does.
ProducerSends(r) ==
    LET p == producer[r]
    IN  /\ p.at = "send"
        /\ Len(p.chan) < Buffer
        /\ \/ /\ p.left > 0
              /\ \E step \in {"check"} \cup
                     (IF p.provider = "openai" /\ p.left = 1 THEN {"send"} ELSE {}) :
                   ProducerMoves(r, [p EXCEPT !.at = step, !.left = @ - 1,
                                              !.chan = Append(@, "word")])
           \/ /\ p.left = 0
              /\ ProducerMoves(r, [p EXCEPT !.at = "closed", !.chan = Append(@, "finish")])

\* The body cannot be read to its end: the scanner's error goes to the channel.
UpstreamFails(r) ==
    LET p == producer[r]
    IN  /\ p.at = "check" /\ p.provider = "openai"
        /\ ProducerMoves(r, [p EXCEPT !.at = "fail"])

\* Mutant: room is not waited for.
SendsErrorAnyway(r) ==
    LET p == producer[r]
    IN  /\ p.at = "fail"
        /\ ProducerMoves(r, [p EXCEPT !.at = "closed", !.chan = Append(@, "error")])

SendsError(r) ==
    LET p == producer[r]
    IN  /\ p.at = "fail"
        /\ Len(p.chan) < Buffer
        /\ ProducerMoves(r, [p EXCEPT !.at = "closed", !.chan = Append(@, "error")])

\* The body ends, but not with [DONE]: no error.
UpstreamEnds(r) ==
    LET p == producer[r]
    IN  /\ p.at = "check" /\ p.provider = "openai"
        /\ ProducerMoves(r, [p EXCEPT !.at = "closed", !.cut = TRUE])

\* Mutant: the handler skips over an error.
ReadSkipsError(r) ==
    LET req == request[r] chunk == Head(producer[r].chan)
    IN  /\ At(r, "stream")
        /\ producer[r].chan # <<>>
        /\ producer' = [producer EXCEPT ![r].chan = Tail(@)]
        /\ IF req.gone THEN Leaves(r)
           ELSE Become(r, [req EXCEPT !.got = IF chunk = "word" THEN @ + 1 ELSE @,
                                      !.end = IF chunk = "word" THEN @ ELSE chunk])
        /\ UNCHANGED <<sessionVars, usageVars, historyVars>>

\* The handler takes a chunk, looks at ctx only then, and writes to the client.
Read(r) ==
    LET req == request[r] chunk == Head(producer[r].chan)
    IN  /\ At(r, "stream")
        /\ producer[r].chan # <<>>
        /\ producer' = [producer EXCEPT ![r].chan = Tail(@)]
        /\ IF req.gone \/ chunk = "error" THEN Leaves(r)
           ELSE Become(r, [req EXCEPT !.got = IF chunk = "word" THEN @ + 1 ELSE @,
                                      !.end = IF chunk = "word" THEN @ ELSE chunk])
        /\ UNCHANGED <<sessionVars, usageVars, historyVars>>

\* The channel is closed: [DONE] is written, then the turn is kept.
StreamDone(r) ==
    LET req == request[r]
    IN  /\ At(r, "stream")
        /\ producer[r].chan = <<>> /\ producer[r].at = "closed"
        /\ Complete(r, req.got, IF req.end = "finish" THEN "finish"
                                ELSE IF producer[r].cut THEN "cut"
                                ELSE IF req.gone THEN "left" ELSE "error")
        /\ delivered' = [delivered EXCEPT ![req.id] = @ \cup {req.turn}]
        /\ producer' = [producer EXCEPT ![r] = NoStream]
        /\ UNCHANGED <<sessionVars, usageVars, turns>>

-----------------------------------------------------------------------------
Message(r, role) == [turn |-> request[r].turn, role |-> role, end |-> request[r].end]

\* Mutant: the two messages of a turn are added by two calls.
KeepOneByOne(r) ==
    LET req == request[r] half == req.turn \in TurnsOf(req.id)
    IN  /\ At(r, "keep")
        /\ \/ /\ AddMessages(req.id, <<Message(r, IF half THEN "assistant" ELSE "user")>>)
              /\ Goes(r, IF half THEN "usage" ELSE "keep")
           \/ /\ ~Exists(req.id)
              /\ Goes(r, "usage")
              /\ UNCHANGED sessionVars
        /\ UNCHANGED <<producer, usageVars, historyVars>>

\* Mutant: no usage for a turn that could not be kept.
KeepOrForget(r) ==
    LET req == request[r]
    IN  /\ At(r, "keep")
        /\ \/ /\ AddMessages(req.id, <<Message(r, "user"), Message(r, "assistant")>>)
              /\ Goes(r, "usage")
           \/ /\ ~Exists(req.id)
              /\ Leaves(r)
              /\ UNCHANGED sessionVars
        /\ UNCHANGED <<producer, usageVars, historyVars>>

\* AddMessages; that the session has been deleted is ignored.
Keep(r) ==
    LET req == request[r]
    IN  /\ At(r, "keep")
        /\ \/ /\ AddMessages(req.id, <<Message(r, "user"), Message(r, "assistant")>>)
              /\ Goes(r, "usage")
              /\ UNCHANGED delivered
           \/ /\ ~Exists(req.id)
              /\ delivered' = [delivered EXCEPT ![req.id] = @ \ {req.turn}]
              /\ request' = [q \in Requests |->
                   [request[q] EXCEPT !.at = IF q = r THEN "usage" ELSE @,
                                      !.told = @ \ {req.turn}]]
              /\ UNCHANGED sessionVars
        /\ UNCHANGED <<producer, usageVars, completed, turns>>

\* recordUsage publishes; the answer of a request that does not stream follows.
RecordUsage(r) ==
    LET req == request[r]
    IN  /\ At(r, "usage")
        /\ pending' = pending \cup {Usage(r)}
        /\ delivered' = IF Exists(req.id) /\ req.turn \in TurnsOf(req.id)
                          THEN [delivered EXCEPT ![req.id] = @ \cup {req.turn}]
                          ELSE delivered
        /\ Leaves(r)
        /\ UNCHANGED <<sessionVars, producer, billed, collided, completed, turns>>

\* Billing's subscriber.  The ID of the event is the time to the millisecond: of
\* two in the same one, the second is a duplicate.
Bill(e) ==
    /\ e \in pending
    /\ pending' = pending \ {e}
    /\ \/ billed' = billed \cup {e} /\ UNCHANGED collided
       \/ billed # {} /\ collided' = collided \cup {e} /\ UNCHANGED billed
    /\ UNCHANGED <<sessionVars, request, producer, historyVars>>

\* Seen where ctx is looked at, and of no consequence later.
ClientLeaves(r) ==
    /\ request[r].at \in {"generate", "open", "stream"}
    /\ ~request[r].gone
    /\ Become(r, [request[r] EXCEPT !.gone = TRUE])
    /\ UNCHANGED <<sessionVars, producer, usageVars, historyVars>>

\* DELETE /v1/chat/sessions/{id}
Delete(id) ==
    /\ DeleteSession(id)
    /\ delivered' = [delivered EXCEPT ![id] = {}]
    /\ request' = [r \in Requests |->
         [request[r] EXCEPT !.told = IF request[r].id = id THEN {} ELSE @]]
    /\ UNCHANGED <<producer, usageVars, completed, turns>>

-----------------------------------------------------------------------------
Answer(r) ==
    \/ CheckPolicies(r) \/ GetSession(r) \/ Build(r)
    \/ Generated(r) \/ Retry(r) \/ FallBack(r) \/ OpenStream(r)
    \/ Read(r) \/ StreamDone(r) \/ Keep(r) \/ RecordUsage(r)

Produce(r) ==
    \/ ProducerChecks(r) \/ ProducerSends(r)
    \/ UpstreamFails(r) \/ SendsError(r) \/ UpstreamEnds(r)

Next ==
    \/ \E r \in Requests : Post(r) \/ Answer(r) \/ Produce(r) \/ ClientLeaves(r)
    \/ \E e \in pending : Bill(e)
    \/ \E id \in SessionIds : Delete(id)

\* The handler's next step is a write to a client that is there.
WritesToClient(r) == At(r, "stream") /\ ~request[r].gone

\* Goroutines that can run do.  The provider's HTTP client has a timeout, so that
\* a producer waiting for its upstream gets a line, the end or an error.  The server
\* has none (cmd/lab/main.go): a write to a client that does not read may block for
\* ever, and is only certain to return, with an error, once the client has left.
Fairness ==
    /\ \A r \in Requests :
         WF_vars(~WritesToClient(r) /\ Answer(r)) /\ WF_vars(Produce(r))
    /\ WF_vars(\E e \in pending : Bill(e))

Spec == Init /\ [][Next]_vars /\ Fairness

-----------------------------------------------------------------------------
Events == [turn : 1..MaxTurns, tokens : 0..Max(Lengths)]

\* The types of the state.
TypeOK ==
    /\ \A r \in Requests :
         /\ request[r].at \in {"idle", "policies", "session", "build", "generate",
                               "open", "stream", "keep", "usage"}
         /\ request[r].got \in 0..Max(Lengths)
         /\ request[r].told \cup request[r].missed \subseteq 1..MaxTurns
         /\ producer[r].at \in {"check", "send", "fail", "closed"}
         /\ producer[r].left \in 0..Max(Lengths)
         /\ producer[r].chan \in Seq({"word", "finish", "error"})
         /\ Len(producer[r].chan) <= Buffer
    /\ pending \cup billed \cup collided \cup completed \subseteq Events

\* A transcript is a sequence of whole turns: what the user said and the answer
\* to it, however the requests of a session interleave, and no turn twice.
WholeTurns ==
    \A id \in {id \in SessionIds : Exists(id)} :
        LET messages == sessions[id].messages
        IN  /\ \A i \in DOMAIN messages :
                 LET other == IF i % 2 = 1 THEN i + 1 ELSE i - 1
                 IN  /\ messages[i].role = IF i % 2 = 1 THEN "user" ELSE "assistant"
                     /\ other \in DOMAIN messages
                     /\ messages[other].turn = messages[i].turn
            /\ 2 * Cardinality(TurnsOf(id)) = Len(messages)

\* Every completed answer is billed, or its subscriber will run, with the words
\* it had, also when its session was deleted meanwhile; nothing else is.  But for
\* an event taken for a duplicate of another in the same millisecond.
UsageOfAnswers ==
    /\ completed = pending \cup billed \cup collided
                      \cup {Usage(r) : r \in {r \in Requests : request[r].at \in {"keep", "usage"}}}
    /\ Cardinality(completed) = Cardinality({e.turn : e \in completed})

\* An answer cut short by a provider's error is not kept.  (One that the provider
\* stopped because the client had left may be, as may one whose upstream closed
\* the connection in good order.)
NoFailedAnswerKept ==
    \A id \in {id \in SessionIds : Exists(id)} :
        \A i \in DOMAIN sessions[id].messages : sessions[id].messages[i].end # "error"

\* A request sees in the transcript every turn that its client had been answered
\* when it was posted, but for one whose handler has written [DONE] and not yet
\* kept it, and those of a deleted session.
Remembers == \A r \in Requests : request[r].missed = {}

\* If its client reads what the handler writes until it leaves, a connection is free
\* again and again: the handler has ended, and the provider's goroutine has, or is
\* blocked for ever because the client left while the channel was full.
StreamsEnd ==
    \A r \in Requests :
        WF_vars(WritesToClient(r) /\ Answer(r)) =>
            []<>(/\ At(r, "idle")
                 /\ producer[r].at = "closed" \/ Len(producer[r].chan) = Buffer)
=============================================================================
