-------------------------- MODULE Completion_proofs --------------------------
(***************************************************************************)
(* Proofs about Completion and the Sessions it extends, for any keys,      *)
(* sessions, connections, answers and retries, any capacity of a stream's  *)
(* channel and any number of requests.                                     *)
(***************************************************************************)
EXTENDS Completion, SequenceTheorems, FiniteSetTheorems, TLAPS

USE CompletionAssumption

-----------------------------------------------------------------------------
(* Type correctness.  What the model's TypeOK says is not inductive: that  *)
(* the words of an answer stay within bounds depends on what the channel   *)
(* still holds and the provider has yet to send.                           *)

Longest == Max(Lengths)
Words   == 0..Longest
Turns   == 1..MaxTurns

Session == [key : Keys, messages : Seq(Entry)]

Steps == {"idle", "policies", "session", "build", "generate", "open", "stream", "keep",
          "usage"}

Providers == {"mock", "openai"}
Tries     == 0..MaxRetries
TurnOr0   == 0..MaxTurns
KeyOrNone == Keys \cup {None}
IdOrNone  == SessionIds \cup {None}

Request == [at : Steps, key : KeyOrNone, id : IdOrNone, turn : TurnOr0,
            provider : Providers, tries : Tries, gone : BOOLEAN, got : Words,
            end : Ends, told : SUBSET Turns, missed : SUBSET Turns]

Chunks == {"word", "finish", "error"}

ProducerSteps == {"check", "send", "fail", "closed"}

Producer == [at : ProducerSteps, provider : Providers, left : Words, cut : BOOLEAN,
             chan : Seq(Chunks)]

SessionsOK ==
    /\ sessions \in [SessionIds -> Session \cup {None}]
    /\ index \in [Keys -> Seq(SessionIds)]

RequestsOK ==
    /\ request \in [Requests -> Request]
    /\ \A r \in Requests : ~At(r, "idle") =>
          request[r].key \in Keys /\ request[r].id \in SessionIds /\ request[r].turn \in Turns

UsageOK ==
    /\ pending \subseteq Events /\ billed \subseteq Events /\ collided \subseteq Events
    /\ completed \subseteq Events
    /\ delivered \in [SessionIds -> SUBSET Turns]
    /\ turns \in 0..MaxTurns

ProducersOK == producer \in [Requests -> Producer]

Types == SessionsOK /\ RequestsOK /\ ProducersOK /\ UsageOK

\* The words in a channel: its last chunk may be the end.
Queued(chan) ==
    IF chan # <<>> /\ chan[Len(chan)] # "word" THEN Len(chan) - 1 ELSE Len(chan)

Ended(chan) == chan # <<>> /\ chan[Len(chan)] # "word"

\* A provider's goroutine runs for a stream that is read, or was abandoned; the
\* end of an answer is the last chunk of its channel.
StreamOK(r) ==
    LET chan == producer[r].chan
    IN  /\ Len(chan) <= Buffer
        /\ \A i \in 1 .. Len(chan) : i # Len(chan) => chan[i] = "word"
        /\ Ended(chan) => producer[r].at = "closed"
        /\ request[r].at \notin {"idle", "stream"} => producer[r].at = "closed"
        /\ request[r].at \in {"policies", "session", "build", "generate", "open"} =>
              request[r].got = 0
        /\ At(r, "stream") => request[r].got + producer[r].left + Queued(chan) <= Longest

StreamsOK == \A r \in Requests : StreamOK(r)

-----------------------------------------------------------------------------
(* Turns                                                                   *)

Unanswered == {"policies", "session", "build", "generate", "open", "stream"}

Unkept == Unanswered \cup {"keep"}

\* A turn is one request's, and nothing has it but what that request left.
TurnsApart ==
    /\ \A r \in Requests : ~At(r, "idle") => request[r].turn <= turns
    /\ \A q, r \in Requests : ~At(q, "idle") /\ ~At(r, "idle")
                                 /\ request[q].turn = request[r].turn => q = r
    /\ \A e \in completed : e.turn <= turns
    /\ \A r \in Requests, e \in completed :
          request[r].at \in Unanswered => e.turn # request[r].turn
    /\ \A id \in SessionIds : \A t \in TurnsOf(id) : t <= turns
    /\ \A r \in Requests, id \in SessionIds :
          request[r].at \in Unkept => request[r].turn \notin TurnsOf(id)

\* The completed answers, told apart by their turns.
AnswersApart ==
    /\ IsFiniteSet(completed)
    /\ \A e, f \in completed : e.turn = f.turn => e = f

UsageFollows ==
    completed = pending \cup billed \cup collided
                  \cup {Usage(r) : r \in {r \in Requests : request[r].at \in {"keep", "usage"}}}

-----------------------------------------------------------------------------
(* Transcripts                                                             *)

TranscriptsWhole ==
    /\ WholeTurns
    /\ \A id \in SessionIds : IsFiniteSet(TurnsOf(id))

\* The answer of a stream that is over has an end, was cut, or nobody waits for it.
EndIsKnown(r) ==
    /\ At(r, "stream") /\ producer[r].at = "closed" =>
          \/ request[r].end = "finish"
          \/ producer[r].cut
          \/ request[r].gone
          \/ Ended(producer[r].chan)
    /\ At(r, "keep") => request[r].end # "error"

FailuresLeave == NoFailedAnswerKept /\ \A r \in Requests : EndIsKnown(r)

\* The turns of a session that handlers are about to keep.
KeepingIn(id) == {request[q].turn : q \in {q \in Requests : At(q, "keep") /\ request[q].id = id}}

\* What a client was answered is in the transcript, or about to be.
AnsweredIsKept ==
    /\ \A id \in SessionIds : delivered[id] \subseteq TurnsOf(id) \cup KeepingIn(id)
    /\ \A r \in Requests : request[r].at \in {"policies", "session", "build"} =>
          request[r].told \subseteq TurnsOf(request[r].id) \cup KeepingIn(request[r].id)
    /\ Remembers


-----------------------------------------------------------------------------
(***************************************************************************)
(* The loop of DeleteSession: what Without returns, for every list.  The   *)
(* recursive function exists, and computes what it should, because there   *)
(* is no least index at which it fails to.                                 *)
(***************************************************************************)

LEMMA LeastNatural ==
    ASSUME NEW T \in SUBSET Nat, T # {}
    PROVE  \E m \in T : \A k \in T : m <= k
<1> DEFINE less == {ss \in Nat \X Nat : ss[1] < ss[2]}
<1>1. IsWellFoundedOn(less, Nat)
  BY NatLessThanWellFounded, Zenon DEF OpToRel
<1>2. PICK m \in T : \A k \in T : ~ (<<k, m>> \in less)
  <2> HIDE DEF less
  <2>1. QED
    BY <1>1, WFMin
<1>3. \A k \in T : k \in Nat /\ m \in Nat /\ ~ (k < m)
  <2>1. \A k \in T : k < m /\ k \in Nat /\ m \in Nat => <<k, m>> \in less
    OBVIOUS
  <2> HIDE DEF less
  <2>2. QED
    BY <1>2, <2>1
<1>4. QED
  BY <1>3

\* kept holds, up to n, what the loop has copied before each of its steps.
Copies(kept, list, id, n) ==
    /\ kept \in [0 .. n -> Seq(SessionIds)]
    /\ kept[0] = <<>>
    /\ \A i \in 1 .. n :
          kept[i] = IF list[i] = id THEN kept[i - 1] ELSE Append(kept[i - 1], list[i])

LEMMA CopiesExist ==
    ASSUME NEW list \in Seq(SessionIds), NEW id, NEW n \in 0 .. Len(list)
    PROVE  \E kept : Copies(kept, list, id, n)
<1> DEFINE Bad == {k \in 0 .. Len(list) : ~ \E kept : Copies(kept, list, id, k)}
<1> SUFFICES ASSUME Bad # {} PROVE FALSE
  OBVIOUS
<1>1. PICK m \in Bad : \A k \in Bad : m <= k
  <2>1. Bad \in SUBSET Nat
    OBVIOUS
  <2> HIDE DEF Bad
  <2>2. QED
    BY <2>1, LeastNatural
<1>2. CASE m = 0
  <2>1. Copies([i \in 0 .. 0 |-> <<>>], list, id, 0)
    BY DEF Copies
  <2>2. QED
    BY <1>1, <1>2, <2>1
<1>3. CASE m # 0
  <2>1. m \in Nat /\ m - 1 \in 0 .. Len(list) /\ m \in 1 .. Len(list)
    BY <1>1, <1>3
  <2>2. m - 1 \notin Bad
    BY <1>1, <2>1
  <2>3. PICK kept : Copies(kept, list, id, m - 1)
    BY <2>1, <2>2
  <2> DEFINE last == IF list[m] = id THEN kept[m - 1] ELSE Append(kept[m - 1], list[m])
             longer == [i \in 0 .. m |-> IF i = m THEN last ELSE kept[i]]
  <2>4. last \in Seq(SessionIds)
    <3>1. kept[m - 1] \in Seq(SessionIds) /\ list[m] \in SessionIds
      BY <2>1, <2>3 DEF Copies
    <3>2. Append(kept[m - 1], list[m]) \in Seq(SessionIds)
      BY <3>1
    <3>3. QED
      BY <3>1, <3>2
  <2>5. longer \in [0 .. m -> Seq(SessionIds)]
    BY <2>1, <2>3, <2>4 DEF Copies
  <2>6. longer[0] = <<>>
    BY <1>3, <2>1, <2>3 DEF Copies
  <2>7. ASSUME NEW i \in 1 .. m
        PROVE  longer[i] = IF list[i] = id THEN longer[i - 1] ELSE Append(longer[i - 1], list[i])
    <3>1. CASE i = m
      <4>1. longer[i] = last /\ longer[i - 1] = kept[m - 1]
        BY <2>1, <3>1
      <4>2. QED
        BY <3>1, <4>1
    <3>2. CASE i # m
      <4>1. i \in 1 .. m - 1 /\ longer[i] = kept[i] /\ longer[i - 1] = kept[i - 1]
        BY <2>1, <3>2
      <4>2. QED
        BY <2>3, <4>1 DEF Copies
    <3>3. QED
      BY <3>1, <3>2
  <2>8. Copies(longer, list, id, m)
    BY <2>5, <2>6, <2>7 DEF Copies
  <2>9. QED
    BY <1>1, <2>8
<1>4. QED
  BY <1>2, <1>3

LEMMA WithoutCopies ==
    ASSUME NEW list \in Seq(SessionIds), NEW id
    PROVE  \E kept : Copies(kept, list, id, Len(list)) /\ Without(list, id) = kept[Len(list)]
<1> DEFINE Step(kept, i) == IF i = 0 THEN <<>>
                            ELSE IF list[i] = id THEN kept[i - 1]
                            ELSE Append(kept[i - 1], list[i])
           IsKept(kept) == kept = [i \in 0 .. Len(list) |-> Step(kept, i)]
           chosen == CHOOSE kept : IsKept(kept)
<1>1. Without(list, id) = chosen[Len(list)]
  BY DEF Without
<1>2. Len(list) \in Nat
  OBVIOUS
<1>3. PICK kept : Copies(kept, list, id, Len(list))
  <2>1. Len(list) \in 0 .. Len(list)
    BY <1>2
  <2>2. QED
    BY <2>1, CopiesExist
<1>4. IsKept(kept)
  <2>1. kept = [i \in 0 .. Len(list) |-> kept[i]]
    BY <1>3 DEF Copies
  <2>2. ASSUME NEW i \in 0 .. Len(list) PROVE kept[i] = Step(kept, i)
    <3>1. i # 0 => i \in 1 .. Len(list)
      BY <1>2
    <3>2. QED
      BY <1>3, <3>1 DEF Copies
  <2>3. QED
    BY <2>1, <2>2
<1>5. IsKept(chosen)
  BY <1>4, Zenon
<1>6. \A i \in 0 .. Len(list) : chosen[i] = kept[i]
  <2> DEFINE Bad == {i \in 0 .. Len(list) : chosen[i] # kept[i]}
  <2> SUFFICES ASSUME Bad # {} PROVE FALSE
    OBVIOUS
  <2>1. PICK m \in Bad : \A k \in Bad : m <= k
    <3>1. Bad \in SUBSET Nat
      BY <1>2
    <3> HIDE DEF Bad
    <3>2. QED
      BY <3>1, LeastNatural
  <2>2. m \in 0 .. Len(list) /\ chosen[m] = Step(chosen, m) /\ kept[m] = Step(kept, m)
    BY <1>4, <1>5, <2>1
  <2>3. m # 0 => chosen[m - 1] = kept[m - 1]
    <3> SUFFICES ASSUME m # 0 PROVE m - 1 \notin Bad /\ m - 1 \in 0 .. Len(list)
      OBVIOUS
    <3>1. m \in Nat /\ m - 1 \in 0 .. Len(list) /\ ~ (m <= m - 1)
      BY <1>2, <2>2
    <3>2. QED
      BY <2>1, <3>1
  <2>4. QED
    BY <2>1, <2>2, <2>3
<1>7. Without(list, id) = kept[Len(list)]
  BY <1>1, <1>2, <1>6
<1>8. QED
  BY <1>3, <1>7


\* One more element at the end of a list.
LEMMA AppendElement ==
    ASSUME NEW S, NEW s \in Seq(S), NEW x \in S
    PROVE  /\ ToSet(Append(s, x)) = ToSet(s) \cup {x}
           /\ IsInjective(s) /\ x \notin ToSet(s) => IsInjective(Append(s, x))
<1> DEFINE longer == Append(s, x)
<1>1. /\ Len(s) \in Nat /\ DOMAIN s = 1 .. Len(s) /\ DOMAIN longer = 1 .. Len(s) + 1
      /\ \A i \in 1 .. Len(s) : longer[i] = s[i]
      /\ longer[Len(s) + 1] = x
  OBVIOUS
<1>2. \A i \in 1 .. Len(s) + 1 : i = Len(s) + 1 \/ i \in 1 .. Len(s)
  BY <1>1
<1>3. \A i \in 1 .. Len(s) : i \in 1 .. Len(s) + 1
  BY <1>1
<1>4. Len(s) + 1 \in 1 .. Len(s) + 1
  BY <1>1
<1> HIDE DEF longer
<1>5. ToSet(longer) = ToSet(s) \cup {x}
  BY <1>1, <1>2, <1>3, <1>4 DEF ToSet
<1>6. IsInjective(s) /\ x \notin ToSet(s) => IsInjective(longer)
  BY <1>1, <1>2 DEF ToSet, IsInjective
<1>7. QED
  BY <1>5, <1>6 DEF longer

(* Deleting a session takes its ID, and nothing else, out of the index,    *)
(* and leaves no ID there twice.                                           *)
LEMMA WithoutRemoves ==
    ASSUME NEW list \in Seq(SessionIds), NEW id
    PROVE  /\ Without(list, id) \in Seq(SessionIds)
           /\ ToSet(Without(list, id)) = ToSet(list) \ {id}
           /\ IsInjective(list) => IsInjective(Without(list, id))
<1>1. PICK kept : Copies(kept, list, id, Len(list)) /\ Without(list, id) = kept[Len(list)]
  BY WithoutCopies
<1>2. Len(list) \in Nat /\ DOMAIN list = 1 .. Len(list)
  OBVIOUS
<1> DEFINE Before(i) == {list[j] : j \in 1 .. i} \ {id}
           Right(i) == /\ ToSet(kept[i]) = Before(i)
                       /\ IsInjective(list) => IsInjective(kept[i])
           Bad == {i \in 0 .. Len(list) : ~Right(i)}
<1>3. Right(0)
  <2>1. kept[0] = <<>> /\ DOMAIN kept[0] = {}
    BY <1>1 DEF Copies
  <2>2. Before(0) = {}
    OBVIOUS
  <2>3. QED
    BY <2>1, <2>2 DEF ToSet, IsInjective
<1>4. ASSUME NEW i \in 1 .. Len(list), Right(i - 1) PROVE Right(i)
  <2>1. /\ i - 1 \in 0 .. Len(list) /\ i - 1 \in Nat /\ i \in Nat
        /\ kept[i - 1] \in Seq(SessionIds) /\ list[i] \in SessionIds
    <3>1. i - 1 \in 0 .. Len(list) /\ i - 1 \in Nat /\ i \in Nat
      BY <1>2
    <3>2. QED
      BY <1>1, <3>1 DEF Copies
  <2>2. \A j \in 1 .. i : j = i \/ j \in 1 .. i - 1
    BY <2>1
  <2>3. (1 .. i) = (1 .. i - 1) \cup {i}
    BY <2>1
  <2>4. {list[j] : j \in 1 .. i} = {list[j] : j \in 1 .. i - 1} \cup {list[i]}
    BY <2>3
  <2>5. CASE list[i] = id
    <3>1. kept[i] = kept[i - 1]
      BY <1>1, <2>5 DEF Copies
    <3>2. Before(i) = Before(i - 1)
      BY <2>4, <2>5
    <3>3. QED
      BY <1>4, <3>1, <3>2
  <2>6. CASE list[i] # id
    <3>1. kept[i] = Append(kept[i - 1], list[i])
      BY <1>1, <2>6 DEF Copies
    <3>2. Before(i) = Before(i - 1) \cup {list[i]}
      BY <2>4, <2>6
    <3>3. ToSet(kept[i]) = Before(i)
      <4>1. ToSet(Append(kept[i - 1], list[i])) = ToSet(kept[i - 1]) \cup {list[i]}
        BY <2>1, AppendElement
      <4> HIDE DEF Before
      <4>2. QED
        BY <1>4, <3>1, <3>2, <4>1
    <3>4. ASSUME IsInjective(list) PROVE IsInjective(kept[i])
      <4>1. \A j \in 1 .. i - 1 : j \in DOMAIN list /\ i \in DOMAIN list /\ j # i
        BY <1>2, <2>1
      <4>2. list[i] \notin Before(i - 1)
        BY <3>4, <4>1 DEF IsInjective
      <4>3. list[i] \notin ToSet(kept[i - 1])
        BY <1>4, <4>2
      <4>4. QED
        BY <1>4, <2>1, <3>1, <3>4, <4>3, AppendElement
    <3>5. QED
      BY <3>3, <3>4
  <2>7. QED
    BY <2>5, <2>6
<1>5. \A i \in 0 .. Len(list) : Right(i)
  <2> HIDE DEF Right
  <2> SUFFICES ASSUME Bad # {} PROVE FALSE
    OBVIOUS
  <2>1. PICK m \in Bad : \A k \in Bad : m <= k
    <3>1. Bad \in SUBSET Nat
      BY <1>2
    <3> HIDE DEF Bad
    <3>2. QED
      BY <3>1, LeastNatural
  <2>2. m # 0
    BY <1>3, <2>1
  <2>3. m \in 1 .. Len(list) /\ m - 1 \in 0 .. Len(list) /\ ~ (m <= m - 1)
    BY <1>2, <2>1, <2>2
  <2>4. Right(m - 1)
    BY <2>1, <2>3
  <2>5. QED
    BY <1>4, <2>1, <2>3, <2>4
<1>6. Len(list) \in 0 .. Len(list)
  BY <1>2
<1>7. Right(Len(list))
  BY <1>5, <1>6
<1>8. kept[Len(list)] \in Seq(SessionIds)
  BY <1>1, <1>6 DEF Copies
<1>9. QED
  BY <1>1, <1>2, <1>7, <1>8 DEF ToSet


-----------------------------------------------------------------------------
(* Every step keeps the types *)

LEMMA LongestIs == Longest \in Nat /\ Lengths \subseteq Words
<1>1. PICK longest \in Lengths : \A n \in Lengths : n <= longest
  OBVIOUS
<1>2. Longest \in Lengths /\ \A n \in Lengths : Longest >= n
  BY <1>1 DEF Longest, Max
<1>3. QED
  BY <1>2 DEF Words

LEMMA IdleTyped == Idle \in Request
BY LongestIs DEF Idle, Request, Steps, Words, Turns, Ends, Providers, Tries, TurnOr0,
                 KeyOrNone, IdOrNone

LEMMA NoStreamTyped == NoStream \in Producer
BY LongestIs DEF NoStream, Producer, ProducerSteps, Providers, Words, Chunks

\* One request moves on.
LEMMA BecomeIs ==
    ASSUME RequestsOK, NEW r \in Requests, NEW record, Become(r, record)
    PROVE  /\ request'[r] = record
           /\ \A q \in Requests \ {r} : request'[q] = request[q]
           /\ \A q \in Requests : request'[q] = IF q = r THEN record ELSE request[q]
           /\ request' = [q \in Requests |-> IF q = r THEN record ELSE request[q]]
BY DEF RequestsOK, Become

LEMMA LeavesTyped ==
    ASSUME RequestsOK, NEW r \in Requests, Leaves(r)
    PROVE  RequestsOK'
<1>1. request' = [q \in Requests |-> IF q = r THEN Idle ELSE request[q]]
  BY BecomeIs DEF Leaves
<1>2. Idle.at = "idle"
  BY DEF Idle
<1>3. QED
  BY <1>1, <1>2, IdleTyped DEF RequestsOK, At

\* It stays the request it was: only its progress changes.
LEMMA ContinuesTyped ==
    ASSUME RequestsOK, NEW r \in Requests, ~At(r, "idle"), NEW record \in Request,
           record.key = request[r].key, record.id = request[r].id,
           record.turn = request[r].turn, Become(r, record)
    PROVE  RequestsOK'
<1>1. request' = [q \in Requests |-> IF q = r THEN record ELSE request[q]]
  BY BecomeIs
<1>2. QED
  BY <1>1 DEF RequestsOK, At

LEMMA GoesTyped ==
    ASSUME RequestsOK, NEW r \in Requests, ~At(r, "idle"), NEW step \in Steps, Goes(r, step)
    PROVE  RequestsOK'
<1>1. request[r] \in Request
  BY DEF RequestsOK
<1>2. [request[r] EXCEPT !.at = step] \in Request
  BY <1>1 DEF Request
<1>3. /\ [request[r] EXCEPT !.at = step].key = request[r].key
      /\ [request[r] EXCEPT !.at = step].id = request[r].id
      /\ [request[r] EXCEPT !.at = step].turn = request[r].turn
  BY <1>1 DEF Request
<1>4. QED
  BY <1>2, <1>3, ContinuesTyped DEF Goes

LEMMA CompleteTyped ==
    ASSUME RequestsOK, UsageOK, NEW r \in Requests, ~At(r, "idle"), NEW n \in Words,
           NEW end \in Ends, Complete(r, n, end)
    PROVE  RequestsOK' /\ completed' \subseteq Events
<1> DEFINE record == [request[r] EXCEPT !.at = "keep", !.got = n, !.end = end,
                                        !.provider = "mock", !.tries = 0, !.gone = FALSE]
<1>1. request[r] \in Request /\ request[r].turn \in Turns
  BY DEF RequestsOK
<1>2. record \in Request
  <2>1. "keep" \in Steps /\ "mock" \in Providers /\ 0 \in Tries
    BY DEF Steps, Providers, Tries
  <2>2. QED
    BY <1>1, <2>1 DEF Request
<1>3. record.key = request[r].key /\ record.id = request[r].id /\ record.turn = request[r].turn
  BY <1>1 DEF Request
<1>4. Become(r, record) /\ completed' = completed \cup {[turn |-> request[r].turn, tokens |-> n]}
  BY DEF Complete
<1>5. RequestsOK'
  <2> HIDE DEF record
  <2>1. QED
    BY <1>2, <1>3, <1>4, ContinuesTyped
<1>6. QED
  BY <1>1, <1>4, <1>5 DEF UsageOK, Events, Turns, Words, Longest

\* The turns of a transcript, and what RequestsOK says of a request's usage.
LEMMA TurnsTyped == SessionsOK => \A id \in SessionIds : TurnsOf(id) \subseteq Turns
<1> SUFFICES ASSUME SessionsOK, NEW id \in SessionIds, Exists(id) PROVE TurnsOf(id) \subseteq Turns
  BY DEF TurnsOf
<1>1. sessions[id].messages \in Seq(Entry)
  BY DEF SessionsOK, Session, Exists
<1>2. \A i \in DOMAIN sessions[id].messages : sessions[id].messages[i] \in Entry
  BY <1>1
<1>3. QED
  BY <1>2 DEF TurnsOf, Entry, Turns

LEMMA UsageTyped ==
    ASSUME RequestsOK, NEW r \in Requests, ~At(r, "idle")
    PROVE  Usage(r) \in Events
BY DEF RequestsOK, Request, Usage, Events, Turns, Words, Longest

LEMMA MessageTyped ==
    ASSUME RequestsOK, NEW r \in Requests, ~At(r, "idle"), NEW role \in {"user", "assistant"}
    PROVE  Message(r, role) \in Entry
BY DEF RequestsOK, Request, Message, Entry, Turns

LEMMA AddTyped ==
    ASSUME SessionsOK, NEW id \in SessionIds, NEW messages \in Seq(Entry), AddMessages(id, messages)
    PROVE  /\ SessionsOK'
           /\ sessions[id] \in Session
           /\ sessions'[id] = [key |-> sessions[id].key,
                               messages |-> sessions[id].messages \o messages]
           /\ \A other \in SessionIds \ {id} : sessions'[other] = sessions[other]
           /\ index' = index
<1>1. sessions[id] \in Session
  BY DEF SessionsOK, AddMessages, Exists
<1>2. sessions[id].messages \o messages \in Seq(Entry)
  BY <1>1 DEF Session
<1>3. [sessions[id] EXCEPT !.messages = @ \o messages] =
        [key |-> sessions[id].key, messages |-> sessions[id].messages \o messages]
  <2> DEFINE m == sessions[id].messages \o messages
  <2> HIDE DEF m
  <2>1. [sessions[id] EXCEPT !.messages = m] = [key |-> sessions[id].key, messages |-> m]
    BY <1>1 DEF Session
  <2>2. QED
    BY <2>1 DEF m
<1>4. sessions' = [sessions EXCEPT ![id] = [key |-> sessions[id].key,
                                            messages |-> sessions[id].messages \o messages]]
  BY <1>3 DEF AddMessages
<1>5. QED
  BY <1>1, <1>2, <1>4 DEF SessionsOK, Session, AddMessages


LEMMA GetOrCreateTyped ==
    ASSUME SessionsOK, NEW key \in Keys, NEW id \in SessionIds, GetOrCreateSession(key, id)
    PROVE  SessionsOK'
<1>1. [key |-> key, messages |-> <<>>] \in Session
  BY DEF Session
<1>2. ~Exists(id) => Append(index[key], id) \in Seq(SessionIds)
  BY DEF SessionsOK
<1>3. QED
  BY <1>1, <1>2 DEF SessionsOK, GetOrCreateSession

LEMMA DeleteTyped ==
    ASSUME SessionsOK, NEW id \in SessionIds, DeleteSession(id)
    PROVE  /\ SessionsOK'
           /\ sessions[id].key \in Keys
           /\ index'[sessions[id].key] = Without(index[sessions[id].key], id)
           /\ \A key \in Keys : key # sessions[id].key => index'[key] = index[key]
           /\ \A other \in SessionIds : sessions'[other] =
                 IF other = id THEN None ELSE sessions[other]
<1> DEFINE key == sessions[id].key
<1>1. sessions[id] \in Session /\ key \in Keys
  BY DEF SessionsOK, DeleteSession, Exists, Session
<1>2. Without(index[key], id) \in Seq(SessionIds)
  BY <1>1, WithoutRemoves DEF SessionsOK
<1>3. QED
  BY <1>1, <1>2 DEF SessionsOK, DeleteSession

\* The channel without its first chunk.
LEMMA TailIs ==
    ASSUME NEW s \in Seq(Chunks), s # <<>>
    PROVE  /\ Tail(s) \in Seq(Chunks) /\ Len(Tail(s)) = Len(s) - 1 /\ Len(s) \in Nat \ {0}
           /\ Head(s) = s[1] /\ s[1] \in Chunks
           /\ \A i \in 1 .. Len(s) - 1 : Tail(s)[i] = s[i + 1] /\ i + 1 \in 1 .. Len(s)
           /\ Tail(s) = <<>> <=> Len(s) = 1
           /\ Tail(s) # <<>> => Tail(s)[Len(Tail(s))] = s[Len(s)]
<1>1. /\ Tail(s) \in Seq(Chunks) /\ Len(Tail(s)) = Len(s) - 1 /\ Len(s) \in Nat \ {0}
      /\ Head(s) = s[1] /\ s[1] \in Chunks
  OBVIOUS
<1>2. \A i \in 1 .. Len(s) - 1 : Tail(s)[i] = s[i + 1] /\ i + 1 \in 1 .. Len(s)
  BY <1>1
<1>3. Tail(s) = <<>> <=> Len(s) = 1
  BY <1>1, EmptySeq
<1>4. Tail(s) # <<>> => Len(s) - 1 \in 1 .. Len(s) - 1
  BY <1>1, <1>3
<1>5. Tail(s) # <<>> => Tail(s)[Len(s) - 1] = s[Len(s) - 1 + 1]
  BY <1>2, <1>4
<1>6. Tail(s) # <<>> => Tail(s)[Len(Tail(s))] = s[Len(s)]
  BY <1>1, <1>5
<1>7. QED
  BY <1>1, <1>2, <1>3, <1>6

LEMMA QueuedTail ==
    ASSUME NEW s \in Seq(Chunks), s # <<>>, Head(s) = "word"
    PROVE  Queued(Tail(s)) \in Nat /\ Queued(s) = Queued(Tail(s)) + 1
<1>1. CASE Len(s) = 1
  <2>1. Tail(s) = <<>> /\ s[Len(s)] = "word" /\ Len(Tail(s)) = 0
    BY <1>1, TailIs
  <2>2. QED
    BY <1>1, <2>1 DEF Queued
<1>2. CASE Len(s) # 1
  <2>1. /\ Tail(s) # <<>> /\ Tail(s)[Len(Tail(s))] = s[Len(s)]
        /\ Len(Tail(s)) = Len(s) - 1 /\ Len(s) \in Nat \ {0, 1}
    BY <1>2, TailIs
  <2>2. QED
    BY <2>1 DEF Queued
<1>3. QED
  BY <1>1, <1>2

\* What is read fits in what an answer may have.
LEMMA WordsBounded ==
    ASSUME Types, StreamsOK, NEW r \in Requests, At(r, "stream"), producer[r].chan # <<>>
    PROVE  Head(producer[r].chan) = "word" =>
             /\ request[r].got + 1 \in Words
             /\ request[r].got + 1 + producer[r].left + Queued(Tail(producer[r].chan)) <= Longest
<1> DEFINE chan == producer[r].chan
<1>1. /\ request[r].got \in Nat /\ producer[r].left \in Nat /\ chan \in Seq(Chunks)
      /\ Longest \in Nat
  BY LongestIs DEF Types, RequestsOK, ProducersOK, Request, Producer, Words
<1>2. request[r].got + producer[r].left + Queued(chan) <= Longest
  BY DEF StreamsOK, StreamOK
<1>3. Head(chan) = "word" =>
        Queued(Tail(chan)) \in Nat /\ Queued(chan) = Queued(Tail(chan)) + 1
  <2> HIDE DEF chan
  <2>1. QED
    BY <1>1, QueuedTail DEF chan
<1>4. \A got, left, longest, rest, all \in Nat :
         all = rest + 1 /\ got + left + all <= longest
           => got + 1 \in 0..longest /\ got + 1 + left + rest <= longest
  OBVIOUS
<1>5. Queued(chan) \in Nat
  BY <1>1, EmptySeq DEF Queued
<1> HIDE DEF chan
<1>6. QED
  BY <1>1, <1>2, <1>3, <1>4, <1>5 DEF Words, chan

LEMMA AnswerTypes ==
    ASSUME Types, StreamsOK, NEW r \in Requests, Answer(r)
    PROVE  Types'
<1> USE DEF Types, sessionVars, usageVars, historyVars
<1>1. request[r] \in Request /\ producer[r] \in Producer
  BY DEF RequestsOK, ProducersOK
<1>2. ~At(r, "idle")
  BY DEF Answer, At, CheckPolicies, GetSession, Build, Generated, Retry, FallBack, OpenStream,
         Read, StreamDone, Keep, RecordUsage
<1>3. request[r].key \in Keys /\ request[r].id \in SessionIds /\ request[r].turn \in Turns
  BY <1>2 DEF RequestsOK
<1>4. UNCHANGED <<pending, billed, collided, completed, delivered, turns>> => UsageOK'
  BY DEF UsageOK
<1>5. UNCHANGED <<sessions, index>> => SessionsOK'
  BY DEF SessionsOK
<1>6. producer' = producer => ProducersOK'
  BY DEF ProducersOK
<1>7. CASE CheckPolicies(r)
  <2>1. Goes(r, "session") => RequestsOK'
    BY <1>2, GoesTyped DEF Steps
  <2>2. QED
    BY <1>4, <1>5, <1>6, <1>7, <2>1, LeavesTyped DEF CheckPolicies
<1>8. CASE GetSession(r)
  <2>1. RequestsOK'
    BY <1>2, <1>8, GoesTyped DEF GetSession, Steps
  <2>2. SessionsOK'
    BY <1>3, <1>8, GetOrCreateTyped DEF GetSession
  <2>3. QED
    BY <1>4, <1>6, <1>8, <2>1, <2>2 DEF GetSession
<1>9. CASE Build(r)
  <2>1. PICK step \in {"open", "generate"}, p \in Providers :
          Become(r, [request[r] EXCEPT !.at = step, !.provider = p, !.told = {},
             !.missed = (request[r].told \ TurnsOf(request[r].id)) \ Keeping])
    BY <1>9 DEF Build, Providers
  <2> DEFINE missed == (request[r].told \ TurnsOf(request[r].id)) \ Keeping
             record == [request[r] EXCEPT !.at = step, !.provider = p, !.told = {},
                                          !.missed = missed]
  <2>2. missed \in SUBSET Turns /\ step \in Steps
    BY <1>1 DEF Request, Steps
  <2> HIDE DEF missed
  <2>3. record \in Request /\ record.key = request[r].key /\ record.id = request[r].id
        /\ record.turn = request[r].turn
    BY <1>1, <2>2 DEF Request
  <2>4. Become(r, record)
    BY <2>1 DEF missed
  <2> HIDE DEF record
  <2>5. RequestsOK'
    BY <1>2, <2>3, <2>4, ContinuesTyped
  <2>6. QED
    BY <1>4, <1>5, <1>6, <1>9, <2>5 DEF Build
<1>10. CASE Generated(r)
  <2>1. PICK n \in Words : Complete(r, n, "finish")
    BY <1>10, LongestIs DEF Generated
  <2>2. RequestsOK' /\ completed' \subseteq Events
    BY <1>2, <2>1, CompleteTyped DEF Ends
  <2>3. UsageOK'
    BY <1>10, <2>2 DEF Generated, UsageOK
  <2>4. QED
    BY <1>5, <1>6, <1>10, <2>2, <2>3 DEF Generated
<1>11. CASE Retry(r)
  <2> DEFINE record == [request[r] EXCEPT !.tries = @ + 1]
  <2>1. request[r].tries + 1 \in Tries
    BY <1>1, <1>11 DEF Retry, Request, Tries
  <2>2. record \in Request /\ record.key = request[r].key /\ record.id = request[r].id
        /\ record.turn = request[r].turn
    <3> DEFINE more == request[r].tries + 1
    <3> HIDE DEF more
    <3>1. [request[r] EXCEPT !.tries = more] \in Request
      BY <1>1, <2>1 DEF Request, more
    <3>2. QED
      BY <1>1, <3>1 DEF Request, more
  <2>3. Become(r, record)
    BY <1>11 DEF Retry
  <2> HIDE DEF record
  <2>4. RequestsOK'
    BY <1>2, <2>2, <2>3, ContinuesTyped
  <2>5. QED
    BY <1>4, <1>5, <1>6, <1>11, <2>4 DEF Retry
<1>12. CASE FallBack(r)
  <2> DEFINE record == [request[r] EXCEPT !.provider = "mock"]
  <2>1. "mock" \in Providers
    BY DEF Providers
  <2>2. record \in Request /\ record.key = request[r].key /\ record.id = request[r].id
        /\ record.turn = request[r].turn
    BY <1>1, <2>1 DEF Request
  <2>3. Become(r, record) \/ Leaves(r)
    BY <1>12 DEF FallBack
  <2> HIDE DEF record
  <2>4. RequestsOK'
    BY <1>2, <2>2, <2>3, ContinuesTyped, LeavesTyped
  <2>5. QED
    BY <1>4, <1>5, <1>6, <1>12, <2>4 DEF FallBack
<1>13. CASE OpenStream(r)
  <2> DEFINE record == [request[r] EXCEPT !.at = "stream", !.provider = "mock"]
  <2>1. "mock" \in Providers /\ "stream" \in Steps /\ "check" \in ProducerSteps
    BY DEF Providers, Steps, ProducerSteps
  <2>2. record \in Request /\ record.key = request[r].key /\ record.id = request[r].id
        /\ record.turn = request[r].turn
    BY <1>1, <2>1 DEF Request
  <2>3. Become(r, record)
    BY <1>13 DEF OpenStream
  <2> HIDE DEF record
  <2>4. RequestsOK'
    BY <1>2, <2>2, <2>3, ContinuesTyped
  <2>5. PICK n \in Words : producer' = [producer EXCEPT ![r] =
          [NoStream EXCEPT !.at = "check", !.provider = request[r].provider, !.left = n]]
    BY <1>13, LongestIs DEF OpenStream
  <2>6. [NoStream EXCEPT !.at = "check", !.provider = request[r].provider, !.left = n]
          \in Producer
    <3>1. request[r].provider \in Providers
      BY <1>1 DEF Request
    <3>2. QED
      BY <2>1, <3>1, NoStreamTyped DEF Producer
  <2>7. ProducersOK'
    BY <2>5, <2>6 DEF ProducersOK
  <2>8. QED
    BY <1>4, <1>5, <1>13, <2>4, <2>7 DEF OpenStream
<1>14. CASE Read(r)
  <2>1. ProducersOK'
    <3>1. producer[r].chan # <<>> /\ producer' = [producer EXCEPT ![r].chan = Tail(@)]
      BY <1>14 DEF Read
    <3>2. Tail(producer[r].chan) \in Seq(Chunks)
      BY <1>1, <3>1 DEF Producer
    <3>3. [producer[r] EXCEPT !.chan = Tail(producer[r].chan)] \in Producer
      BY <1>1, <3>2 DEF Producer
    <3>4. QED
      BY <3>1, <3>3 DEF ProducersOK
  <2>2. ASSUME ~Leaves(r) PROVE RequestsOK'
    <3> DEFINE chunk == Head(producer[r].chan)
               got == IF chunk = "word" THEN request[r].got + 1 ELSE request[r].got
               end == IF chunk = "word" THEN request[r].end ELSE chunk
               record == [request[r] EXCEPT !.got = got, !.end = end]
    <3>1. Become(r, record) /\ producer[r].chan # <<>> /\ chunk # "error"
      BY <1>14, <2>2 DEF Read
    <3>2. chunk \in Chunks
      BY <1>1, <3>1 DEF Producer
    <3>3. end \in Ends
      BY <1>1, <3>1, <3>2 DEF Chunks, Ends, Request
    <3>4. got \in Words
      <4>1. request[r].got \in Words /\ At(r, "stream")
        BY <1>1, <1>14 DEF Request, Read
      <4>2. QED
        BY <3>1, <4>1, WordsBounded
    <3> HIDE DEF got, end
    <3>5. record \in Request /\ record.key = request[r].key /\ record.id = request[r].id
          /\ record.turn = request[r].turn
      BY <1>1, <3>3, <3>4 DEF Request
    <3> HIDE DEF record
    <3>6. QED
      BY <1>2, <3>1, <3>5, ContinuesTyped
  <2>3. RequestsOK'
    BY <2>2, LeavesTyped
  <2>4. QED
    BY <1>4, <1>5, <1>14, <2>1, <2>3 DEF Read
<1>15. CASE StreamDone(r)
  <2>1. PICK end \in Ends : Complete(r, request[r].got, end)
    BY <1>15 DEF StreamDone, Ends
  <2>2. request[r].got \in Words
    BY <1>1 DEF Request
  <2>3. RequestsOK' /\ completed' \subseteq Events
    BY <1>2, <2>1, <2>2, CompleteTyped
  <2>4. delivered' \in [SessionIds -> SUBSET Turns]
    BY <1>3, <1>15 DEF StreamDone, UsageOK
  <2>5. UsageOK'
    BY <1>15, <2>3, <2>4 DEF StreamDone, UsageOK
  <2>6. ProducersOK'
    BY <1>15, NoStreamTyped DEF StreamDone, ProducersOK
  <2>7. QED
    BY <1>5, <1>15, <2>3, <2>5, <2>6 DEF StreamDone
<1>16. CASE Keep(r)
  <2>1. CASE Exists(request[r].id)
    <3>1. /\ AddMessages(request[r].id, <<Message(r, "user"), Message(r, "assistant")>>)
          /\ Goes(r, "usage") /\ delivered' = delivered
      BY <1>16, <2>1 DEF Keep
    <3>2. <<Message(r, "user"), Message(r, "assistant")>> \in Seq(Entry)
      BY <1>2, MessageTyped
    <3>3. SessionsOK'
      BY <1>3, <3>1, <3>2, AddTyped
    <3>4. RequestsOK'
      BY <1>2, <3>1, GoesTyped DEF Steps
    <3>5. QED
      BY <1>4, <1>6, <1>16, <3>1, <3>3, <3>4 DEF Keep
  <2>2. CASE ~Exists(request[r].id)
    <3>1. /\ request' = [q \in Requests |->
               [request[q] EXCEPT !.at = IF q = r THEN "usage" ELSE @,
                                  !.told = @ \ {request[r].turn}]]
          /\ delivered' = [delivered EXCEPT ![request[r].id] = @ \ {request[r].turn}]
          /\ UNCHANGED <<sessions, index, producer, pending, billed, collided, completed,
                         turns>>
      BY <1>16, <2>2 DEF Keep, AddMessages
    <3>2. ASSUME NEW q \in Requests
          PROVE  /\ request'[q] \in Request
                 /\ request'[q].at # "idle" => request[q].at # "idle"
                 /\ request'[q].key = request[q].key /\ request'[q].id = request[q].id
                 /\ request'[q].turn = request[q].turn
      <4> DEFINE step == IF q = r THEN "usage" ELSE request[q].at
                 told == request[q].told \ {request[r].turn}
      <4>1. request[q] \in Request
        BY DEF RequestsOK
      <4>2. step \in Steps /\ told \in SUBSET Turns /\ (step # "idle" => request[q].at # "idle")
        BY <1>2, <4>1 DEF Request, Steps, At
      <4>3. request'[q] = [request[q] EXCEPT !.at = step, !.told = told]
        BY <3>1
      <4> HIDE DEF step, told
      <4>4. QED
        BY <4>1, <4>2, <4>3 DEF Request
    <3>3. request' \in [Requests -> Request]
      BY <3>1, <3>2
    <3>4. RequestsOK'
      BY <3>2, <3>3 DEF RequestsOK, At
    <3>5. delivered' \in [SessionIds -> SUBSET Turns]
      BY <1>3, <3>1 DEF UsageOK
    <3>6. UsageOK'
      BY <3>1, <3>5 DEF UsageOK
    <3>7. QED
      BY <1>5, <1>6, <3>1, <3>4, <3>6
  <2>3. QED
    BY <2>1, <2>2
<1>17. CASE RecordUsage(r)
  <2>1. RequestsOK'
    BY <1>17, LeavesTyped DEF RecordUsage
  <2>2. pending' \subseteq Events
    BY <1>2, <1>17, UsageTyped DEF RecordUsage, UsageOK
  <2>3. delivered' \in [SessionIds -> SUBSET Turns]
    BY <1>3, <1>17 DEF RecordUsage, UsageOK
  <2>4. UsageOK'
    BY <1>17, <2>2, <2>3 DEF RecordUsage, UsageOK
  <2>5. QED
    BY <1>5, <1>6, <1>17, <2>1, <2>4 DEF RecordUsage
<1>18. QED
  BY <1>7, <1>8, <1>9, <1>10, <1>11, <1>12, <1>13, <1>14, <1>15, <1>16, <1>17 DEF Answer


(* What a step of the provider's goroutine does: it ends, goes on, sends a *)
(* word, or sends the end and ends.                                        *)
LEMMA ProduceIs ==
    ASSUME Types, NEW r \in Requests, Produce(r)
    PROVE  /\ UNCHANGED <<sessions, index, request, pending, billed, collided, completed,
                          delivered, turns>>
           /\ producer'[r] \in Producer
           /\ producer' = [producer EXCEPT ![r] = producer'[r]]
           /\ producer[r].at # "closed"
           /\ \/ /\ producer'[r].chan = producer[r].chan
                 /\ producer'[r].left = producer[r].left
                 /\ producer'[r].at = "closed" => Cancelled(r) \/ producer'[r].cut
              \/ /\ producer[r].left > 0 /\ producer'[r].left = producer[r].left - 1
                 /\ Len(producer[r].chan) < Buffer
                 /\ producer'[r].chan = Append(producer[r].chan, "word")
                 /\ producer'[r].at # "closed"
              \/ /\ producer'[r].at = "closed" /\ producer'[r].left = producer[r].left
                 /\ Len(producer[r].chan) < Buffer
                 /\ \E end \in {"finish", "error"} :
                       producer'[r].chan = Append(producer[r].chan, end)
<1> USE DEF sessionVars, usageVars, historyVars
<1> DEFINE p == producer[r]
<1>1. p \in Producer /\ producer \in [Requests -> Producer]
  BY DEF Types, ProducersOK
<1>2. /\ {"check", "send", "fail", "closed"} \subseteq ProducerSteps
      /\ \A step \in {"check", "send", "fail", "closed"} : step \in ProducerSteps
  BY DEF ProducerSteps
<1>3. ASSUME NEW record, ProducerMoves(r, record)
      PROVE  /\ UNCHANGED <<sessions, index, request, pending, billed, collided, completed,
                            delivered, turns>>
             /\ producer'[r] = record
             /\ producer' = [producer EXCEPT ![r] = producer'[r]]
  BY <1>1, <1>3 DEF ProducerMoves
<1>4. CASE ProducerChecks(r)
  <2> DEFINE step == IF Checks(r) /\ Cancelled(r) THEN "closed" ELSE "send"
             record == [p EXCEPT !.at = step]
  <2>1. p.at = "check" /\ ProducerMoves(r, record)
    BY <1>4 DEF ProducerChecks
  <2>2. step \in ProducerSteps /\ (step = "closed" => Cancelled(r))
    BY <1>2
  <2> HIDE DEF step
  <2>3. record \in Producer /\ record.at = step /\ record.chan = p.chan /\ record.left = p.left
    BY <1>1, <2>2 DEF Producer
  <2> HIDE DEF record
  <2>4. QED
    BY <1>3, <2>1, <2>2, <2>3
<1>5. CASE ProducerSends(r)
  <2>1. p.at = "send" /\ Len(p.chan) < Buffer
    BY <1>5 DEF ProducerSends
  <2>2. CASE p.left > 0
    <3> DEFINE steps == {"check"} \cup
                 (IF p.provider = "openai" /\ p.left = 1 THEN {"send"} ELSE {})
               Sent(step) ==
                 ProducerMoves(r, [p EXCEPT !.at = step, !.left = @ - 1, !.chan = Append(@, "word")])
    <3>0. \E step \in steps : Sent(step)
      <4>1. p.left # 0
        BY <2>2
      <4>2. QED
        BY <1>5, <4>1, Zenon DEF ProducerSends
    <3>1. PICK step \in {"check", "send"} : Sent(step)
      <4>1. steps \subseteq {"check", "send"}
        OBVIOUS
      <4> HIDE DEF steps, Sent
      <4>2. QED
        BY <3>0, <4>1
    <3> DEFINE left == p.left - 1
               chan == Append(p.chan, "word")
               record == [p EXCEPT !.at = step, !.left = left, !.chan = chan]
    <3>2. ProducerMoves(r, record)
      BY <3>1
    <3>3. left \in Words
      BY <1>1, <2>2, LongestIs DEF Producer, Words
    <3>4. chan \in Seq(Chunks)
      BY <1>1 DEF Producer, Chunks
    <3>5. step \in ProducerSteps /\ step # "closed"
      BY <1>2
    <3>6. p.left > 0 /\ left = p.left - 1 /\ chan = Append(p.chan, "word")
      BY <2>2
    <3> HIDE DEF left, chan
    <3>7. record \in Producer /\ record.at = step /\ record.chan = chan /\ record.left = left
      BY <1>1, <3>3, <3>4, <3>5 DEF Producer
    <3> HIDE DEF record
    <3>8. QED
      BY <1>3, <2>1, <3>2, <3>5, <3>6, <3>7
  <2>3. CASE ~ (p.left > 0)
    <3> DEFINE chan == Append(p.chan, "finish")
               record == [p EXCEPT !.at = "closed", !.chan = chan]
    <3>1. ProducerMoves(r, record)
      BY <1>5, <2>3 DEF ProducerSends
    <3>2. chan \in Seq(Chunks) /\ chan = Append(p.chan, "finish")
      BY <1>1 DEF Producer, Chunks
    <3> HIDE DEF chan
    <3>3. record \in Producer /\ record.at = "closed" /\ record.chan = chan
          /\ record.left = p.left
      BY <1>1, <1>2, <3>2 DEF Producer
    <3> HIDE DEF record
    <3>4. QED
      BY <1>3, <2>1, <3>1, <3>2, <3>3
  <2>4. QED
    BY <2>2, <2>3
<1>6. CASE UpstreamFails(r)
  <2> DEFINE record == [p EXCEPT !.at = "fail"]
  <2>1. p.at = "check" /\ ProducerMoves(r, record)
    BY <1>6 DEF UpstreamFails
  <2>2. record \in Producer /\ record.at = "fail" /\ record.chan = p.chan
        /\ record.left = p.left
    BY <1>1, <1>2 DEF Producer
  <2> HIDE DEF record
  <2>3. QED
    BY <1>3, <2>1, <2>2
<1>7. CASE SendsError(r)
  <2> DEFINE chan == Append(p.chan, "error")
             record == [p EXCEPT !.at = "closed", !.chan = chan]
  <2>1. p.at = "fail" /\ Len(p.chan) < Buffer /\ ProducerMoves(r, record)
    BY <1>7 DEF SendsError
  <2>2. chan \in Seq(Chunks) /\ chan = Append(p.chan, "error")
    BY <1>1 DEF Producer, Chunks
  <2> HIDE DEF chan
  <2>3. record \in Producer /\ record.at = "closed" /\ record.chan = chan
        /\ record.left = p.left
    BY <1>1, <1>2, <2>2 DEF Producer
  <2> HIDE DEF record
  <2>4. QED
    BY <1>3, <2>1, <2>2, <2>3
<1>8. CASE UpstreamEnds(r)
  <2> DEFINE record == [p EXCEPT !.at = "closed", !.cut = TRUE]
  <2>1. p.at = "check" /\ ProducerMoves(r, record)
    BY <1>8 DEF UpstreamEnds
  <2>2. record \in Producer /\ record.at = "closed" /\ record.chan = p.chan
        /\ record.left = p.left /\ record.cut
    BY <1>1, <1>2 DEF Producer
  <2> HIDE DEF record
  <2>3. QED
    BY <1>3, <2>1, <2>2
<1>9. QED
  BY <1>4, <1>5, <1>6, <1>7, <1>8 DEF Produce

LEMMA PostIs ==
    ASSUME Types, NEW r \in Requests, Post(r)
    PROVE  /\ turns < MaxTurns /\ turns' = turns + 1 /\ turns' \in Turns
           /\ UNCHANGED <<sessions, index, producer, pending, billed, collided, completed,
                          delivered>>
           /\ At(r, "idle") /\ producer[r].at = "closed"
           /\ request' = [request EXCEPT ![r] = request'[r]]
           /\ request'[r] \in Request
           /\ request'[r].at = "policies" /\ request'[r].key \in Keys
           /\ request'[r].id \in SessionIds /\ request'[r].turn = turns'
           /\ request'[r].told = delivered[request'[r].id]
           /\ request'[r].missed = {} /\ request'[r].got = 0
<1> USE DEF Types, sessionVars, usageVars
<1>1. PICK key \in Keys, id \in SessionIds :
        Become(r, [Idle EXCEPT !.at = "policies", !.key = key, !.id = id,
                               !.turn = turns + 1, !.told = delivered[id]])
  BY DEF Post
<1>2. turns < MaxTurns /\ turns' = turns + 1 /\ turns' \in Turns /\ turns' \in TurnOr0
  BY DEF Post, UsageOK, Turns, TurnOr0
<1>3. delivered[id] \in SUBSET Turns
  BY DEF UsageOK
<1> DEFINE turn == turns + 1
           told == delivered[id]
           record == [Idle EXCEPT !.at = "policies", !.key = key, !.id = id,
                                  !.turn = turn, !.told = told]
<1>4. Become(r, record) /\ turn = turns' /\ told = delivered[id]
  BY <1>1, <1>2
<1>5. "policies" \in Steps /\ key \in KeyOrNone /\ id \in IdOrNone /\ turn \in TurnOr0
      /\ told \in SUBSET Turns
  BY <1>2, <1>3 DEF Steps, KeyOrNone, IdOrNone
<1> HIDE DEF turn, told
<1>6. record \in Request
  BY <1>5, IdleTyped DEF Request
<1>7. record.at = "policies" /\ record.key = key /\ record.id = id /\ record.turn = turn
      /\ record.told = told /\ record.missed = {} /\ record.got = 0
  BY DEF Idle
<1> HIDE DEF record
<1>8. /\ request'[r] = record
      /\ request' = [request EXCEPT ![r] = request'[r]]
  BY <1>4 DEF RequestsOK, Become
<1>9. QED
  BY <1>2, <1>4, <1>6, <1>7, <1>8 DEF Post

LEMMA NextTypes == Types /\ StreamsOK /\ [Next]_vars => Types'
<1> SUFFICES ASSUME Types, StreamsOK, [Next]_vars PROVE Types'
  OBVIOUS
<1> USE DEF sessionVars, usageVars, historyVars
<1>1. request \in [Requests -> Request] /\ producer \in [Requests -> Producer]
  BY DEF Types, RequestsOK, ProducersOK
<1>2. ASSUME NEW r \in Requests, Post(r) PROVE Types'
  <2>1. SessionsOK' /\ ProducersOK'
    BY <1>2, PostIs DEF Types, SessionsOK, ProducersOK
  <2>2. RequestsOK'
    <3>1. request' \in [Requests -> Request]
      BY <1>1, <1>2, PostIs
    <3>2. \A q \in Requests \ {r} : request'[q] = request[q]
      BY <1>1, <1>2, PostIs
    <3>3. request'[r].key \in Keys /\ request'[r].id \in SessionIds /\ request'[r].turn \in Turns
      BY <1>2, PostIs
    <3>4. QED
      BY <3>1, <3>2, <3>3 DEF Types, RequestsOK, At
  <2>3. UsageOK'
    BY <1>2, PostIs DEF Types, UsageOK, Turns
  <2>4. QED
    BY <2>1, <2>2, <2>3 DEF Types
<1>3. ASSUME NEW r \in Requests, Answer(r) PROVE Types'
  BY <1>3, AnswerTypes
<1>4. ASSUME NEW r \in Requests, Produce(r) PROVE Types'
  <2>1. ProducersOK'
    BY <1>1, <1>4, ProduceIs DEF ProducersOK
  <2>2. QED
    BY <1>4, <2>1, ProduceIs DEF Types, SessionsOK, RequestsOK, At, UsageOK
<1>5. ASSUME NEW r \in Requests, ClientLeaves(r) PROVE Types'
  <2> DEFINE record == [request[r] EXCEPT !.gone = TRUE]
  <2>1. Become(r, record) /\ ~At(r, "idle")
        /\ UNCHANGED <<sessions, index, producer, pending, billed, collided, completed,
                       delivered, turns>>
    BY <1>5 DEF ClientLeaves, At
  <2>2. record \in Request /\ record.key = request[r].key /\ record.id = request[r].id
        /\ record.turn = request[r].turn
    BY <1>1 DEF Request
  <2> HIDE DEF record
  <2>3. RequestsOK'
    BY <2>1, <2>2, ContinuesTyped DEF Types
  <2>4. QED
    BY <2>1, <2>3 DEF Types, SessionsOK, ProducersOK, UsageOK
<1>6. ASSUME NEW e \in pending, Bill(e) PROVE Types'
  <2>1. UsageOK'
    BY <1>6 DEF Bill, Types, UsageOK
  <2>2. QED
    BY <1>6, <2>1 DEF Bill, Types, SessionsOK, RequestsOK, ProducersOK, At
<1>7. ASSUME NEW id \in SessionIds, Delete(id) PROVE Types'
  <2>1. SessionsOK'
    BY <1>7, DeleteTyped DEF Delete, Types
  <2>2. ASSUME NEW q \in Requests
        PROVE  /\ request'[q] \in Request /\ request'[q].at = request[q].at
               /\ request'[q].key = request[q].key /\ request'[q].id = request[q].id
               /\ request'[q].turn = request[q].turn
    <3> DEFINE told == IF request[q].id = id THEN {} ELSE request[q].told
    <3>1. request'[q] = [request[q] EXCEPT !.told = told] /\ request[q] \in Request
      BY <1>1, <1>7 DEF Delete
    <3>2. told \in SUBSET Turns
      BY <3>1 DEF Request
    <3> HIDE DEF told
    <3>3. QED
      BY <3>1, <3>2 DEF Request
  <2>3. request' \in [Requests -> Request]
    BY <1>7, <2>2 DEF Delete
  <2>4. RequestsOK'
    BY <2>2, <2>3 DEF Types, RequestsOK, At
  <2>5. UsageOK'
    BY <1>7 DEF Delete, Types, UsageOK
  <2>6. ProducersOK'
    BY <1>7 DEF Delete, Types, ProducersOK
  <2>7. QED
    BY <2>1, <2>4, <2>5, <2>6 DEF Types
<1>8. CASE UNCHANGED vars
  BY <1>8 DEF vars, Types, SessionsOK, RequestsOK, ProducersOK, UsageOK, At
<1>9. QED
  BY <1>2, <1>3, <1>4, <1>5, <1>6, <1>7, <1>8 DEF Next

-----------------------------------------------------------------------------
(* What the steps of a handler do to the requests *)

\* Nothing but what the client of a request had been told changes.
Same(q) ==
    /\ request'[q].at = request[q].at /\ request'[q].key = request[q].key
    /\ request'[q].id = request[q].id /\ request'[q].turn = request[q].turn
    /\ request'[q].got = request[q].got /\ request'[q].end = request[q].end
    /\ request'[q].gone = request[q].gone /\ request'[q].missed = request[q].missed

\* A request goes on to a step.
Stays(r, step) ==
    /\ request'[r].at = step /\ request'[r].key = request[r].key
    /\ request'[r].id = request[r].id /\ request'[r].turn = request[r].turn

LEMMA IdleIs ==
    /\ Idle.at = "idle" /\ Idle.missed = {} /\ Idle.told = {} /\ Idle.got = 0
    /\ Idle.end = "none"
BY DEF Idle

LEMMA OthersStay ==
    ASSUME Types, NEW r \in Requests, Answer(r)
    PROVE  /\ \A q \in Requests \ {r} : Same(q)
           /\ \A q \in Requests \ {r} :
                IF Keep(r) /\ ~Exists(request[r].id)
                  THEN request'[q].told = request[q].told \ {request[r].turn}
                  ELSE request'[q] = request[q]
<1>1. RequestsOK /\ request \in [Requests -> Request]
  BY DEF Types, RequestsOK
<1>2. ASSUME \A q \in Requests \ {r} : request'[q] = request[q], ~Keep(r) \/ Exists(request[r].id)
      PROVE  /\ \A q \in Requests \ {r} : Same(q)
             /\ \A q \in Requests \ {r} :
                  IF Keep(r) /\ ~Exists(request[r].id)
                    THEN request'[q].told = request[q].told \ {request[r].turn}
                    ELSE request'[q] = request[q]
  BY <1>2 DEF Same
<1>3. ASSUME NEW record, Become(r, record)
      PROVE  \A q \in Requests \ {r} : request'[q] = request[q]
  BY <1>1, <1>3, BecomeIs
<1>4. ASSUME Leaves(r) PROVE \A q \in Requests \ {r} : request'[q] = request[q]
  BY <1>3, <1>4 DEF Leaves
<1>5. ASSUME NEW step, Goes(r, step) PROVE \A q \in Requests \ {r} : request'[q] = request[q]
  BY <1>3, <1>5 DEF Goes
<1>6. ASSUME NEW n, NEW end, Complete(r, n, end)
      PROVE  \A q \in Requests \ {r} : request'[q] = request[q]
  BY <1>3, <1>6 DEF Complete
<1>7. CASE CheckPolicies(r) \/ GetSession(r) \/ RecordUsage(r)
  BY <1>2, <1>4, <1>5, <1>7 DEF CheckPolicies, GetSession, RecordUsage, Keep, At
<1>8. CASE Build(r) \/ Retry(r)
  BY <1>2, <1>3, <1>8 DEF Build, Retry, Keep, At
<1>9. CASE Generated(r) \/ StreamDone(r)
  BY <1>2, <1>6, <1>9 DEF Generated, StreamDone, Keep, At
<1>10. CASE FallBack(r) \/ OpenStream(r) \/ Read(r)
  BY <1>2, <1>3, <1>4, <1>10 DEF FallBack, OpenStream, Read, Keep, At
<1>11. CASE Keep(r)
  <2>1. CASE Exists(request[r].id)
    BY <1>2, <1>5, <1>11, <2>1 DEF Keep
  <2>2. CASE ~Exists(request[r].id)
    <3>1. request' = [q \in Requests |->
               [request[q] EXCEPT !.at = IF q = r THEN "usage" ELSE @,
                                  !.told = @ \ {request[r].turn}]]
      BY <1>11, <2>2 DEF Keep, AddMessages
    <3>2. ASSUME NEW q \in Requests \ {r}
          PROVE  Same(q) /\ request'[q].told = request[q].told \ {request[r].turn}
      <4> DEFINE told == request[q].told \ {request[r].turn}
      <4>1. request'[q] = [request[q] EXCEPT !.told = told] /\ request[q] \in Request
        BY <1>1, <3>1 DEF Request
      <4> HIDE DEF told
      <4>2. QED
        BY <4>1 DEF Same, Request, told
    <3>3. QED
      BY <1>11, <2>2, <3>2
  <2>3. QED
    BY <2>1, <2>2
<1>12. QED
  BY <1>7, <1>8, <1>9, <1>10, <1>11 DEF Answer

LEMMA AnswerIs ==
    ASSUME Types, NEW r \in Requests, Answer(r)
    PROVE  /\ CheckPolicies(r) =>
                \/ request'[r] = Idle
                \/ /\ Stays(r, "session") /\ request'[r].got = request[r].got
                   /\ request'[r].told = request[r].told
                   /\ request'[r].missed = request[r].missed
           /\ GetSession(r) =>
                /\ Stays(r, "build") /\ request'[r].got = request[r].got
                /\ request'[r].told = request[r].told
                /\ request'[r].missed = request[r].missed
           /\ Build(r) =>
                /\ Stays(r, "open") \/ Stays(r, "generate")
                /\ request'[r].got = request[r].got
                /\ request'[r].missed =
                      (request[r].told \ TurnsOf(request[r].id)) \ Keeping
           /\ Generated(r) =>
                /\ Stays(r, "keep") /\ request'[r].end = "finish"
                /\ request'[r].missed = request[r].missed
                /\ completed' = completed \cup
                     {[turn |-> request[r].turn, tokens |-> request'[r].got]}
           /\ Retry(r) =>
                /\ Stays(r, "generate") /\ request'[r].got = request[r].got
                /\ request'[r].missed = request[r].missed
           /\ FallBack(r) =>
                \/ request'[r] = Idle
                \/ /\ Stays(r, request[r].at) /\ request'[r].got = request[r].got
                   /\ request'[r].missed = request[r].missed
           /\ OpenStream(r) =>
                /\ Stays(r, "stream") /\ request'[r].got = request[r].got
                /\ request'[r].gone = request[r].gone
                /\ request'[r].missed = request[r].missed
           /\ Read(r) =>
                \/ request'[r] = Idle
                \/ /\ Stays(r, "stream") /\ ~request[r].gone
                   /\ request'[r].gone = request[r].gone
                   /\ request'[r].missed = request[r].missed
                   /\ \/ /\ Head(producer[r].chan) = "word"
                         /\ request'[r].got = request[r].got + 1
                         /\ request'[r].end = request[r].end
                      \/ /\ Head(producer[r].chan) = "finish"
                         /\ request'[r].got = request[r].got
                         /\ request'[r].end = "finish"
           /\ StreamDone(r) =>
                /\ Stays(r, "keep") /\ request'[r].got = request[r].got
                /\ request'[r].missed = request[r].missed
                /\ request'[r].end = (IF request[r].end = "finish" THEN "finish"
                                      ELSE IF producer[r].cut THEN "cut"
                                      ELSE IF request[r].gone THEN "left" ELSE "error")
                /\ completed' = completed \cup
                     {[turn |-> request[r].turn, tokens |-> request'[r].got]}
           /\ Keep(r) =>
                /\ Stays(r, "usage") /\ request'[r].got = request[r].got
                /\ request'[r].missed = request[r].missed
           /\ RecordUsage(r) => request'[r] = Idle
<1>1. RequestsOK /\ request \in [Requests -> Request] /\ request[r] \in Request
  BY DEF Types, RequestsOK
<1>2. ASSUME NEW step, Goes(r, step)
      PROVE  /\ Stays(r, step) /\ request'[r].got = request[r].got
             /\ request'[r].told = request[r].told /\ request'[r].missed = request[r].missed
  <2>1. request'[r] = [request[r] EXCEPT !.at = step]
    BY <1>1, <1>2, BecomeIs DEF Goes
  <2>2. QED
    BY <1>1, <2>1 DEF Stays, Request
<1>3. Leaves(r) => request'[r] = Idle
  BY <1>1, BecomeIs DEF Leaves
<1>4. ASSUME NEW n, NEW end, Complete(r, n, end)
      PROVE  /\ Stays(r, "keep") /\ request'[r].got = n /\ request'[r].end = end
             /\ request'[r].missed = request[r].missed
             /\ completed' = completed \cup
                  {[turn |-> request[r].turn, tokens |-> request'[r].got]}
  <2>1. request'[r] = [request[r] EXCEPT !.at = "keep", !.got = n, !.end = end,
                           !.provider = "mock", !.tries = 0, !.gone = FALSE]
    BY <1>1, <1>4, BecomeIs DEF Complete
  <2>2. /\ Stays(r, "keep") /\ request'[r].got = n /\ request'[r].end = end
        /\ request'[r].missed = request[r].missed
    BY <1>1, <2>1 DEF Stays, Request
  <2>3. QED
    BY <1>4, <2>2 DEF Complete
<1>5. ASSUME CheckPolicies(r)
      PROVE  \/ request'[r] = Idle
             \/ /\ Stays(r, "session") /\ request'[r].got = request[r].got
                /\ request'[r].told = request[r].told
                /\ request'[r].missed = request[r].missed
  BY <1>2, <1>3, <1>5 DEF CheckPolicies
<1>6. ASSUME GetSession(r)
      PROVE  /\ Stays(r, "build") /\ request'[r].got = request[r].got
             /\ request'[r].told = request[r].told
             /\ request'[r].missed = request[r].missed
  BY <1>2, <1>6 DEF GetSession
<1>7. ASSUME Build(r)
      PROVE  /\ Stays(r, "open") \/ Stays(r, "generate")
             /\ request'[r].got = request[r].got
             /\ request'[r].missed = (request[r].told \ TurnsOf(request[r].id)) \ Keeping
  <2> DEFINE missed == (request[r].told \ TurnsOf(request[r].id)) \ Keeping
  <2>1. PICK step \in {"open", "generate"}, p \in {"mock", "openai"} :
          Become(r, [request[r] EXCEPT !.at = step, !.provider = p, !.told = {},
                                       !.missed = missed])
    BY <1>7 DEF Build
  <2>2. request'[r] = [request[r] EXCEPT !.at = step, !.provider = p, !.told = {},
                                       !.missed = missed]
    BY <1>1, <2>1, BecomeIs
  <2> HIDE DEF missed
  <2>3. Stays(r, step) /\ request'[r].got = request[r].got /\ request'[r].missed = missed
    BY <1>1, <2>2 DEF Stays, Request
  <2>4. QED
    BY <2>3 DEF missed
<1>8. ASSUME Generated(r)
      PROVE  /\ Stays(r, "keep") /\ request'[r].end = "finish"
             /\ request'[r].missed = request[r].missed
             /\ completed' = completed \cup
                  {[turn |-> request[r].turn, tokens |-> request'[r].got]}
  BY <1>4, <1>8 DEF Generated
<1>9. ASSUME Retry(r)
      PROVE  /\ Stays(r, "generate") /\ request'[r].got = request[r].got
             /\ request'[r].missed = request[r].missed
  <2>1. request'[r] = [request[r] EXCEPT !.tries = @ + 1] /\ request[r].at = "generate"
    BY <1>1, <1>9, BecomeIs DEF Retry, At
  <2>2. QED
    BY <1>1, <2>1 DEF Stays, Request
<1>10. ASSUME FallBack(r)
       PROVE  \/ request'[r] = Idle
              \/ /\ Stays(r, request[r].at) /\ request'[r].got = request[r].got
                 /\ request'[r].missed = request[r].missed
  <2>1. Leaves(r) \/ Become(r, [request[r] EXCEPT !.provider = "mock"])
    BY <1>10 DEF FallBack
  <2>2. CASE Become(r, [request[r] EXCEPT !.provider = "mock"])
    <3>1. request'[r] = [request[r] EXCEPT !.provider = "mock"]
      BY <1>1, <2>2, BecomeIs
    <3>2. QED
      BY <1>1, <3>1 DEF Stays, Request
  <2>3. QED
    BY <1>3, <2>1, <2>2
<1>11. ASSUME OpenStream(r)
       PROVE  /\ Stays(r, "stream") /\ request'[r].got = request[r].got
              /\ request'[r].gone = request[r].gone
              /\ request'[r].missed = request[r].missed
  <2>1. request'[r] = [request[r] EXCEPT !.at = "stream", !.provider = "mock"]
    BY <1>1, <1>11, BecomeIs DEF OpenStream
  <2>2. QED
    BY <1>1, <2>1 DEF Stays, Request
<1>12. ASSUME Read(r)
       PROVE  \/ request'[r] = Idle
              \/ /\ Stays(r, "stream") /\ ~request[r].gone
                 /\ request'[r].gone = request[r].gone
                 /\ request'[r].missed = request[r].missed
                 /\ \/ /\ Head(producer[r].chan) = "word"
                       /\ request'[r].got = request[r].got + 1
                       /\ request'[r].end = request[r].end
                    \/ /\ Head(producer[r].chan) = "finish"
                       /\ request'[r].got = request[r].got
                       /\ request'[r].end = "finish"
  <2> DEFINE chunk == Head(producer[r].chan)
             got == IF chunk = "word" THEN request[r].got + 1 ELSE request[r].got
             end == IF chunk = "word" THEN request[r].end ELSE chunk
  <2>1. chunk \in Chunks /\ request[r].at = "stream"
    <3>1. producer[r].chan \in Seq(Chunks) /\ producer[r].chan # <<>>
      BY <1>12 DEF Read, Types, ProducersOK, Producer
    <3>2. QED
      BY <1>12, <3>1 DEF Read, At
  <2>2. \/ Leaves(r)
        \/ /\ ~request[r].gone /\ chunk # "error"
           /\ Become(r, [request[r] EXCEPT !.got = got, !.end = end])
    BY <1>12 DEF Read
  <2>3. \/ chunk = "word" /\ got = request[r].got + 1 /\ end = request[r].end
        \/ chunk = "error"
        \/ chunk = "finish" /\ got = request[r].got /\ end = "finish"
    BY <2>1 DEF Chunks
  <2> HIDE DEF got, end
  <2>4. CASE ~Leaves(r)
    <3>1. request'[r] = [request[r] EXCEPT !.got = got, !.end = end]
      BY <1>1, <2>2, <2>4, BecomeIs
    <3>2. /\ Stays(r, "stream") /\ request'[r].gone = request[r].gone
          /\ request'[r].missed = request[r].missed
          /\ request'[r].got = got /\ request'[r].end = end
      BY <1>1, <2>1, <3>1 DEF Stays, Request
    <3>3. QED
      BY <2>2, <2>3, <2>4, <3>2
  <2>5. QED
    BY <1>3, <2>4
<1>13. ASSUME StreamDone(r)
       PROVE  /\ Stays(r, "keep") /\ request'[r].got = request[r].got
              /\ request'[r].missed = request[r].missed
              /\ request'[r].end = (IF request[r].end = "finish" THEN "finish"
                                    ELSE IF producer[r].cut THEN "cut"
                                    ELSE IF request[r].gone THEN "left" ELSE "error")
              /\ completed' = completed \cup
                   {[turn |-> request[r].turn, tokens |-> request'[r].got]}
  BY <1>4, <1>13 DEF StreamDone
<1>14. ASSUME Keep(r)
       PROVE  /\ Stays(r, "usage") /\ request'[r].got = request[r].got
              /\ request'[r].missed = request[r].missed
  <2>1. CASE Exists(request[r].id)
    BY <1>2, <1>14, <2>1 DEF Keep
  <2>2. CASE ~Exists(request[r].id)
    <3> DEFINE told == request[r].told \ {request[r].turn}
    <3>1. request'[r] = [request[r] EXCEPT !.at = "usage", !.told = told]
      BY <1>14, <2>2 DEF Keep, AddMessages
    <3> HIDE DEF told
    <3>2. QED
      BY <1>1, <3>1 DEF Stays, Request
  <2>3. QED
    BY <2>1, <2>2
<1>15. RecordUsage(r) => request'[r] = Idle
  BY <1>3 DEF RecordUsage
<1>16. QED
  BY <1>5, <1>6, <1>7, <1>8, <1>9, <1>10, <1>11, <1>12, <1>13, <1>14, <1>15

LEMMA OtherStepsAre ==
    ASSUME Types
    PROVE  /\ \A r \in Requests : ClientLeaves(r) =>
                /\ \A q \in Requests : /\ q # r => Same(q)
                                       /\ Stays(q, request[q].at)
                                       /\ request'[q].got = request[q].got
                                       /\ request'[q].end = request[q].end
                                       /\ request'[q].missed = request[q].missed
                                       /\ request'[q].told = request[q].told
                /\ request'[r].gone
                /\ UNCHANGED <<sessions, index, producer, pending, billed, collided,
                               completed, delivered, turns>>
           /\ \A e \in pending : Bill(e) =>
                UNCHANGED <<sessions, index, request, producer, completed, delivered, turns>>
           /\ \A id \in SessionIds : Delete(id) =>
                /\ \A q \in Requests :
                     /\ Same(q)
                     /\ request'[q].told = IF request[q].id = id THEN {} ELSE request[q].told
                /\ UNCHANGED <<producer, pending, billed, collided, completed, turns>>
<1> USE DEF sessionVars, usageVars, historyVars
<1>1. RequestsOK /\ request \in [Requests -> Request]
  BY DEF Types, RequestsOK
<1>2. ASSUME NEW r \in Requests, ClientLeaves(r)
      PROVE  /\ \A q \in Requests : /\ q # r => Same(q)
                                    /\ Stays(q, request[q].at)
                                    /\ request'[q].got = request[q].got
                                    /\ request'[q].end = request[q].end
                                    /\ request'[q].missed = request[q].missed
                                    /\ request'[q].told = request[q].told
             /\ request'[r].gone
  <2>1. /\ request'[r] = [request[r] EXCEPT !.gone = TRUE]
        /\ \A q \in Requests \ {r} : request'[q] = request[q]
    BY <1>1, <1>2, BecomeIs DEF ClientLeaves
  <2>2. /\ Stays(r, request[r].at) /\ request'[r].gone
        /\ request'[r].got = request[r].got /\ request'[r].end = request[r].end
        /\ request'[r].missed = request[r].missed /\ request'[r].told = request[r].told
    BY <1>1, <2>1 DEF Stays, Request
  <2>3. ASSUME NEW q \in Requests \ {r}
        PROVE  Same(q) /\ Stays(q, request[q].at) /\ request'[q].told = request[q].told
    BY <2>1 DEF Same, Stays
  <2>4. QED
    BY <2>2, <2>3 DEF Same
<1>3. ASSUME NEW id \in SessionIds, Delete(id), NEW q \in Requests
      PROVE  /\ Same(q)
             /\ request'[q].told = IF request[q].id = id THEN {} ELSE request[q].told
  <2> DEFINE told == IF request[q].id = id THEN {} ELSE request[q].told
  <2>1. request'[q] = [request[q] EXCEPT !.told = told]
    BY <1>3 DEF Delete
  <2> HIDE DEF told
  <2>2. Same(q) /\ request'[q].told = told
    BY <1>1, <2>1 DEF Same, Request
  <2>3. QED
    BY <2>2 DEF told
<1>4. QED
  BY <1>2, <1>3 DEF ClientLeaves, Bill, Delete

-----------------------------------------------------------------------------
(* The channels of streams *)

LEMMA StreamSame ==
    ASSUME NEW r \in Requests, StreamOK(r), producer'[r] = producer[r],
           request'[r].at = request[r].at, request'[r].got = request[r].got
    PROVE  StreamOK(r)'
BY DEF StreamOK, At

\* A chunk more.
LEMMA AppendIs ==
    ASSUME NEW s \in Seq(Chunks), NEW c \in Chunks
    PROVE  LET longer == Append(s, c)
           IN  /\ Len(longer) = Len(s) + 1 /\ longer # <<>>
               /\ \A i \in 1 .. Len(s) : longer[i] = s[i]
               /\ longer[Len(longer)] = c
               /\ Ended(longer) <=> c # "word"
               /\ Queued(longer) = IF c = "word" THEN Len(s) + 1 ELSE Len(s)
<1> DEFINE longer == Append(s, c)
<1>1. /\ Len(s) \in Nat /\ Len(longer) = Len(s) + 1
      /\ \A i \in 1 .. Len(s) : longer[i] = s[i]
      /\ longer[Len(s) + 1] = c /\ longer \in Seq(Chunks)
  OBVIOUS
<1>2. longer # <<>>
  <2>1. Len(longer) # 0
    BY <1>1
  <2>2. QED
    BY <2>1, EmptySeq, <1>1
<1> HIDE DEF longer
<1>3. Ended(longer) <=> c # "word"
  BY <1>1, <1>2 DEF Ended
<1>4. Queued(longer) = IF c = "word" THEN Len(s) + 1 ELSE Len(s)
  BY <1>1, <1>2 DEF Queued
<1>5. QED
  BY <1>1, <1>2, <1>3, <1>4 DEF longer

LEMMA ProduceStreams ==
    ASSUME Types, NEW r \in Requests, StreamOK(r), Produce(r)
    PROVE  StreamOK(r)'
<1> DEFINE chan == producer[r].chan
           next == producer'[r].chan
<1>1. /\ producer[r] \in Producer /\ producer'[r] \in Producer
      /\ request' = request /\ producer[r].at # "closed"
  BY ProduceIs DEF Types, ProducersOK
<1>2. /\ chan \in Seq(Chunks) /\ next \in Seq(Chunks) /\ Len(chan) \in Nat
      /\ Len(chan) <= Buffer /\ Buffer \in Nat
  BY <1>1 DEF Producer, StreamOK
<1>3. ~Ended(chan) /\ Queued(chan) = Len(chan)
  BY <1>1 DEF StreamOK, Ended, Queued
<1>4. \A i \in 1 .. Len(chan) : chan[i] = "word"
  <2>1. chan = <<>> \/ chan[Len(chan)] = "word"
    BY <1>3 DEF Ended
  <2>2. chan = <<>> => Len(chan) = 0
    OBVIOUS
  <2>3. \A i \in 1 .. Len(chan) : i # Len(chan) => chan[i] = "word"
    BY DEF StreamOK
  <2> HIDE DEF chan
  <2>4. QED
    BY <1>2, <2>1, <2>2, <2>3
<1>5. request[r].at \in {"idle", "stream"}
  BY <1>1 DEF StreamOK
<1>6. /\ request[r].got \in Nat /\ producer[r].left \in Nat /\ Longest \in Nat
      /\ producer'[r].left \in Nat
  BY <1>1, LongestIs DEF Types, RequestsOK, Request, Producer, Words
<1>7. At(r, "stream") => request[r].got + producer[r].left + Len(chan) <= Longest
  BY <1>3 DEF StreamOK
<1>8. CASE next = chan /\ producer'[r].left = producer[r].left
  BY <1>1, <1>3, <1>5, <1>8 DEF StreamOK, At
<1>9. ASSUME NEW c \in Chunks, next = Append(chan, c), Len(chan) < Buffer,
             c # "word" => producer'[r].at = "closed",
             producer'[r].left = IF c = "word" THEN producer[r].left - 1 ELSE producer[r].left
      PROVE  StreamOK(r)'
  <2> HIDE DEF chan, next
  <2>1. /\ Len(next) = Len(chan) + 1
        /\ \A i \in 1 .. Len(chan) : next[i] = chan[i]
        /\ Ended(next) <=> c # "word"
        /\ Queued(next) = IF c = "word" THEN Len(chan) + 1 ELSE Len(chan)
    BY <1>2, <1>9, AppendIs
  <2>2. Len(next) <= Buffer
    BY <1>2, <1>9, <2>1
  <2>3. \A i \in 1 .. Len(next) : i # Len(next) => next[i] = "word"
    BY <1>2, <1>4, <2>1
  <2>4. Ended(next) => producer'[r].at = "closed"
    BY <1>9, <2>1
  <2>5. At(r, "stream") => request[r].got + producer'[r].left + Queued(next) <= Longest
    BY <1>2, <1>6, <1>7, <1>9, <2>1
  <2>6. QED
    BY <1>1, <1>5, <2>2, <2>3, <2>4, <2>5 DEF StreamOK, At, next
<1>10. "word" \in Chunks /\ "finish" \in Chunks /\ "error" \in Chunks
  BY DEF Chunks
<1>11. QED
  BY <1>8, <1>9, <1>10, ProduceIs

\* A stream that is read, down to a chunk that ends it.
LEMMA ReadStreams ==
    ASSUME Types, NEW r \in Requests, StreamOK(r), Answer(r), Read(r), StreamsOK
    PROVE  StreamOK(r)'
<1> DEFINE chan == producer[r].chan
           rest == Tail(chan)
<1>1. /\ producer \in [Requests -> Producer] /\ producer[r] \in Producer
      /\ chan # <<>> /\ producer' = [producer EXCEPT ![r].chan = Tail(@)]
      /\ At(r, "stream")
  BY DEF Types, ProducersOK, Read
<1>2. /\ producer'[r].chan = Tail(chan) /\ producer'[r].at = producer[r].at
      /\ producer'[r].left = producer[r].left /\ chan \in Seq(Chunks)
  BY <1>1 DEF Producer
<1>3. /\ \A i \in 1 .. Len(chan) : i # Len(chan) => chan[i] = "word"
      /\ Len(chan) <= Buffer /\ (Ended(chan) => producer[r].at = "closed")
  BY DEF StreamOK
<1>4. At(r, "stream") => request[r].got + producer[r].left + Queued(chan) <= Longest
  BY DEF StreamOK
<1>5. Head(chan) = "word" => request[r].got + 1 + producer[r].left + Queued(Tail(chan)) <= Longest
  BY <1>1, WordsBounded
<1>6. /\ request[r].got \in Nat /\ producer[r].left \in Nat /\ Longest \in Nat /\ Buffer \in Nat
  BY <1>1, LongestIs DEF Types, RequestsOK, Request, Producer, Words
<1> HIDE DEF chan, rest
<1>7. /\ rest \in Seq(Chunks) /\ Len(rest) = Len(chan) - 1 /\ Len(chan) \in Nat \ {0}
      /\ Head(chan) = chan[1]
      /\ \A i \in 1 .. Len(chan) - 1 : rest[i] = chan[i + 1] /\ i + 1 \in 1 .. Len(chan)
      /\ rest = <<>> <=> Len(chan) = 1
      /\ rest # <<>> => rest[Len(rest)] = chan[Len(chan)]
  BY <1>1, <1>2, TailIs DEF chan, rest
<1>8. Len(rest) <= Buffer
  BY <1>3, <1>6, <1>7
<1>9. ASSUME NEW i \in 1 .. Len(rest), i # Len(rest) PROVE rest[i] = "word"
  <2>1. i + 1 \in 1 .. Len(chan) /\ i + 1 # Len(chan) /\ rest[i] = chan[i + 1]
    BY <1>7, <1>9
  <2>2. QED
    BY <1>3, <2>1
<1>10. Ended(rest) => producer[r].at = "closed"
  <2>1. Ended(rest) => Ended(chan)
    BY <1>1, <1>7 DEF Ended
  <2>2. QED
    BY <1>3, <2>1
<1>11. ASSUME Head(chan) = "finish"
       PROVE  request[r].got + producer[r].left + Queued(rest) <= Longest
  <2>1. Len(chan) = 1
    <3>1. 1 \in 1 .. Len(chan) /\ chan[1] # "word"
      BY <1>7, <1>11
    <3>2. QED
      BY <1>3, <3>1
  <2>2. Queued(rest) = 0
    BY <1>7, <2>1 DEF Queued
  <2>3. Queued(chan) = 0
    BY <1>1, <1>7, <1>11, <2>1 DEF Queued, chan
  <2>4. QED
    BY <1>1, <1>4, <2>2, <2>3
<1>12. At(r, "stream")' =>
          request'[r].got + producer[r].left + Queued(rest) <= Longest
  <2>1. request'[r] = Idle => ~At(r, "stream")'
    BY IdleIs DEF At
  <2>2. \/ request'[r] = Idle
        \/ Head(chan) = "word" /\ request'[r].got = request[r].got + 1
        \/ Head(chan) = "finish" /\ request'[r].got = request[r].got
    BY AnswerIs DEF chan
  <2>3. QED
    BY <1>5, <1>11, <2>1, <2>2 DEF chan, rest
<1>13. request'[r].at \in {"idle", "stream"}
  BY AnswerIs, IdleIs DEF Stays
<1>14. QED
  BY <1>2, <1>8, <1>9, <1>10, <1>12, <1>13 DEF StreamOK, At, rest

LEMMA AnswerStreams ==
    ASSUME Types, StreamsOK, NEW r \in Requests, Answer(r)
    PROVE  StreamOK(r)'
<1> USE DEF sessionVars, usageVars, historyVars
<1>1. StreamOK(r) /\ producer \in [Requests -> Producer] /\ request[r] \in Request
  BY DEF StreamsOK, Types, ProducersOK, RequestsOK
<1>2. ASSUME producer' = producer, request'[r] = Idle,
             request[r].at = "idle" \/ producer[r].at = "closed" \/ request[r].at = "stream"
      PROVE  StreamOK(r)'
  BY <1>1, <1>2, IdleIs DEF StreamOK, At
<1>3. CASE CheckPolicies(r) \/ GetSession(r) \/ Build(r) \/ Generated(r) \/ Retry(r)
             \/ FallBack(r) \/ Keep(r) \/ RecordUsage(r)
  <2>1. producer' = producer
    BY <1>3 DEF CheckPolicies, GetSession, Build, Generated, Retry, FallBack, Keep, RecordUsage
  <2>2. request[r].at \in {"policies", "session", "build", "generate", "open", "keep", "usage"}
    BY <1>3 DEF CheckPolicies, GetSession, Build, Generated, Retry, FallBack, Keep,
                RecordUsage, At
  <2>3. producer[r].at = "closed"
    BY <1>1, <2>2 DEF StreamOK
  <2>4. CASE request'[r] = Idle
    BY <1>2, <2>1, <2>3, <2>4
  <2>5. CASE request'[r] # Idle
    <3>1. /\ request'[r].at \in {"session", "build", "generate", "open"} =>
               /\ request'[r].got = request[r].got
               /\ request[r].at \in {"policies", "session", "build", "generate", "open"}
          /\ request'[r].at # "stream" /\ request'[r].at # "policies"
      BY <1>3, <2>5, AnswerIs DEF Stays, FallBack, At, CheckPolicies, GetSession, Build, Retry
    <3>2. QED
      BY <1>1, <2>1, <2>2, <2>3, <3>1 DEF StreamOK, At
  <2>6. QED
    BY <2>4, <2>5
<1>4. CASE OpenStream(r)
  <2>1. PICK n \in Lengths : producer'[r] =
          [NoStream EXCEPT !.at = "check", !.provider = request[r].provider, !.left = n]
    BY <1>1, <1>4 DEF OpenStream
  <2>2. producer'[r].chan = <<>> /\ producer'[r].left = n
    BY <2>1 DEF NoStream
  <2>3. request'[r].at = "stream" /\ request'[r].got = 0
    <3>1. request[r].got = 0
      BY <1>1, <1>4 DEF OpenStream, StreamOK, At
    <3>2. QED
      BY <1>4, <3>1, AnswerIs DEF Stays
  <2>4. n \in Nat /\ n <= Longest
    BY LongestIs DEF Words
  <2>5. Len(<<>>) = 0 /\ Queued(<<>>) = 0 /\ ~Ended(<<>>)
    BY DEF Queued, Ended
  <2>6. QED
    BY <2>2, <2>3, <2>4, <2>5 DEF StreamOK, At
<1>5. CASE Read(r)
  BY <1>1, <1>5, ReadStreams
<1>6. CASE StreamDone(r)
  <2>1. producer'[r] = NoStream /\ request'[r].at = "keep"
    BY <1>1, <1>6, AnswerIs DEF StreamDone, Stays
  <2>2. Len(<<>>) = 0 /\ ~Ended(<<>>)
    BY DEF Ended
  <2>3. QED
    BY <2>1, <2>2 DEF StreamOK, NoStream, At
<1>7. QED
  BY <1>3, <1>4, <1>5, <1>6 DEF Answer

LEMMA NextStreams == Types /\ StreamsOK /\ [Next]_vars => StreamsOK'
<1> SUFFICES ASSUME Types, StreamsOK, [Next]_vars, NEW q \in Requests PROVE StreamOK(q)'
  BY DEF StreamsOK
<1> USE DEF sessionVars, usageVars, historyVars
<1>1. StreamOK(q) /\ producer \in [Requests -> Producer] /\ request \in [Requests -> Request]
  BY DEF StreamsOK, Types, ProducersOK, RequestsOK
<1>2. ASSUME NEW r \in Requests, Post(r) PROVE StreamOK(q)'
  <2>1. CASE q = r
    BY <1>1, <1>2, <2>1, PostIs DEF StreamOK, At
  <2>2. CASE q # r
    <3>1. request'[q] = request[q] /\ producer' = producer
      BY <1>1, <1>2, <2>2, PostIs
    <3>2. QED
      BY <1>1, <3>1, StreamSame
  <2>3. QED
    BY <2>1, <2>2
<1>3. ASSUME NEW r \in Requests, Answer(r) PROVE StreamOK(q)'
  <2>1. CASE q = r
    BY <1>3, <2>1, AnswerStreams
  <2>2. CASE q # r
    <3>1. Same(q)
      BY <1>3, <2>2, OthersStay
    <3>2. producer'[q] = producer[q]
      BY <1>1, <1>3, <2>2 DEF Answer, CheckPolicies, GetSession, Build, Generated, Retry,
          FallBack, OpenStream, Read, StreamDone, Keep, RecordUsage
    <3>3. QED
      BY <1>1, <3>1, <3>2, StreamSame DEF Same
  <2>3. QED
    BY <2>1, <2>2
<1>4. ASSUME NEW r \in Requests, Produce(r) PROVE StreamOK(q)'
  <2>1. CASE q = r
    BY <1>1, <1>4, <2>1, ProduceStreams
  <2>2. CASE q # r
    <3>1. request' = request /\ producer'[q] = producer[q]
      BY <1>1, <1>4, <2>2, ProduceIs
    <3>2. QED
      BY <1>1, <3>1, StreamSame
  <2>3. QED
    BY <2>1, <2>2
<1>5. ASSUME NEW r \in Requests, ClientLeaves(r) PROVE StreamOK(q)'
  BY <1>1, <1>5, OtherStepsAre, StreamSame DEF Stays
<1>6. ASSUME NEW e \in pending, Bill(e) PROVE StreamOK(q)'
  BY <1>1, <1>6, OtherStepsAre, StreamSame
<1>7. ASSUME NEW id \in SessionIds, Delete(id) PROVE StreamOK(q)'
  BY <1>1, <1>7, OtherStepsAre, StreamSame DEF Same
<1>8. CASE UNCHANGED vars
  BY <1>1, <1>8, StreamSame DEF vars
<1>9. QED
  BY <1>2, <1>3, <1>4, <1>5, <1>6, <1>7, <1>8 DEF Next

LEMMA InitTypes == Init => Types /\ StreamsOK
<1> SUFFICES ASSUME Init PROVE Types /\ StreamsOK
  OBVIOUS
<1>1. SessionsOK
  BY DEF Init, SessionsInit, SessionsOK
<1>2. RequestsOK
  BY IdleTyped, IdleIs DEF Init, RequestsOK, At
<1>3. ProducersOK /\ UsageOK
  BY NoStreamTyped DEF Init, ProducersOK, UsageOK
<1>4. StreamsOK
  <2>1. Len(<<>>) = 0 /\ ~Ended(<<>>)
    BY DEF Ended
  <2>2. QED
    BY <2>1, IdleIs DEF Init, StreamsOK, StreamOK, NoStream, At
<1>5. QED
  BY <1>1, <1>2, <1>3, <1>4 DEF Types

LEMMA Typed == Spec => [](Types /\ StreamsOK)
<1>1. Types /\ StreamsOK /\ [Next]_vars => Types' /\ StreamsOK'
  BY NextTypes, NextStreams
<1>2. QED
  BY InitTypes, <1>1, PTL DEF Spec

(* The state has its types, an answer no more words than its provider has  *)
(* sent, and a channel no more chunks than it has room for.                *)
THEOREM TypeCorrect == Spec => []TypeOK
<1>1. Types /\ StreamsOK => TypeOK
  <2> SUFFICES ASSUME Types, StreamsOK PROVE TypeOK
    OBVIOUS
  <2>1. ASSUME NEW r \in Requests
        PROVE  /\ request[r].at \in Steps /\ request[r].got \in Words
               /\ request[r].told \cup request[r].missed \subseteq Turns
               /\ producer[r].at \in ProducerSteps /\ producer[r].left \in Words
               /\ producer[r].chan \in Seq(Chunks) /\ Len(producer[r].chan) <= Buffer
    <3>1. request[r] \in Request /\ producer[r] \in Producer
      BY DEF Types, RequestsOK, ProducersOK
    <3>2. QED
      BY <3>1 DEF Request, Producer, StreamsOK, StreamOK
  <2>2. pending \cup billed \cup collided \cup completed \subseteq Events
    BY DEF Types, UsageOK
  <2>3. QED
    BY <2>1, <2>2 DEF TypeOK, Steps, Words, Longest, Turns, ProducerSteps, Chunks
<1>2. QED
  BY Typed, <1>1, PTL

-----------------------------------------------------------------------------
(* The index of sessions *)

\* What a step does to the sessions.
LEMMA SessionSteps ==
    ASSUME Types, [Next]_vars
    PROVE  \/ UNCHANGED <<sessions, index>>
           \/ \E key \in Keys, id \in SessionIds : GetOrCreateSession(key, id)
           \/ \E id \in SessionIds, messages \in Seq(Entry) : AddMessages(id, messages)
           \/ \E id \in SessionIds : DeleteSession(id)
<1> USE DEF sessionVars, usageVars, historyVars
<1>1. ASSUME NEW r \in Requests, Post(r) \/ Produce(r) \/ ClientLeaves(r)
      PROVE  UNCHANGED <<sessions, index>>
  BY <1>1, ProduceIs DEF Post, ClientLeaves
<1>2. ASSUME NEW r \in Requests, ~At(r, "idle")
      PROVE  request[r].key \in Keys /\ request[r].id \in SessionIds
  BY <1>2 DEF Types, RequestsOK
<1>3. ASSUME NEW r \in Requests, GetSession(r)
      PROVE  \E key \in Keys, id \in SessionIds : GetOrCreateSession(key, id)
  <2>1. GetOrCreateSession(request[r].key, request[r].id) /\ ~At(r, "idle")
    BY <1>3 DEF GetSession, At
  <2>2. QED
    BY <1>2, <2>1
<1>4. ASSUME NEW r \in Requests, Keep(r)
      PROVE  \/ UNCHANGED <<sessions, index>>
             \/ \E id \in SessionIds, messages \in Seq(Entry) : AddMessages(id, messages)
  <2> DEFINE messages == <<Message(r, "user"), Message(r, "assistant")>>
  <2>1. ~At(r, "idle")
    BY <1>4 DEF Keep, At
  <2>2. messages \in Seq(Entry)
    BY <2>1, MessageTyped DEF Types
  <2>3. UNCHANGED <<sessions, index>> \/ AddMessages(request[r].id, messages)
    BY <1>4 DEF Keep
  <2> HIDE DEF messages
  <2>4. QED
    BY <1>2, <2>1, <2>2, <2>3
<1>5. ASSUME NEW r \in Requests, Answer(r), ~GetSession(r), ~Keep(r)
      PROVE  UNCHANGED <<sessions, index>>
  BY <1>5 DEF Answer, CheckPolicies, Build, Generated, Retry, FallBack, OpenStream, Read,
              StreamDone, RecordUsage
<1>6. ASSUME NEW e \in pending, Bill(e) PROVE UNCHANGED <<sessions, index>>
  BY <1>6 DEF Bill
<1>7. ASSUME NEW id \in SessionIds, Delete(id) PROVE DeleteSession(id)
  BY <1>7 DEF Delete
<1>8. CASE UNCHANGED vars
  BY <1>8 DEF vars
<1>9. QED
  BY <1>1, <1>3, <1>4, <1>5, <1>6, <1>7, <1>8 DEF Next

Created(key) == {id \in SessionIds : Exists(id) /\ sessions[id].key = key}

LEMMA CreateMatches ==
    ASSUME SessionsOK, IndexMatches, NEW k \in Keys, NEW i \in SessionIds,
           GetOrCreateSession(k, i), ~Exists(i)
    PROVE  IndexMatches'
<1>1. /\ sessions' = [sessions EXCEPT ![i] = [key |-> k, messages |-> <<>>]]
      /\ index' = [index EXCEPT ![k] = Append(@, i)]
      /\ sessions \in [SessionIds -> Session \cup {None}] /\ index \in [Keys -> Seq(SessionIds)]
  BY DEF GetOrCreateSession, SessionsOK
<1> DEFINE record == [key |-> k, messages |-> <<>>]
<1>2. record # None /\ record.key = k
  <2>1. record \in Session
    BY DEF Session
  <2>2. QED
    BY <2>1, CompletionAssumption DEF Session
<1>3. \A id \in SessionIds : sessions'[id] = IF id = i THEN record ELSE sessions[id]
  BY <1>1
<1> HIDE DEF record
<1> SUFFICES ASSUME NEW key \in Keys
             PROVE  ToSet(index'[key]) = Created(key)' /\ IsInjective(index'[key])
  BY DEF IndexMatches, Created
<1>4. ToSet(index[key]) = Created(key) /\ IsInjective(index[key]) /\ index[key] \in Seq(SessionIds)
  BY <1>1 DEF IndexMatches, Created
<1>5. CASE key = k
  <2>1. i \notin Created(key)
    BY DEF Created
  <2>2. Created(key)' = Created(key) \cup {i}
    BY <1>2, <1>3, <1>5, <2>1 DEF Created, Exists
  <2>3. index'[key] = Append(index[key], i)
    BY <1>1, <1>5
  <2>4. /\ ToSet(Append(index[key], i)) = ToSet(index[key]) \cup {i}
        /\ i \notin ToSet(index[key]) => IsInjective(Append(index[key], i))
    BY <1>4, AppendElement
  <2>5. QED
    BY <1>4, <2>1, <2>2, <2>3, <2>4
<1>6. CASE key # k
  <2>1. index'[key] = index[key]
    BY <1>1, <1>6
  <2>2. Created(key)' = Created(key)
    BY <1>2, <1>3, <1>6 DEF Created, Exists
  <2>3. QED
    BY <1>4, <2>1, <2>2
<1>7. QED
  BY <1>5, <1>6

LEMMA DeleteMatches ==
    ASSUME SessionsOK, IndexMatches, NEW i \in SessionIds, DeleteSession(i)
    PROVE  IndexMatches'
<1> DEFINE k == sessions[i].key
<1>1. /\ k \in Keys /\ index'[k] = Without(index[k], i)
      /\ \A key \in Keys : key # k => index'[key] = index[key]
      /\ \A id \in SessionIds : sessions'[id] = IF id = i THEN None ELSE sessions[id]
      /\ index \in [Keys -> Seq(SessionIds)]
  BY DeleteTyped DEF SessionsOK
<1>2. \A key \in Keys : key # k => i \notin Created(key)
  BY DEF Created
<1>3. \A key \in Keys : Created(key)' = Created(key) \ {i}
  BY <1>1 DEF Created, Exists
<1> HIDE DEF k
<1> SUFFICES ASSUME NEW key \in Keys
             PROVE  ToSet(index'[key]) = Created(key)' /\ IsInjective(index'[key])
  BY DEF IndexMatches, Created
<1>4. ToSet(index[key]) = Created(key) /\ IsInjective(index[key]) /\ index[key] \in Seq(SessionIds)
  BY <1>1 DEF IndexMatches, Created
<1>5. CASE key = k
  <2>1. /\ ToSet(Without(index[key], i)) = ToSet(index[key]) \ {i}
        /\ IsInjective(Without(index[key], i))
    BY <1>4, WithoutRemoves
  <2>2. QED
    BY <1>1, <1>3, <1>4, <1>5, <2>1
<1>6. CASE key # k
  BY <1>1, <1>2, <1>3, <1>4, <1>6
<1>7. QED
  BY <1>5, <1>6

LEMMA AddMatches ==
    ASSUME SessionsOK, IndexMatches, NEW i \in SessionIds, NEW messages \in Seq(Entry),
           AddMessages(i, messages)
    PROVE  IndexMatches'
<1> DEFINE longer == sessions[i].messages \o messages
<1>1. /\ sessions[i] \in Session /\ index' = index
      /\ sessions'[i] = [key |-> sessions[i].key, messages |-> longer]
      /\ \A id \in SessionIds \ {i} : sessions'[id] = sessions[id]
  BY AddTyped
<1>2. sessions'[i] \in Session /\ sessions'[i].key = sessions[i].key
  <2>1. longer \in Seq(Entry) /\ sessions[i].key \in Keys
    BY <1>1 DEF Session
  <2> HIDE DEF longer
  <2>2. QED
    BY <1>1, <2>1 DEF Session
<1>3. Exists(i) /\ sessions'[i] # None
  BY <1>2, CompletionAssumption DEF AddMessages, Session
<1> HIDE DEF longer
<1>4. \A key \in Keys : Created(key)' = Created(key)
  BY <1>1, <1>2, <1>3 DEF Created, Exists
<1>5. QED
  BY <1>1, <1>4 DEF IndexMatches, Created

(* Each key's index lists the sessions it created that exist, each once,   *)
(* whoever continues them, and through deletion and a second use of an ID. *)
THEOREM IndexMatchesHolds == Spec => []IndexMatches
<1>1. Init => IndexMatches
  <2> SUFFICES ASSUME Init PROVE IndexMatches
    OBVIOUS
  <2>1. ToSet(<<>>) = {} /\ IsInjective(<<>>)
    BY DEF ToSet, IsInjective
  <2>2. QED
    BY <2>1 DEF Init, SessionsInit, IndexMatches, Exists
<1>2. Types /\ IndexMatches /\ [Next]_vars => IndexMatches'
  <2> SUFFICES ASSUME Types, IndexMatches, [Next]_vars PROVE IndexMatches'
    OBVIOUS
  <2>1. SessionsOK
    BY DEF Types
  <2>2. CASE UNCHANGED <<sessions, index>>
    BY <2>2 DEF IndexMatches, Exists
  <2>3. ASSUME NEW key \in Keys, NEW id \in SessionIds, GetOrCreateSession(key, id)
        PROVE  IndexMatches'
    <3>1. CASE Exists(id)
      BY <2>2, <2>3, <3>1 DEF GetOrCreateSession
    <3>2. CASE ~Exists(id)
      BY <2>1, <2>3, <3>2, CreateMatches
    <3>3. QED
      BY <3>1, <3>2
  <2>4. ASSUME NEW id \in SessionIds, NEW messages \in Seq(Entry), AddMessages(id, messages)
        PROVE  IndexMatches'
    BY <2>1, <2>4, AddMatches
  <2>5. ASSUME NEW id \in SessionIds, DeleteSession(id) PROVE IndexMatches'
    BY <2>1, <2>5, DeleteMatches
  <2>6. QED
    BY <2>2, <2>3, <2>4, <2>5, SessionSteps
<1>3. QED
  BY Typed, <1>1, <1>2, PTL DEF Spec

-----------------------------------------------------------------------------
(* Turns: every request has its own                                        *)

\* The two messages of a turn.
LEMMA PairIs ==
    ASSUME NEW S, NEW s \in Seq(S), NEW m \in S, NEW n \in S
    PROVE  LET longer == s \o <<m, n>>
           IN  /\ longer \in Seq(S) /\ Len(s) \in Nat /\ Len(longer) = Len(s) + 2
               /\ DOMAIN s = 1 .. Len(s) /\ DOMAIN longer = 1 .. Len(s) + 2
               /\ \A i \in 1 .. Len(s) : longer[i] = s[i]
               /\ longer[Len(s) + 1] = m /\ longer[Len(s) + 2] = n
<1> DEFINE longer == s \o <<m, n>>
<1>1. <<m, n>> \in Seq(S) /\ Len(<<m, n>>) = 2 /\ <<m, n>>[1] = m /\ <<m, n>>[2] = n
  OBVIOUS
<1>2. longer \in Seq(S) /\ Len(s) \in Nat /\ Len(longer) = Len(s) + 2
  BY <1>1
<1>3. \A i \in 1 .. Len(s) : longer[i] = s[i]
  BY <1>1, <1>2
<1>4. longer[Len(s) + 1] = m /\ longer[Len(s) + 2] = n
  BY <1>1, <1>2
<1>5. DOMAIN s = 1 .. Len(s) /\ DOMAIN longer = 1 .. Len(s) + 2
  BY <1>2
<1>6. QED
  BY <1>2, <1>3, <1>4, <1>5

LEMMA KeptTurns ==
    ASSUME SessionsOK, NEW i \in SessionIds, NEW m \in Entry, NEW n \in Entry,
           m.turn = n.turn, AddMessages(i, <<m, n>>), NEW id \in SessionIds
    PROVE  /\ Exists(id)' <=> Exists(id)
           /\ TurnsOf(id)' = IF id = i THEN TurnsOf(id) \cup {m.turn} ELSE TurnsOf(id)
<1> DEFINE old == sessions[i].messages
           new == old \o <<m, n>>
<1>1. <<m, n>> \in Seq(Entry)
  OBVIOUS
<1>2. /\ sessions[i] \in Session /\ Exists(i)
      /\ sessions'[i] = [key |-> sessions[i].key, messages |-> new]
      /\ \A other \in SessionIds \ {i} : sessions'[other] = sessions[other]
  BY <1>1, AddTyped DEF AddMessages
<1>3. old \in Seq(Entry)
  BY <1>2 DEF Session
<1>4. /\ new \in Seq(Entry) /\ Len(old) \in Nat
      /\ DOMAIN old = 1 .. Len(old) /\ DOMAIN new = 1 .. Len(old) + 2
      /\ \A k \in 1 .. Len(old) : new[k] = old[k]
      /\ new[Len(old) + 1] = m /\ new[Len(old) + 2] = n
  <2> HIDE DEF old
  <2>1. QED
    BY <1>3, PairIs
<1>5. sessions'[i] # None
  <2> HIDE DEF new
  <2>1. sessions'[i] \in Session
    BY <1>2, <1>4 DEF Session
  <2>2. QED
    BY <2>1, CompletionAssumption DEF Session
<1>6. CASE id = i
  <2>1. \A k \in DOMAIN new : k \in DOMAIN old \/ k = Len(old) + 1 \/ k = Len(old) + 2
    <3> HIDE DEF old, new
    <3>1. QED
      BY <1>4
  <2>2. DOMAIN old \subseteq DOMAIN new /\ Len(old) + 1 \in DOMAIN new
    <3> HIDE DEF old, new
    <3>1. QED
      BY <1>4
  <2>3. TurnsOf(i) = {old[k].turn : k \in DOMAIN old}
    BY <1>2 DEF TurnsOf
  <2>4. TurnsOf(i)' = {new[k].turn : k \in DOMAIN new}
    <3> HIDE DEF new
    <3>1. sessions'[i].messages = new
      BY <1>2
    <3>2. QED
      BY <1>5, <3>1 DEF TurnsOf, Exists
  <2> HIDE DEF old, new
  <2>5. {new[k].turn : k \in DOMAIN new} = {old[k].turn : k \in DOMAIN old} \cup {m.turn}
    BY <1>4, <2>1, <2>2
  <2>6. QED
    BY <1>2, <1>5, <1>6, <2>3, <2>4, <2>5 DEF Exists
<1>7. CASE id # i
  <2>1. sessions'[id] = sessions[id]
    BY <1>2, <1>7
  <2>2. QED
    BY <1>7, <2>1 DEF TurnsOf, Exists
<1>8. QED
  BY <1>6, <1>7

LEMMA MadeTurns ==
    ASSUME SessionsOK, NEW k \in Keys, NEW i \in SessionIds, GetOrCreateSession(k, i),
           NEW id \in SessionIds
    PROVE  TurnsOf(id)' = TurnsOf(id)
<1>1. CASE Exists(i) \/ id # i
  <2>1. sessions'[id] = sessions[id]
    BY <1>1 DEF GetOrCreateSession, SessionsOK
  <2>2. QED
    BY <2>1 DEF TurnsOf, Exists
<1>2. CASE ~Exists(i) /\ id = i
  <2>1. sessions'[id].messages = <<>> /\ DOMAIN <<>> = {}
    BY <1>2 DEF GetOrCreateSession, SessionsOK
  <2>2. TurnsOf(id)' = {}
    BY <2>1 DEF TurnsOf
  <2>3. QED
    BY <1>2, <2>2 DEF TurnsOf
<1>3. QED
  BY <1>1, <1>2

LEMMA DeletedTurns ==
    ASSUME SessionsOK, NEW i \in SessionIds, DeleteSession(i), NEW id \in SessionIds
    PROVE  TurnsOf(id)' = IF id = i THEN {} ELSE TurnsOf(id)
<1>1. sessions'[id] = IF id = i THEN None ELSE sessions[id]
  BY DeleteTyped
<1>2. QED
  BY <1>1 DEF TurnsOf, Exists

\* What a handler does to turns.
LEMMA AnswerTurns ==
    ASSUME Types, NEW r \in Requests, Answer(r)
    PROVE  /\ ~At(r, "idle") /\ turns' = turns
           /\ request'[r].at = "idle" \/ request'[r].turn = request[r].turn
           /\ request'[r].at \in Unanswered => request[r].at \in Unanswered
           /\ request'[r].at \in Unkept => request[r].at \in Unkept
           /\ \/ completed' = completed /\ ~Generated(r) /\ ~StreamDone(r)
              \/ /\ request[r].at \in Unanswered /\ request'[r].at = "keep"
                 /\ request'[r].turn = request[r].turn
                 /\ completed' = completed \cup
                      {[turn |-> request[r].turn, tokens |-> request'[r].got]}
           /\ \A id \in SessionIds :
                \/ TurnsOf(id)' = TurnsOf(id)
                \/ /\ TurnsOf(id)' = TurnsOf(id) \cup {request[r].turn}
                   /\ At(r, "keep") /\ request'[r].at = "usage" /\ id = request[r].id
           /\ \A id \in SessionIds : Keep(r) /\ Exists(id) /\ id = request[r].id =>
                TurnsOf(id)' = TurnsOf(id) \cup {request[r].turn}
<1> USE DEF Types, sessionVars, usageVars, historyVars
<1>1. ~At(r, "idle")
  BY DEF Answer, At, CheckPolicies, GetSession, Build, Generated, Retry, FallBack, OpenStream,
         Read, StreamDone, Keep, RecordUsage
<1>2. request[r].id \in SessionIds /\ request[r].key \in Keys
  BY <1>1 DEF RequestsOK
<1>3. turns' = turns
  BY DEF Answer, At, CheckPolicies, GetSession, Build, Generated, Retry, FallBack, OpenStream,
         Read, StreamDone, Keep, RecordUsage
<1>4. request'[r].at = "idle" \/ request'[r].turn = request[r].turn
  BY AnswerIs, IdleIs DEF Stays, Answer
<1>5. /\ request'[r].at \in Unanswered => request[r].at \in Unanswered
      /\ request'[r].at \in Unkept => request[r].at \in Unkept
  <2>1. request[r].at \in Unanswered \/ Keep(r) \/ RecordUsage(r)
    BY DEF Answer, Unanswered, At, CheckPolicies, GetSession, Build, Generated, Retry,
           FallBack, OpenStream, Read, StreamDone
  <2>2. Keep(r) => request'[r].at = "usage" /\ request[r].at = "keep"
    BY AnswerIs DEF Stays, Keep, At
  <2>3. RecordUsage(r) => request'[r].at = "idle"
    BY AnswerIs, IdleIs
  <2>4. QED
    BY <2>1, <2>2, <2>3 DEF Unanswered, Unkept
<1>6. \/ completed' = completed /\ ~Generated(r) /\ ~StreamDone(r)
      \/ /\ request[r].at \in Unanswered /\ request'[r].at = "keep"
         /\ request'[r].turn = request[r].turn
         /\ completed' = completed \cup
              {[turn |-> request[r].turn, tokens |-> request'[r].got]}
  <2>1. CASE Generated(r) \/ StreamDone(r)
    <3>1. request[r].at \in Unanswered
      BY <2>1 DEF Generated, StreamDone, At, Unanswered
    <3>2. QED
      BY <2>1, <3>1, AnswerIs DEF Stays
  <2>2. CASE ~Generated(r) /\ ~StreamDone(r)
    BY <2>2 DEF Answer, CheckPolicies, GetSession, Build, Retry, FallBack, OpenStream, Read,
                Keep, RecordUsage
  <2>3. QED
    BY <2>1, <2>2
<1>7. ASSUME NEW id \in SessionIds, Keep(r), Exists(request[r].id)
      PROVE  TurnsOf(id)' = IF id = request[r].id THEN TurnsOf(id) \cup {request[r].turn}
                            ELSE TurnsOf(id)
  <2> DEFINE m == Message(r, "user")
             n == Message(r, "assistant")
  <2>1. /\ m \in Entry /\ n \in Entry
        /\ m.turn = request[r].turn /\ n.turn = request[r].turn
        /\ AddMessages(request[r].id, <<m, n>>)
    BY <1>1, <1>7, MessageTyped DEF Message, Keep
  <2> HIDE DEF m, n
  <2>2. QED
    BY <1>2, <2>1, KeptTurns
<1>8. ASSUME NEW id \in SessionIds, UNCHANGED sessions PROVE TurnsOf(id)' = TurnsOf(id)
  BY <1>8 DEF TurnsOf, Exists
<1>9. ASSUME NEW id \in SessionIds
      PROVE  \/ TurnsOf(id)' = TurnsOf(id)
             \/ /\ TurnsOf(id)' = TurnsOf(id) \cup {request[r].turn}
                /\ At(r, "keep") /\ request'[r].at = "usage" /\ id = request[r].id
  <2>1. CASE Keep(r) /\ Exists(request[r].id)
    <3>1. At(r, "keep") /\ request'[r].at = "usage"
      BY <2>1, AnswerIs DEF Keep, Stays
    <3>2. QED
      BY <1>7, <2>1, <3>1
  <2>2. CASE GetSession(r)
    BY <1>2, <2>2, MadeTurns DEF GetSession
  <2>3. CASE ~GetSession(r) /\ ~(Keep(r) /\ Exists(request[r].id))
    <3>1. UNCHANGED sessions
      BY <2>3 DEF Answer, CheckPolicies, Build, Generated, Retry, FallBack, OpenStream, Read,
                  StreamDone, Keep, AddMessages, RecordUsage
    <3>2. QED
      BY <1>8, <3>1
  <2>4. QED
    BY <2>1, <2>2, <2>3
<1>10. \A id \in SessionIds : Keep(r) /\ Exists(id) /\ id = request[r].id =>
          TurnsOf(id)' = TurnsOf(id) \cup {request[r].turn}
  BY <1>7
<1>11. QED
  BY <1>1, <1>2, <1>3, <1>4, <1>5, <1>6, <1>9, <1>10

LEMMA InitTurns == Init => TurnsApart /\ \A id \in SessionIds : TurnsOf(id) = {}
<1> SUFFICES ASSUME Init PROVE TurnsApart /\ \A id \in SessionIds : TurnsOf(id) = {}
  OBVIOUS
<1>1. \A id \in SessionIds : TurnsOf(id) = {}
  BY DEF Init, SessionsInit, TurnsOf, Exists
<1>2. \A r \in Requests : request[r].at = "idle"
  BY IdleIs DEF Init
<1>3. completed = {}
  BY DEF Init
<1>4. QED
  BY <1>1, <1>2, <1>3 DEF TurnsApart, At, Unanswered, Unkept

LEMMA PostTurns ==
    ASSUME Types, TurnsApart, NEW r \in Requests, Post(r)
    PROVE  TurnsApart'
<1>1. /\ turns' = turns + 1 /\ turns \in Nat /\ request'[r].turn = turns + 1
      /\ request'[r].at = "policies"
      /\ \A q \in Requests \ {r} : request'[q] = request[q]
      /\ completed' = completed /\ sessions' = sessions
  <2>1. turns \in Nat
    BY DEF Types, UsageOK
  <2>2. request \in [Requests -> Request]
    BY DEF Types, RequestsOK
  <2>3. QED
    BY <2>1, <2>2, PostIs
<1>2. \A q \in Requests : request[q].at # "idle" => request[q].turn \in Nat
  BY DEF Types, RequestsOK, At, Turns
<1>3. \A e \in completed : e.turn \in Nat
  BY DEF Types, UsageOK, Events
<1>4. \A id \in SessionIds : TurnsOf(id)' = TurnsOf(id) /\ TurnsOf(id) \subseteq Nat
  <2>1. \A id \in SessionIds : TurnsOf(id)' = TurnsOf(id)
    BY <1>1 DEF TurnsOf, Exists
  <2>2. \A id \in SessionIds : TurnsOf(id) \subseteq Turns
    BY TurnsTyped DEF Types
  <2>3. QED
    BY <2>1, <2>2 DEF Turns
<1>5. \A t \in Nat : t <= turns => t <= turns' /\ t # turns + 1
  BY <1>1
<1>6. \A q \in Requests : ~At(q, "idle")' => request'[q].turn <= turns'
  BY <1>1, <1>2, <1>5 DEF TurnsApart, At
<1>7. ASSUME NEW p \in Requests, NEW q \in Requests, ~At(p, "idle")', ~At(q, "idle")',
             request'[p].turn = request'[q].turn
      PROVE  p = q
  <2>1. \A s \in Requests : s # r /\ ~At(s, "idle")' => ~At(s, "idle") /\ request'[s].turn = request[s].turn
                                  /\ request'[s].turn # turns + 1
    BY <1>1, <1>2, <1>5 DEF TurnsApart, At
  <2>2. QED
    BY <1>1, <1>7, <2>1 DEF TurnsApart
<1>8. \A e \in completed' : e.turn <= turns'
  BY <1>1, <1>3, <1>5 DEF TurnsApart
<1>9. ASSUME NEW q \in Requests, NEW e \in completed', request'[q].at \in Unanswered
      PROVE  e.turn # request'[q].turn
  BY <1>1, <1>3, <1>5, <1>9 DEF TurnsApart
<1>10. \A id \in SessionIds : \A t \in TurnsOf(id)' : t <= turns'
  BY <1>4, <1>5 DEF TurnsApart
<1>11. ASSUME NEW q \in Requests, NEW id \in SessionIds, request'[q].at \in Unkept
       PROVE  request'[q].turn \notin TurnsOf(id)'
  BY <1>1, <1>4, <1>5, <1>11 DEF TurnsApart
<1>12. QED
  BY <1>6, <1>7, <1>8, <1>9, <1>10, <1>11 DEF TurnsApart

\* A step that hands out no turn, and takes at most the turn of r on.
LEMMA StepTurns ==
    ASSUME Types, TurnsApart, NEW r \in Requests, ~At(r, "idle"), turns' = turns,
           \A q \in Requests \ {r} : request'[q].at = request[q].at
                                       /\ request'[q].turn = request[q].turn,
           request'[r].at = "idle" \/ request'[r].turn = request[r].turn,
           request'[r].at \in Unanswered => request[r].at \in Unanswered,
           request'[r].at \in Unkept => request[r].at \in Unkept,
           \A e \in completed' : \/ e \in completed
                                 \/ /\ e.turn = request[r].turn /\ request'[r].at = "keep",
           \A id \in SessionIds : \/ TurnsOf(id)' \subseteq TurnsOf(id)
                                  \/ /\ TurnsOf(id)' = TurnsOf(id) \cup {request[r].turn}
                                     /\ request'[r].at = "usage"
    PROVE  TurnsApart'
<1>1. \A q \in Requests : ~At(q, "idle")' => ~At(q, "idle") /\ request'[q].turn = request[q].turn
  BY DEF At
<1>2. "keep" \notin Unanswered /\ "usage" \notin Unkept /\ "idle" \notin Unkept
  BY DEF Unanswered, Unkept
<1>3. request[r].turn <= turns
  BY DEF TurnsApart
<1>4. \A q \in Requests : ~At(q, "idle")' => request'[q].turn <= turns'
  BY <1>1 DEF TurnsApart
<1>5. \A p, q \in Requests : ~At(p, "idle")' /\ ~At(q, "idle")'
                                /\ request'[p].turn = request'[q].turn => p = q
  BY <1>1 DEF TurnsApart
<1>6. \A e \in completed' : e.turn <= turns'
  BY <1>3 DEF TurnsApart
<1>7. ASSUME NEW q \in Requests, NEW e \in completed', request'[q].at \in Unanswered
      PROVE  e.turn # request'[q].turn
  <2>1. ~At(q, "idle")' /\ request[q].at \in Unanswered
    BY <1>7 DEF Unanswered, At
  <2>2. CASE e \in completed
    BY <1>1, <2>1, <2>2 DEF TurnsApart
  <2>3. CASE e.turn = request[r].turn /\ request'[r].at = "keep"
    <3>1. q # r
      BY <1>2, <1>7, <2>3
    <3>2. QED
      BY <1>1, <2>1, <2>3, <3>1 DEF TurnsApart
  <2>4. QED
    BY <2>2, <2>3
<1>8. \A id \in SessionIds : \A t \in TurnsOf(id)' : t <= turns'
  BY <1>3 DEF TurnsApart
<1>9. ASSUME NEW q \in Requests, NEW id \in SessionIds, request'[q].at \in Unkept
      PROVE  request'[q].turn \notin TurnsOf(id)'
  <2>1. ~At(q, "idle")' /\ request[q].at \in Unkept
    BY <1>9 DEF Unanswered, Unkept, At
  <2>2. request[q].turn \notin TurnsOf(id) /\ request'[q].turn = request[q].turn
    BY <1>1, <2>1 DEF TurnsApart
  <2>3. CASE TurnsOf(id)' \subseteq TurnsOf(id)
    BY <2>2, <2>3
  <2>4. CASE TurnsOf(id)' = TurnsOf(id) \cup {request[r].turn} /\ request'[r].at = "usage"
    <3>1. q # r
      BY <1>2, <1>9, <2>4
    <3>2. request[q].turn # request[r].turn
      BY <1>1, <2>1, <3>1 DEF TurnsApart
    <3>3. QED
      BY <2>2, <2>4, <3>2
  <2>5. QED
    BY <2>3, <2>4
<1>10. QED
  BY <1>4, <1>5, <1>6, <1>7, <1>8, <1>9 DEF TurnsApart

LEMMA NextTurns == Types /\ TurnsApart /\ [Next]_vars => TurnsApart'
<1> SUFFICES ASSUME Types, TurnsApart, [Next]_vars PROVE TurnsApart'
  OBVIOUS
<1> USE DEF sessionVars, usageVars, historyVars
<1>1. ASSUME NEW r \in Requests, Post(r) PROVE TurnsApart'
  BY <1>1, PostTurns
<1>2. ASSUME NEW r \in Requests, Answer(r) PROVE TurnsApart'
  <2>1. \A q \in Requests \ {r} : request'[q].at = request[q].at
                                    /\ request'[q].turn = request[q].turn
    BY <1>2, OthersStay DEF Same
  <2>2. \A e \in completed' : \/ e \in completed
                              \/ /\ e.turn = request[r].turn /\ request'[r].at = "keep"
    BY <1>2, AnswerTurns
  <2>3. \A id \in SessionIds : \/ TurnsOf(id)' \subseteq TurnsOf(id)
                               \/ /\ TurnsOf(id)' = TurnsOf(id) \cup {request[r].turn}
                                  /\ request'[r].at = "usage"
    BY <1>2, AnswerTurns
  <2>4. /\ ~At(r, "idle") /\ turns' = turns
        /\ request'[r].at = "idle" \/ request'[r].turn = request[r].turn
        /\ request'[r].at \in Unanswered => request[r].at \in Unanswered
        /\ request'[r].at \in Unkept => request[r].at \in Unkept
    BY <1>2, AnswerTurns
  <2>5. QED
    BY <2>1, <2>2, <2>3, <2>4, StepTurns
<1>3. ASSUME completed' = completed, turns' = turns,
             \A q \in Requests : request'[q].at = request[q].at
                                   /\ request'[q].turn = request[q].turn,
             \A id \in SessionIds : TurnsOf(id)' \subseteq TurnsOf(id)
      PROVE  TurnsApart'
  BY <1>3 DEF TurnsApart, At
<1>4. sessions' = sessions => \A id \in SessionIds : TurnsOf(id)' = TurnsOf(id)
  BY DEF TurnsOf, Exists
<1>5. ASSUME NEW r \in Requests, Produce(r) PROVE TurnsApart'
  BY <1>3, <1>4, <1>5, ProduceIs
<1>6. ASSUME NEW r \in Requests, ClientLeaves(r) PROVE TurnsApart'
  BY <1>3, <1>4, <1>6, OtherStepsAre DEF Stays
<1>7. ASSUME NEW e \in pending, Bill(e) PROVE TurnsApart'
  BY <1>3, <1>4, <1>7, OtherStepsAre
<1>8. ASSUME NEW id \in SessionIds, Delete(id) PROVE TurnsApart'
  <2>1. \A other \in SessionIds : TurnsOf(other)' \subseteq TurnsOf(other)
    BY <1>8, DeletedTurns DEF Delete, Types
  <2>2. QED
    BY <1>3, <1>8, <2>1, OtherStepsAre DEF Same
<1>9. CASE UNCHANGED vars
  BY <1>3, <1>4, <1>9 DEF vars
<1>10. QED
  BY <1>1, <1>2, <1>5, <1>6, <1>7, <1>8, <1>9 DEF Next

-----------------------------------------------------------------------------
(* Usage *)

\* What handlers with a complete answer will publish, or have not kept yet.
Due == {Usage(r) : r \in {r \in Requests : request[r].at \in {"keep", "usage"}}}

LEMMA DueIs ==
    ASSUME NEW r \in Requests,
           \A q \in Requests \ {r} : /\ request'[q].at = request[q].at
                                     /\ request'[q].turn = request[q].turn
                                     /\ request'[q].got = request[q].got
    PROVE  /\ request[r].at \notin {"keep", "usage"} => Due \subseteq Due'
           /\ request'[r].at \notin {"keep", "usage"} => Due' \subseteq Due
           /\ request[r].at \in {"keep", "usage"} => Due \subseteq Due' \cup {Usage(r)}
           /\ request'[r].at \in {"keep", "usage"} => Due' \subseteq Due \cup {Usage(r)'}
           /\ request[r].at \in {"keep", "usage"} => Usage(r) \in Due
           /\ request'[r].at \in {"keep", "usage"} => Usage(r)' \in Due'
<1>1. \A q \in Requests \ {r} : Usage(q)' = Usage(q)
  BY DEF Usage
<1>2. ASSUME NEW q \in Requests, request[q].at \in {"keep", "usage"}
      PROVE  Usage(q) \in Due'
                \/ q = r
  <2>1. q # r => request'[q].at \in {"keep", "usage"} /\ Usage(q)' = Usage(q)
    BY <1>1, <1>2
  <2>2. QED
    BY <2>1 DEF Due
<1>3. ASSUME NEW q \in Requests, request'[q].at \in {"keep", "usage"}
      PROVE  Usage(q)' \in Due \/ q = r
  <2>1. q # r => request[q].at \in {"keep", "usage"} /\ Usage(q)' = Usage(q)
    BY <1>1, <1>3
  <2>2. QED
    BY <2>1 DEF Due
<1>4. Due \subseteq Due' \cup {Usage(r)}
  BY <1>2 DEF Due
<1>5. Due' \subseteq Due \cup {Usage(r)'}
  BY <1>3 DEF Due
<1>6. request[r].at \notin {"keep", "usage"} => Due \subseteq Due'
  BY <1>2 DEF Due
<1>7. request'[r].at \notin {"keep", "usage"} => Due' \subseteq Due
  BY <1>3 DEF Due
<1>8. QED
  BY <1>4, <1>5, <1>6, <1>7 DEF Due

LEMMA AnswerUsage ==
    ASSUME Types, UsageFollows, NEW r \in Requests, Answer(r)
    PROVE  UsageFollows'
<1> USE DEF Types, sessionVars, usageVars, historyVars
<1> SUFFICES completed' = pending' \cup billed' \cup collided' \cup Due'
  BY DEF UsageFollows, Due
<1>1. completed = pending \cup billed \cup collided \cup Due
  BY DEF UsageFollows, Due
<1>2. \A q \in Requests \ {r} : /\ request'[q].at = request[q].at
                                /\ request'[q].turn = request[q].turn
                                /\ request'[q].got = request[q].got
  BY OthersStay DEF Same
<1>3. CASE Generated(r) \/ StreamDone(r)
  <2>1. request[r].at \notin {"keep", "usage"} /\ request'[r].at \in {"keep", "usage"}
        /\ UNCHANGED <<pending, billed, collided>>
    BY <1>3, AnswerIs DEF Generated, StreamDone, At, Stays
  <2>2. completed' = completed \cup {Usage(r)'}
    <3>1. completed' = completed \cup {[turn |-> request[r].turn, tokens |-> request'[r].got]}
      BY <1>3, AnswerIs
    <3>2. request'[r].turn = request[r].turn
      BY <1>3, AnswerIs DEF Stays
    <3>3. QED
      BY <3>1, <3>2 DEF Usage
  <2>3. Due' = Due \cup {Usage(r)'}
    BY <1>2, <2>1, DueIs
  <2>4. QED
    BY <1>1, <2>1, <2>2, <2>3
<1>4. CASE Keep(r)
  <2>1. request[r].at \in {"keep", "usage"} /\ request'[r].at \in {"keep", "usage"}
        /\ UNCHANGED <<pending, billed, collided, completed>>
    BY <1>4, AnswerIs DEF Keep, At, Stays
  <2>2. Usage(r)' = Usage(r)
    BY <1>4, AnswerIs DEF Stays, Usage
  <2>3. /\ Due \subseteq Due' \cup {Usage(r)} /\ Usage(r)' \in Due'
        /\ Due' \subseteq Due \cup {Usage(r)'} /\ Usage(r) \in Due
    BY <1>2, <2>1, DueIs
  <2>4. \A A, B, x : A \subseteq B \cup {x} /\ B \subseteq A \cup {x} /\ x \in A /\ x \in B
                      => A = B
    <3> TAKE A, B, x
    <3> HAVE A \subseteq B \cup {x} /\ B \subseteq A \cup {x} /\ x \in A /\ x \in B
    <3>1. \A y : y \in A <=> y \in B
      OBVIOUS
    <3>2. QED
      BY <3>1
  <2>5. /\ Due \subseteq Due' \cup {Usage(r)} /\ Due' \subseteq Due \cup {Usage(r)}
        /\ Usage(r) \in Due /\ Usage(r) \in Due'
    BY <2>2, <2>3, Zenon
  <2>6. Due' = Due
    BY <2>4, <2>5, Zenon
  <2>7. QED
    BY <1>1, <2>1, <2>6
<1>5. CASE RecordUsage(r)
  <2>1. request[r].at \in {"keep", "usage"} /\ request'[r].at \notin {"keep", "usage"}
        /\ UNCHANGED <<billed, collided, completed>> /\ pending' = pending \cup {Usage(r)}
    BY <1>5, AnswerIs, IdleIs DEF RecordUsage, At
  <2>2. Due' \cup {Usage(r)} = Due
    BY <1>2, <2>1, DueIs
  <2>3. QED
    BY <1>1, <2>1, <2>2
<1>6. CASE CheckPolicies(r) \/ GetSession(r) \/ Build(r) \/ Retry(r) \/ FallBack(r)
             \/ OpenStream(r) \/ Read(r)
  <2>1. UNCHANGED <<pending, billed, collided, completed>>
    BY <1>6 DEF CheckPolicies, GetSession, Build, Retry, FallBack, OpenStream, Read
  <2>2. request[r].at \notin {"keep", "usage"}
    BY <1>6 DEF CheckPolicies, GetSession, Build, Retry, FallBack, OpenStream, Read, At
  <2>3. request'[r].at \notin {"keep", "usage"}
    BY <1>6, <2>2, AnswerIs, IdleIs DEF Stays
  <2>4. Due' = Due
    BY <1>2, <2>2, <2>3, DueIs
  <2>5. QED
    BY <1>1, <2>1, <2>4
<1>7. QED
  BY <1>3, <1>4, <1>5, <1>6 DEF Answer

LEMMA NextUsage == Types /\ UsageFollows /\ [Next]_vars => UsageFollows'
<1> SUFFICES ASSUME Types, UsageFollows, [Next]_vars PROVE UsageFollows'
  OBVIOUS
<1> USE DEF sessionVars, usageVars, historyVars
<1>1. ASSUME UNCHANGED <<pending, billed, collided, completed>>, Due' = Due
      PROVE  UsageFollows'
  BY <1>1 DEF UsageFollows, Due
<1>2. ASSUME NEW r \in Requests, Post(r) PROVE UsageFollows'
  <2>1. /\ UNCHANGED <<pending, billed, collided, completed>>
        /\ request[r].at = "idle" /\ request'[r].at = "policies"
        /\ \A q \in Requests \ {r} : request'[q] = request[q]
    <3>1. request \in [Requests -> Request]
      BY DEF Types, RequestsOK
    <3>2. QED
      BY <1>2, <3>1, PostIs DEF At
  <2>2. Due' = Due
    BY <2>1, DueIs
  <2>3. QED
    BY <1>1, <2>1, <2>2
<1>3. ASSUME NEW r \in Requests, Answer(r) PROVE UsageFollows'
  BY <1>3, AnswerUsage
<1>4. ASSUME \A q \in Requests : /\ request'[q].at = request[q].at
                                 /\ request'[q].turn = request[q].turn
                                 /\ request'[q].got = request[q].got
      PROVE  Due' = Due
  BY <1>4 DEF Due, Usage
<1>5. ASSUME NEW r \in Requests, Produce(r) PROVE UsageFollows'
  BY <1>1, <1>4, <1>5, ProduceIs
<1>6. ASSUME NEW r \in Requests, ClientLeaves(r) PROVE UsageFollows'
  <2>1. Due' = Due
    BY <1>4, <1>6, OtherStepsAre DEF Stays
  <2>2. QED
    BY <1>1, <1>6, <2>1, OtherStepsAre
<1>7. ASSUME NEW e \in pending, Bill(e) PROVE UsageFollows'
  <2>1. Due' = Due /\ completed' = completed
    BY <1>4, <1>7, OtherStepsAre
  <2>2. pending' \cup billed' \cup collided' = pending \cup billed \cup collided
    BY <1>7 DEF Bill
  <2>3. QED
    BY <2>1, <2>2 DEF UsageFollows, Due
<1>8. ASSUME NEW id \in SessionIds, Delete(id) PROVE UsageFollows'
  <2>1. Due' = Due
    BY <1>4, <1>8, OtherStepsAre DEF Same
  <2>2. QED
    BY <1>1, <1>8, <2>1, OtherStepsAre
<1>9. CASE UNCHANGED vars
  BY <1>1, <1>4, <1>9 DEF vars
<1>10. QED
  BY <1>2, <1>3, <1>5, <1>6, <1>7, <1>8, <1>9 DEF Next

LEMMA NextApart == Types /\ TurnsApart /\ AnswersApart /\ [Next]_vars => AnswersApart'
<1> SUFFICES ASSUME Types, TurnsApart, AnswersApart, [Next]_vars PROVE AnswersApart'
  OBVIOUS
<1> USE DEF sessionVars, usageVars, historyVars
<1>1. completed' = completed => AnswersApart'
  BY DEF AnswersApart
<1>2. ASSUME NEW r \in Requests, NEW n, request[r].at \in Unanswered,
             completed' = completed \cup {[turn |-> request[r].turn, tokens |-> n]}
      PROVE  AnswersApart'
  <2> DEFINE e == [turn |-> request[r].turn, tokens |-> n]
  <2>1. IsFiniteSet(completed \cup {e})
    <3>1. IsFiniteSet(completed)
      BY DEF AnswersApart
    <3> HIDE DEF e
    <3>2. QED
      BY <3>1, FS_AddElement, Zenon
  <2>2. \A f \in completed : f.turn # e.turn
    BY <1>2 DEF TurnsApart
  <2>3. QED
    BY <1>2, <2>1, <2>2 DEF AnswersApart
<1>3. ASSUME NEW r \in Requests, Answer(r) PROVE AnswersApart'
  <2>1. \/ completed' = completed
        \/ /\ request[r].at \in Unanswered
           /\ completed' = completed \cup
                {[turn |-> request[r].turn, tokens |-> request'[r].got]}
    BY <1>3, AnswerTurns
  <2>2. QED
    BY <1>1, <1>2, <2>1
<1>4. ASSUME ~ \E r \in Requests : Answer(r) PROVE completed' = completed
  <2>1. CASE UNCHANGED vars
    BY <2>1 DEF vars
  <2>2. ASSUME NEW r \in Requests, Post(r) \/ Produce(r) \/ ClientLeaves(r)
        PROVE  completed' = completed
    BY <2>2, PostIs, ProduceIs, OtherStepsAre
  <2>3. ASSUME NEW e \in pending, Bill(e) PROVE completed' = completed
    BY <2>3, OtherStepsAre
  <2>4. ASSUME NEW id \in SessionIds, Delete(id) PROVE completed' = completed
    BY <2>4, OtherStepsAre
  <2>5. QED
    BY <1>4, <2>1, <2>2, <2>3, <2>4 DEF Next
<1>5. QED
  BY <1>1, <1>3, <1>4

LEMMA AnswersCounted ==
    ASSUME AnswersApart
    PROVE  Cardinality(completed) = Cardinality({e.turn : e \in completed})
<1> DEFINE turn == [e \in completed |-> e.turn]
           T == {e.turn : e \in completed}
<1>1. turn \in Bijection(completed, T)
  <2>1. turn \in Injection(completed, T)
    BY DEF AnswersApart, Injection, IsInjective
  <2>2. turn \in Surjection(completed, T)
    BY DEF Surjection
  <2>3. QED
    BY <2>1, <2>2 DEF Bijection
<1> HIDE DEF turn, T
<1>2. ExistsBijection(completed, T)
  BY <1>1 DEF ExistsBijection
<1>3. IsFiniteSet(completed)
  BY DEF AnswersApart
<1>4. Cardinality(T) = Cardinality(completed)
  BY <1>2, <1>3, FS_Bijection, Zenon
<1>5. QED
  BY <1>4 DEF T

(* Every completed answer is billed, or its subscriber will run, or it     *)
(* collided with another of the same millisecond, with the words it had,   *)
(* whether or not its session still exists; and no answer twice.           *)
THEOREM UsageOfAnswersHolds == Spec => []UsageOfAnswers
<1>1. Init => TurnsApart /\ UsageFollows /\ AnswersApart
  <2> SUFFICES ASSUME Init PROVE TurnsApart /\ UsageFollows /\ AnswersApart
    OBVIOUS
  <2>1. completed = {} /\ pending = {} /\ billed = {} /\ collided = {}
        /\ \A r \in Requests : request[r].at = "idle"
    BY IdleIs DEF Init
  <2>2. QED
    BY <2>1, InitTurns, FS_EmptySet DEF UsageFollows, AnswersApart
<1>2. /\ Types /\ TurnsApart /\ [Next]_vars => TurnsApart'
      /\ Types /\ UsageFollows /\ [Next]_vars => UsageFollows'
      /\ Types /\ TurnsApart /\ AnswersApart /\ [Next]_vars => AnswersApart'
  BY NextTurns, NextUsage, NextApart
<1>3. UsageFollows /\ AnswersApart => UsageOfAnswers
  BY AnswersCounted DEF UsageFollows, UsageOfAnswers
<1>4. QED
  BY Typed, <1>1, <1>2, <1>3, PTL DEF Spec

-----------------------------------------------------------------------------
(* Transcripts *)

Other(i) == IF i % 2 = 1 THEN i + 1 ELSE i - 1

\* Of a transcript: questions and answers alternate, and belong together.
Paired(messages) ==
    \A i \in DOMAIN messages :
        /\ messages[i].role = IF i % 2 = 1 THEN "user" ELSE "assistant"
        /\ Other(i) \in DOMAIN messages
        /\ messages[Other(i)].turn = messages[i].turn

LEMMA PairPaired ==
    ASSUME NEW s \in Seq(Entry), NEW m \in Entry, NEW n \in Entry, m.turn = n.turn,
           m.role = "user", n.role = "assistant", Paired(s), NEW c \in Nat, Len(s) = 2 * c
    PROVE  Paired(s \o <<m, n>>)
<1> DEFINE longer == s \o <<m, n>>
           k == Len(s)
<1>1. /\ k \in Nat /\ DOMAIN s = 1 .. k /\ DOMAIN longer = 1 .. k + 2
      /\ \A i \in 1 .. k : longer[i] = s[i]
      /\ longer[k + 1] = m /\ longer[k + 2] = n
  BY PairIs
<1>2. k = 2 * c
  OBVIOUS
<1> HIDE DEF longer, k
<1>3. (k + 1) % 2 = 1 /\ (k + 2) % 2 = 0
  BY <1>2
<1>4. Other(k + 1) = k + 2 /\ Other(k + 2) = k + 1
  BY <1>1, <1>3 DEF Other
<1>5. SUFFICES ASSUME NEW i \in 1 .. k + 2
               PROVE  /\ longer[i].role = IF i % 2 = 1 THEN "user" ELSE "assistant"
                      /\ Other(i) \in 1 .. k + 2
                      /\ longer[Other(i)].turn = longer[i].turn
  BY <1>1 DEF Paired, longer
<1>6. CASE i \in 1 .. k
  <2>1. /\ s[i].role = IF i % 2 = 1 THEN "user" ELSE "assistant"
        /\ Other(i) \in 1 .. k /\ s[Other(i)].turn = s[i].turn
    BY <1>1, <1>6 DEF Paired
  <2>2. Other(i) \in 1 .. k + 2
    BY <1>1, <2>1
  <2>3. QED
    BY <1>1, <1>6, <2>1, <2>2
<1>7. CASE i = k + 1
  <2>1. k + 2 \in 1 .. k + 2
    BY <1>1
  <2>2. QED
    BY <1>1, <1>3, <1>4, <1>7, <2>1
<1>8. CASE i = k + 2
  <2>1. k + 1 \in 1 .. k + 2
    BY <1>1
  <2>2. QED
    BY <1>1, <1>3, <1>4, <1>8, <2>1
<1>9. QED
  BY <1>1, <1>6, <1>7, <1>8

\* One session's transcript is whole.
WholeOf(id) ==
    /\ IsFiniteSet(TurnsOf(id))
    /\ Exists(id) => /\ Paired(sessions[id].messages)
                     /\ 2 * Cardinality(TurnsOf(id)) = Len(sessions[id].messages)

LEMMA WholeIs == TranscriptsWhole <=> \A id \in SessionIds : WholeOf(id)
BY DEF TranscriptsWhole, WholeTurns, WholeOf, Paired, Other

LEMMA WholeSame ==
    ASSUME NEW id \in SessionIds, WholeOf(id), sessions'[id] = sessions[id]
    PROVE  WholeOf(id)'
<1>1. TurnsOf(id)' = TurnsOf(id)
  BY DEF TurnsOf, Exists
<1>2. QED
  BY <1>1 DEF WholeOf, Exists

LEMMA EmptyWhole ==
    ASSUME NEW id \in SessionIds, sessions'[id] = None \/ sessions'[id].messages = <<>>
    PROVE  WholeOf(id)'
<1>1. DOMAIN <<>> = {} /\ Len(<<>>) = 0
  OBVIOUS
<1>2. TurnsOf(id)' = {}
  BY <1>1 DEF TurnsOf, Exists
<1>3. IsFiniteSet({}) /\ Cardinality({}) = 0
  BY FS_EmptySet
<1>4. Paired(<<>>)
  BY <1>1 DEF Paired
<1>5. QED
  BY <1>1, <1>2, <1>3, <1>4 DEF WholeOf, Exists

LEMMA KeepWhole ==
    ASSUME Types, TurnsApart, NEW r \in Requests, At(r, "keep"),
           AddMessages(request[r].id, <<Message(r, "user"), Message(r, "assistant")>>),
           WholeOf(request[r].id), NEW id \in SessionIds, id = request[r].id
    PROVE  WholeOf(id)'
<1> DEFINE t == request[r].turn
           m == Message(r, "user")
           n == Message(r, "assistant")
           old == sessions[id].messages
           new == old \o <<m, n>>
<1>1. ~At(r, "idle")
  BY DEF At
<1>2. /\ m \in Entry /\ n \in Entry
      /\ m.turn = t /\ n.turn = t /\ m.role = "user" /\ n.role = "assistant"
  BY <1>1, MessageTyped DEF Types, Message
<1>3. t \notin TurnsOf(id)
  BY DEF TurnsApart, Unkept, At
<1> HIDE DEF m, n, t
<1>4. Exists(id) /\ sessions'[id].messages = new /\ sessions[id] \in Session
  <2>1. <<m, n>> \in Seq(Entry) /\ AddMessages(id, <<m, n>>)
    BY <1>2 DEF m, n
  <2>2. sessions'[id] = [key |-> sessions[id].key, messages |-> new]
        /\ sessions[id] \in Session
    BY <2>1, AddTyped DEF Types
  <2>3. Exists(id)
    BY <2>1 DEF AddMessages
  <2> HIDE DEF new
  <2>4. QED
    BY <2>2, <2>3
<1>5. TurnsOf(id)' = TurnsOf(id) \cup {t}
  <2>1. AddMessages(id, <<m, n>>)
    BY DEF m, n
  <2>2. QED
    BY <1>2, <2>1, KeptTurns DEF Types
<1>6. IsFiniteSet(TurnsOf(id)) /\ Paired(old) /\ 2 * Cardinality(TurnsOf(id)) = Len(old)
  BY <1>4 DEF WholeOf
<1>7. old \in Seq(Entry)
  BY <1>4 DEF Session
<1> DEFINE c == Cardinality(TurnsOf(id))
<1>8. c \in Nat
  BY <1>6, FS_CardinalityType, Zenon
<1>9. /\ IsFiniteSet(TurnsOf(id) \cup {t})
      /\ Cardinality(TurnsOf(id) \cup {t}) =
           IF t \in TurnsOf(id) THEN Cardinality(TurnsOf(id)) ELSE Cardinality(TurnsOf(id)) + 1
  BY <1>6, FS_AddElement, Zenon
<1>10. Paired(new)
  <2>1. Len(old) = 2 * c
    BY <1>6
  <2> HIDE DEF c, old
  <2>2. QED
    BY <1>2, <1>6, <1>7, <1>8, <2>1, PairPaired
<1>11. Len(new) = Len(old) + 2
  <2> HIDE DEF old
  <2>1. QED
    BY <1>2, <1>7, PairIs
<1>12. 2 * Cardinality(TurnsOf(id))' = Len(new)
  <2>1. Cardinality(TurnsOf(id))' = c + 1
    BY <1>3, <1>5, <1>9
  <2>2. Len(old) = 2 * c
    BY <1>6
  <2> HIDE DEF c, old, new
  <2>3. QED
    BY <1>8, <1>11, <2>1, <2>2
<1>13. IsFiniteSet(TurnsOf(id))'
  BY <1>5, <1>9
<1>14. QED
  <2> HIDE DEF new
  <2>1. QED
    BY <1>4, <1>10, <1>12, <1>13 DEF WholeOf

\* What a step does to one session.
LEMMA TranscriptSteps ==
    ASSUME Types, [Next]_vars, NEW id \in SessionIds
    PROVE  \/ sessions'[id] = sessions[id]
           \/ sessions'[id] = None \/ sessions'[id].messages = <<>>
           \/ \E r \in Requests :
                /\ Keep(r) /\ id = request[r].id
                /\ AddMessages(id, <<Message(r, "user"), Message(r, "assistant")>>)
<1> USE DEF sessionVars, usageVars, historyVars
<1>1. SessionsOK
  BY DEF Types
<1>2. ASSUME NEW r \in Requests, Keep(r), id = request[r].id
      PROVE  \/ sessions'[id] = sessions[id]
             \/ AddMessages(id, <<Message(r, "user"), Message(r, "assistant")>>)
  BY <1>2 DEF Keep
<1>3. ASSUME NEW r \in Requests, Keep(r), id # request[r].id
      PROVE  sessions'[id] = sessions[id]
  <2>1. \/ sessions' = sessions
        \/ AddMessages(request[r].id, <<Message(r, "user"), Message(r, "assistant")>>)
    BY <1>3 DEF Keep
  <2>2. QED
    BY <1>1, <1>3, <2>1 DEF AddMessages, SessionsOK
<1>4. ASSUME NEW r \in Requests, GetSession(r)
      PROVE  sessions'[id] = sessions[id] \/ sessions'[id].messages = <<>>
  <2>1. \/ sessions'[id] = sessions[id]
        \/ sessions'[id] = [key |-> request[r].key, messages |-> <<>>]
    BY <1>1, <1>4 DEF GetSession, GetOrCreateSession, SessionsOK
  <2>2. QED
    BY <2>1
<1>5. ASSUME NEW i \in SessionIds, Delete(i)
      PROVE  sessions'[id] = sessions[id] \/ sessions'[id] = None
  BY <1>1, <1>5, DeleteTyped DEF Delete
<1>6. ASSUME NEW r \in Requests, Answer(r), ~GetSession(r), ~Keep(r) PROVE sessions' = sessions
  BY <1>6 DEF Answer, CheckPolicies, Build, Generated, Retry, FallBack, OpenStream, Read,
              StreamDone, RecordUsage
<1>7. ASSUME NEW r \in Requests, Post(r) \/ Produce(r) \/ ClientLeaves(r)
      PROVE  sessions' = sessions
  BY <1>7, PostIs, ProduceIs, OtherStepsAre
<1>8. ASSUME NEW e \in pending, Bill(e) PROVE sessions' = sessions
  BY <1>8 DEF Bill
<1>9. CASE UNCHANGED vars
  BY <1>9 DEF vars
<1>10. QED
  BY <1>2, <1>3, <1>4, <1>5, <1>6, <1>7, <1>8, <1>9 DEF Next

LEMMA NextWhole == Types /\ TurnsApart /\ TranscriptsWhole /\ [Next]_vars => TranscriptsWhole'
<1> SUFFICES ASSUME Types, TurnsApart, TranscriptsWhole, [Next]_vars, NEW id \in SessionIds
             PROVE  WholeOf(id)'
  BY DEF TranscriptsWhole, WholeTurns, WholeOf, Paired, Other
<1>1. WholeOf(id)
  BY WholeIs
<1>2. ASSUME NEW r \in Requests, Keep(r), id = request[r].id,
             AddMessages(id, <<Message(r, "user"), Message(r, "assistant")>>)
      PROVE  WholeOf(id)'
  BY <1>1, <1>2, KeepWhole DEF Keep
<1>3. QED
  BY <1>1, <1>2, TranscriptSteps, WholeSame, EmptyWhole

(* A transcript is a sequence of whole turns, no turn twice, however the   *)
(* requests of a session interleave, and through its deletion.             *)
THEOREM WholeTurnsHolds == Spec => []WholeTurns
<1>1. Init => TurnsApart /\ TranscriptsWhole
  <2> SUFFICES ASSUME Init PROVE TurnsApart /\ \A id \in SessionIds : WholeOf(id)
    BY WholeIs
  <2>1. \A id \in SessionIds : ~Exists(id) /\ TurnsOf(id) = {}
    BY InitTurns DEF Init, SessionsInit, Exists
  <2>2. QED
    BY <2>1, InitTurns, FS_EmptySet DEF WholeOf
<1>2. Types /\ TurnsApart /\ [Next]_vars => TurnsApart'
  BY NextTurns
<1>3. TranscriptsWhole => WholeTurns
  BY DEF TranscriptsWhole
<1>4. QED
  BY Typed, <1>1, <1>2, <1>3, NextWhole, PTL DEF Spec

-----------------------------------------------------------------------------
(* Answers that failed *)

LEMMA EndSame ==
    ASSUME NEW r \in Requests, EndIsKnown(r), producer'[r] = producer[r],
           request'[r].at = request[r].at, request'[r].end = request[r].end,
           request[r].gone => request'[r].gone
    PROVE  EndIsKnown(r)'
BY DEF EndIsKnown, At

LEMMA ReadEnd ==
    ASSUME Types, NEW r \in Requests, EndIsKnown(r), Answer(r), Read(r)
    PROVE  EndIsKnown(r)'
<1> DEFINE chan == producer[r].chan
           rest == Tail(chan)
<1>1. /\ producer \in [Requests -> Producer] /\ producer[r] \in Producer
      /\ chan # <<>> /\ producer' = [producer EXCEPT ![r].chan = Tail(@)]
      /\ At(r, "stream")
  BY DEF Types, ProducersOK, Read
<1>2. /\ producer'[r].chan = rest /\ producer'[r].at = producer[r].at
      /\ producer'[r].cut = producer[r].cut /\ chan \in Seq(Chunks)
  BY <1>1 DEF Producer
<1>3. ASSUME Head(chan) = "word", Ended(chan) PROVE Ended(rest)
  <2>1. chan # <<>> /\ chan[Len(chan)] # "word"
    BY <1>1, <1>3 DEF Ended
  <2> HIDE DEF chan
  <2>2. /\ Len(chan) \in Nat \ {0} /\ Head(chan) = chan[1]
        /\ Tail(chan) = <<>> <=> Len(chan) = 1
        /\ Tail(chan) # <<>> => Tail(chan)[Len(Tail(chan))] = chan[Len(chan)]
    BY <1>2, <2>1, TailIs
  <2>3. Len(chan) # 1
    BY <1>3, <2>1, <2>2
  <2>4. QED
    BY <2>1, <2>2, <2>3 DEF Ended
<1> HIDE DEF rest
<1>4. CASE request'[r] = Idle
  BY <1>4, IdleIs DEF EndIsKnown, At
<1>5. CASE Head(chan) = "word" /\ request'[r] # Idle
  <2>1. /\ request'[r].at = "stream" /\ request'[r].end = request[r].end
        /\ request'[r].gone = request[r].gone
    BY <1>5, AnswerIs DEF Stays
  <2>2. producer[r].at = "closed" =>
          request[r].end = "finish" \/ producer[r].cut \/ request[r].gone \/ Ended(chan)
    BY <1>1 DEF EndIsKnown
  <2>3. Ended(chan) => Ended(rest)
    BY <1>3, <1>5
  <2> HIDE DEF chan
  <2>4. QED
    BY <1>2, <2>1, <2>2, <2>3 DEF EndIsKnown, At
<1>6. CASE Head(chan) # "word" /\ request'[r] # Idle
  <2>1. request'[r].at = "stream" /\ request'[r].end = "finish"
    BY <1>6, AnswerIs DEF Stays
  <2>2. QED
    BY <2>1 DEF EndIsKnown, At
<1>7. QED
  BY <1>4, <1>5, <1>6

LEMMA AnswerEnd ==
    ASSUME Types, NEW r \in Requests, EndIsKnown(r), Answer(r)
    PROVE  EndIsKnown(r)'
<1>1. producer \in [Requests -> Producer]
  BY DEF Types, ProducersOK
<1>2. ASSUME request'[r].at \notin {"stream", "keep"} PROVE EndIsKnown(r)'
  BY <1>2 DEF EndIsKnown, At
<1>3. CASE CheckPolicies(r) \/ GetSession(r) \/ Build(r) \/ Retry(r) \/ FallBack(r) \/ Keep(r)
             \/ RecordUsage(r)
  <2>1. FallBack(r) => request[r].at \in {"generate", "open"}
    BY DEF FallBack, At
  <2>2. request'[r].at \notin {"stream", "keep"}
    BY <1>3, <2>1, AnswerIs, IdleIs DEF Stays
  <2>3. QED
    BY <1>2, <2>2
<1>4. CASE Generated(r)
  BY <1>4, AnswerIs DEF Stays, EndIsKnown, At
<1>5. CASE OpenStream(r)
  <2>1. producer'[r].at = "check"
    BY <1>1, <1>5 DEF OpenStream, NoStream
  <2>2. request'[r].at = "stream"
    BY <1>5, AnswerIs DEF Stays
  <2>3. QED
    BY <2>1, <2>2 DEF EndIsKnown, At
<1>6. CASE Read(r)
  BY <1>6, ReadEnd
<1>7. CASE StreamDone(r)
  <2>1. /\ At(r, "stream") /\ producer[r].at = "closed" /\ producer[r].chan = <<>>
        /\ request'[r].at = "keep"
    BY <1>7, AnswerIs DEF StreamDone, Stays
  <2>2. request[r].end = "finish" \/ producer[r].cut \/ request[r].gone
    BY <2>1 DEF EndIsKnown, Ended
  <2>3. request'[r].end = (IF request[r].end = "finish" THEN "finish"
                           ELSE IF producer[r].cut THEN "cut"
                           ELSE IF request[r].gone THEN "left" ELSE "error")
    BY <1>7, AnswerIs
  <2>4. request'[r].end # "error"
    BY <2>2, <2>3
  <2>5. QED
    BY <2>1, <2>4 DEF EndIsKnown, At
<1>8. QED
  BY <1>3, <1>4, <1>5, <1>6, <1>7 DEF Answer

LEMMA ProduceEnd ==
    ASSUME Types, NEW r \in Requests, EndIsKnown(r), Produce(r)
    PROVE  EndIsKnown(r)'
<1>1. /\ request' = request /\ producer[r].at # "closed" /\ producer[r].chan \in Seq(Chunks)
  BY ProduceIs DEF Types, ProducersOK, Producer
<1>2. At(r, "keep") => request[r].end # "error"
  BY DEF EndIsKnown
<1>3. producer'[r].at = "closed" =>
        Cancelled(r) \/ producer'[r].cut \/ Ended(producer'[r].chan)
  <2>1. ASSUME NEW end \in {"finish", "error"},
               producer'[r].chan = Append(producer[r].chan, end)
        PROVE  Ended(producer'[r].chan)
    BY <1>1, <2>1, AppendIs DEF Chunks
  <2>2. QED
    BY <2>1, ProduceIs
<1>4. Cancelled(r) /\ At(r, "stream") => request[r].gone
  BY DEF Cancelled, At
<1>5. QED
  BY <1>1, <1>2, <1>3, <1>4 DEF EndIsKnown, At

LEMMA NextEnd ==
    Types /\ (\A r \in Requests : EndIsKnown(r)) /\ [Next]_vars
      => \A r \in Requests : EndIsKnown(r)'
<1> SUFFICES ASSUME Types, \A r \in Requests : EndIsKnown(r), [Next]_vars,
                    NEW q \in Requests
             PROVE  EndIsKnown(q)'
  OBVIOUS
<1> USE DEF sessionVars, usageVars, historyVars
<1>1. /\ request \in [Requests -> Request] /\ producer \in [Requests -> Producer]
  BY DEF Types, RequestsOK, ProducersOK
<1>2. ASSUME NEW r \in Requests, Post(r) PROVE EndIsKnown(q)'
  <2>1. CASE q = r
    BY <1>2, <2>1, PostIs DEF EndIsKnown, At
  <2>2. CASE q # r
    <3>1. request'[q] = request[q] /\ producer' = producer
      BY <1>1, <1>2, <2>2, PostIs
    <3>2. QED
      BY <3>1, EndSame
  <2>3. QED
    BY <2>1, <2>2
<1>3. ASSUME NEW r \in Requests, Answer(r) PROVE EndIsKnown(q)'
  <2>1. CASE q = r
    BY <1>3, <2>1, AnswerEnd
  <2>2. CASE q # r
    <3>1. Same(q)
      BY <1>3, <2>2, OthersStay
    <3>2. producer'[q] = producer[q]
      BY <1>1, <1>3, <2>2 DEF Answer, CheckPolicies, GetSession, Build, Generated, Retry,
          FallBack, OpenStream, Read, StreamDone, Keep, RecordUsage
    <3>3. QED
      BY <3>1, <3>2, EndSame DEF Same
  <2>3. QED
    BY <2>1, <2>2
<1>4. ASSUME NEW r \in Requests, Produce(r) PROVE EndIsKnown(q)'
  <2>1. CASE q = r
    BY <1>4, <2>1, ProduceEnd
  <2>2. CASE q # r
    <3>1. request' = request /\ producer'[q] = producer[q]
      BY <1>1, <1>4, <2>2, ProduceIs
    <3>2. QED
      BY <3>1, EndSame
  <2>3. QED
    BY <2>1, <2>2
<1>5. ASSUME NEW r \in Requests, ClientLeaves(r) PROVE EndIsKnown(q)'
  <2>1. /\ producer' = producer /\ request'[q].at = request[q].at
        /\ request'[q].end = request[q].end /\ (request[q].gone => request'[q].gone)
    BY <1>5, OtherStepsAre DEF Stays, Same
  <2>2. QED
    BY <2>1, EndSame
<1>6. ASSUME NEW e \in pending, Bill(e) PROVE EndIsKnown(q)'
  BY <1>6, OtherStepsAre, EndSame
<1>7. ASSUME NEW id \in SessionIds, Delete(id) PROVE EndIsKnown(q)'
  <2>1. producer' = producer /\ Same(q)
    BY <1>7, OtherStepsAre
  <2>2. QED
    BY <2>1, EndSame DEF Same
<1>8. CASE UNCHANGED vars
  BY <1>8, EndSame DEF vars
<1>9. QED
  BY <1>2, <1>3, <1>4, <1>5, <1>6, <1>7, <1>8 DEF Next

\* No message of a session is of an answer that failed.
NoneFailed(id) ==
    Exists(id) => \A i \in DOMAIN sessions[id].messages : sessions[id].messages[i].end # "error"

LEMMA KeepNoneFailed ==
    ASSUME Types, NEW r \in Requests, Keep(r), EndIsKnown(r),
           NEW id \in SessionIds, id = request[r].id, NoneFailed(id),
           AddMessages(id, <<Message(r, "user"), Message(r, "assistant")>>)
    PROVE  NoneFailed(id)'
<1> DEFINE m == Message(r, "user")
           n == Message(r, "assistant")
           old == sessions[id].messages
           new == old \o <<m, n>>
<1>1. /\ At(r, "keep") /\ ~At(r, "idle") /\ AddMessages(id, <<m, n>>)
  BY DEF Keep, At
<1>2. /\ m \in Entry /\ n \in Entry /\ m.end # "error" /\ n.end # "error"
  BY <1>1, MessageTyped DEF Types, Message, EndIsKnown
<1>3. Exists(id)
  BY <1>1 DEF AddMessages
<1> HIDE DEF m, n
<1>4. <<m, n>> \in Seq(Entry)
  BY <1>2
<1>5. sessions'[id].messages = new /\ sessions[id] \in Session
  <2>1. sessions'[id] = [key |-> sessions[id].key, messages |-> new] /\ sessions[id] \in Session
    BY <1>1, <1>4, AddTyped DEF Types
  <2> HIDE DEF new
  <2>2. QED
    BY <2>1
<1>6. old \in Seq(Entry)
  BY <1>5 DEF Session
<1>7. /\ Len(old) \in Nat /\ DOMAIN old = 1 .. Len(old) /\ DOMAIN new = 1 .. Len(old) + 2
      /\ \A i \in 1 .. Len(old) : new[i] = old[i]
      /\ new[Len(old) + 1] = m /\ new[Len(old) + 2] = n
  <2> HIDE DEF old
  <2>1. QED
    BY <1>2, <1>6, PairIs
<1>8. \A i \in DOMAIN old : old[i].end # "error"
  BY <1>3 DEF NoneFailed
<1> HIDE DEF old, new
<1>9. \A i \in DOMAIN new : i \in DOMAIN old \/ i = Len(old) + 1 \/ i = Len(old) + 2
  BY <1>7
<1>10. \A i \in DOMAIN new : new[i].end # "error"
  BY <1>2, <1>7, <1>8, <1>9
<1>11. QED
  BY <1>5, <1>10 DEF NoneFailed

(* An answer cut short by a provider's error is not kept.                  *)
THEOREM NoFailedAnswerKeptHolds == Spec => []NoFailedAnswerKept
<1>1. Init => FailuresLeave
  <2> SUFFICES ASSUME Init PROVE FailuresLeave
    OBVIOUS
  <2>1. \A id \in SessionIds : ~Exists(id)
    BY DEF Init, SessionsInit, Exists
  <2>2. \A r \in Requests : request[r].at = "idle"
    BY IdleIs DEF Init
  <2>3. QED
    BY <2>1, <2>2 DEF FailuresLeave, NoFailedAnswerKept, EndIsKnown, At
<1>2. Types /\ FailuresLeave /\ [Next]_vars => FailuresLeave'
  <2> SUFFICES ASSUME Types, FailuresLeave, [Next]_vars PROVE FailuresLeave'
    OBVIOUS
  <2>1. \A r \in Requests : EndIsKnown(r)'
    BY NextEnd DEF FailuresLeave
  <2>2. ASSUME NEW id \in SessionIds PROVE NoneFailed(id)'
    <3>1. NoneFailed(id)
      BY DEF FailuresLeave, NoFailedAnswerKept, NoneFailed
    <3>2. ASSUME sessions'[id] = sessions[id] PROVE NoneFailed(id)'
      BY <3>1, <3>2 DEF NoneFailed, Exists
    <3>3. ASSUME sessions'[id] = None \/ sessions'[id].messages = <<>> PROVE NoneFailed(id)'
      <4>1. DOMAIN <<>> = {}
        OBVIOUS
      <4>2. QED
        BY <3>3, <4>1 DEF NoneFailed, Exists
    <3>4. ASSUME NEW r \in Requests, Keep(r), id = request[r].id,
                 AddMessages(id, <<Message(r, "user"), Message(r, "assistant")>>)
          PROVE  NoneFailed(id)'
      BY <3>1, <3>4, KeepNoneFailed DEF FailuresLeave
    <3>5. QED
      BY <3>2, <3>3, <3>4, TranscriptSteps
  <2>3. QED
    BY <2>1, <2>2 DEF FailuresLeave, NoFailedAnswerKept, NoneFailed
<1>3. FailuresLeave => NoFailedAnswerKept
  BY DEF FailuresLeave
<1>4. QED
  BY Typed, <1>1, <1>2, <1>3, PTL DEF Spec

-----------------------------------------------------------------------------
(* What a client was answered                                              *)

Covered(id) == TurnsOf(id) \cup KeepingIn(id)

LEMMA KeptIs ==
    AnsweredIsKept <=>
      /\ \A id \in SessionIds : delivered[id] \subseteq Covered(id)
      /\ \A r \in Requests : request[r].at \in {"policies", "session", "build"} =>
            request[r].told \subseteq Covered(request[r].id)
      /\ \A r \in Requests : request[r].missed = {}
BY DEF AnsweredIsKept, Remembers, Covered

LEMMA KeepingStays ==
    ASSUME NEW id \in SessionIds, NEW t \in KeepingIn(id), NEW r \in Requests,
           \A q \in Requests \ {r} : /\ request'[q].at = request[q].at
                                     /\ request'[q].turn = request[q].turn
                                     /\ request'[q].id = request[q].id
    PROVE  \/ t \in KeepingIn(id)'
           \/ At(r, "keep") /\ request[r].id = id /\ request[r].turn = t
<1>1. PICK q \in Requests : At(q, "keep") /\ request[q].id = id /\ t = request[q].turn
  BY DEF KeepingIn
<1>2. CASE q # r
  <2>1. request'[q].at = "keep" /\ request'[q].id = id /\ t = request'[q].turn
    BY <1>1, <1>2 DEF At
  <2>2. QED
    BY <2>1 DEF KeepingIn, At
<1>3. QED
  BY <1>1, <1>2

\* A handler keeps what it was about to keep, unless the session is gone.
LEMMA CoveredStays ==
    ASSUME Types, NEW r \in Requests, Answer(r), NEW id \in SessionIds, NEW t \in Covered(id)
    PROVE  \/ t \in Covered(id)'
           \/ Keep(r) /\ ~Exists(id) /\ id = request[r].id /\ t = request[r].turn
<1>1. \A q \in Requests \ {r} : /\ request'[q].at = request[q].at
                                /\ request'[q].turn = request[q].turn
                                /\ request'[q].id = request[q].id
  BY OthersStay DEF Same
<1>2. CASE t \in TurnsOf(id)
  <2>1. TurnsOf(id) \subseteq TurnsOf(id)'
    BY AnswerTurns
  <2>2. QED
    BY <1>2, <2>1 DEF Covered
<1>3. CASE t \in KeepingIn(id) /\ ~Keep(r)
  <2>1. ~At(r, "keep")
    BY <1>3 DEF Answer, At, CheckPolicies, GetSession, Build, Generated, Retry, FallBack,
                OpenStream, Read, StreamDone, RecordUsage
  <2>2. t \in KeepingIn(id)'
    BY <1>1, <1>3, <2>1, KeepingStays
  <2>3. QED
    BY <2>2 DEF Covered
<1>4. CASE t \in KeepingIn(id) /\ Keep(r)
  <2>1. CASE t \in KeepingIn(id)'
    BY <2>1 DEF Covered
  <2>2. CASE t \notin KeepingIn(id)'
    <3>1. request[r].id = id /\ request[r].turn = t
      BY <1>1, <1>4, <2>2, KeepingStays
    <3>2. Exists(id) => TurnsOf(id)' = TurnsOf(id) \cup {request[r].turn}
      BY <1>4, <3>1, AnswerTurns
    <3>3. QED
      BY <1>4, <3>1, <3>2 DEF Covered
  <2>3. QED
    BY <2>1, <2>2
<1>5. QED
  BY <1>2, <1>3, <1>4 DEF Covered

LEMMA AnswerKept ==
    ASSUME Types, AnsweredIsKept, NEW r \in Requests, Answer(r)
    PROVE  AnsweredIsKept'
<1> USE DEF sessionVars, usageVars, historyVars
<1>1. /\ \A id \in SessionIds : delivered[id] \subseteq Covered(id)
      /\ \A q \in Requests : request[q].at \in {"policies", "session", "build"} =>
            request[q].told \subseteq Covered(request[q].id)
      /\ \A q \in Requests : request[q].missed = {}
      /\ delivered \in [SessionIds -> SUBSET Turns]
  BY KeptIs DEF Types, UsageOK
<1>2. ~At(r, "idle") /\ request[r].id \in SessionIds
  <2>1. ~At(r, "idle")
    BY AnswerTurns
  <2>2. QED
    BY <2>1 DEF Types, RequestsOK
<1> DEFINE Fails == Keep(r) /\ ~Exists(request[r].id)
<1>3. ASSUME NEW id \in SessionIds, NEW t \in Covered(id),
             ~ (Fails /\ id = request[r].id /\ t = request[r].turn)
      PROVE  t \in Covered(id)'
  BY <1>3, CoveredStays
<1>4. ASSUME NEW id \in SessionIds, NEW t \in delivered'[id] PROVE t \in Covered(id)'
  <2>1. CASE Fails
    <3>1. delivered' = [delivered EXCEPT ![request[r].id] = @ \ {request[r].turn}]
      BY <2>1 DEF Keep, AddMessages
    <3>2. t \in delivered[id] /\ (id = request[r].id => t # request[r].turn)
      BY <1>1, <1>2, <1>4, <3>1
    <3>3. QED
      BY <1>1, <1>3, <3>2
  <2>2. CASE StreamDone(r)
    <3>1. t \in delivered[id] \/ (id = request[r].id /\ t = request[r].turn)
      BY <1>1, <1>2, <1>4, <2>2 DEF StreamDone
    <3>2. request'[r].at = "keep" /\ request'[r].id = request[r].id
          /\ request'[r].turn = request[r].turn
      BY <2>2, AnswerIs DEF Stays
    <3>3. id = request[r].id /\ t = request[r].turn => t \in KeepingIn(id)'
      BY <3>2 DEF KeepingIn, At
    <3>4. ~Fails
      BY <2>2 DEF StreamDone, Keep, At
    <3>5. QED
      BY <1>1, <1>3, <3>1, <3>3, <3>4 DEF Covered
  <2>3. CASE RecordUsage(r)
    <3>1. t \in delivered[id] \/ t \in TurnsOf(id)
      BY <1>1, <1>2, <1>4, <2>3 DEF RecordUsage
    <3>2. ~Fails
      BY <2>3 DEF RecordUsage, Keep, At
    <3>3. t \in Covered(id)
      BY <1>1, <3>1 DEF Covered
    <3>4. QED
      BY <1>3, <3>2, <3>3
  <2>4. CASE ~Fails /\ ~StreamDone(r) /\ ~RecordUsage(r)
    <3>1. delivered' = delivered
      BY <2>4 DEF Answer, CheckPolicies, GetSession, Build, Generated, Retry, FallBack,
                  OpenStream, Read, Keep, AddMessages
    <3>2. QED
      BY <1>1, <1>3, <1>4, <2>4, <3>1
  <2>5. QED
    BY <2>1, <2>2, <2>3, <2>4
<1>5. ASSUME NEW q \in Requests, request'[q].at \in {"policies", "session", "build"},
             NEW id \in SessionIds, id = request'[q].id, NEW t \in request'[q].told
      PROVE  t \in Covered(id)'
  <2>1. CASE q # r
    <3>1. /\ request[q].at \in {"policies", "session", "build"} /\ id = request[q].id
          /\ t \in request[q].told /\ (Fails => t # request[r].turn)
      BY <1>5, <2>1, OthersStay DEF Same
    <3>2. QED
      BY <1>1, <1>3, <3>1
  <2>2. CASE q = r
    <3>1. CheckPolicies(r) \/ GetSession(r)
      <4>1. FallBack(r) => request[r].at \in {"generate", "open"}
        BY DEF FallBack, At
      <4>2. QED
        BY <1>5, <2>2, <4>1, AnswerIs, IdleIs DEF Answer, Stays
    <3>2. /\ request[r].at \in {"policies", "session", "build"} /\ ~Fails
          /\ id = request[r].id /\ t \in request[r].told
      BY <1>5, <2>2, <3>1, AnswerIs, IdleIs DEF Stays, CheckPolicies, GetSession, Keep, At
    <3>3. QED
      BY <1>1, <1>3, <3>2
  <2>3. QED
    BY <2>1, <2>2
<1>6. ASSUME NEW q \in Requests PROVE request'[q].missed = {}
  <2>1. CASE q # r
    BY <1>1, <2>1, OthersStay DEF Same
  <2>2. CASE q = r /\ Build(r)
    <3>1. request'[r].missed = (request[r].told \ TurnsOf(request[r].id)) \ Keeping
      BY <2>2, AnswerIs
    <3>2. request[r].told \subseteq TurnsOf(request[r].id) \cup KeepingIn(request[r].id)
      BY <1>1, <2>2 DEF Build, At, Covered
    <3>3. KeepingIn(request[r].id) \subseteq Keeping
      BY DEF KeepingIn, Keeping
    <3>4. QED
      BY <2>2, <3>1, <3>2, <3>3
  <2>3. CASE q = r /\ ~Build(r)
    BY <1>1, <2>3, AnswerIs, IdleIs DEF Answer
  <2>4. QED
    BY <2>1, <2>2, <2>3
<1>7. ASSUME NEW q \in Requests, request'[q].at \in {"policies", "session", "build"}
      PROVE  request'[q].id \in SessionIds
  <2>1. CASE q # r
    BY <1>7, <2>1, OthersStay DEF Same, Types, RequestsOK, At
  <2>2. CASE q = r
    <3>1. request'[r].at = "idle" \/ request'[r].id = request[r].id
      BY AnswerIs, IdleIs DEF Answer, Stays
    <3>2. QED
      BY <1>2, <1>7, <2>2, <3>1
  <2>3. QED
    BY <2>1, <2>2
<1>8. QED
  BY <1>4, <1>5, <1>6, <1>7 DEF AnsweredIsKept, Remembers, Covered

LEMMA NextKept == Types /\ AnsweredIsKept /\ [Next]_vars => AnsweredIsKept'
<1> SUFFICES ASSUME Types, AnsweredIsKept, [Next]_vars PROVE AnsweredIsKept'
  OBVIOUS
<1> USE DEF sessionVars, usageVars, historyVars
<1>1. /\ \A id \in SessionIds : delivered[id] \subseteq Covered(id)
      /\ \A q \in Requests : request[q].at \in {"policies", "session", "build"} =>
            request[q].told \subseteq Covered(request[q].id)
      /\ \A q \in Requests : request[q].missed = {}
      /\ delivered \in [SessionIds -> SUBSET Turns]
      /\ request \in [Requests -> Request]
  BY KeptIs DEF Types, UsageOK, RequestsOK
<1>2. \A q \in Requests : request[q].at \in {"policies", "session", "build"} =>
        request[q].id \in SessionIds
  BY DEF Types, RequestsOK, At
<1>3. ASSUME NEW id \in SessionIds, sessions' = sessions,
             \A q \in Requests : At(q, "keep")' <=> At(q, "keep"),
             \A q \in Requests : At(q, "keep") => /\ request'[q].turn = request[q].turn
                                                  /\ request'[q].id = request[q].id
      PROVE  Covered(id)' = Covered(id)
  <2>1. TurnsOf(id)' = TurnsOf(id)
    BY <1>3 DEF TurnsOf, Exists
  <2>2. KeepingIn(id)' = KeepingIn(id)
    BY <1>3 DEF KeepingIn
  <2>3. QED
    BY <2>1, <2>2 DEF Covered
<1>4. ASSUME sessions' = sessions, delivered' = delivered,
             \A q \in Requests : /\ request'[q].at = request[q].at
                                 /\ request'[q].turn = request[q].turn
                                 /\ request'[q].id = request[q].id
                                 /\ request'[q].told = request[q].told
                                 /\ request'[q].missed = request[q].missed
      PROVE  AnsweredIsKept'
  <2>1. \A id \in SessionIds : Covered(id)' = Covered(id)
    BY <1>3, <1>4 DEF At
  <2>2. QED
    BY <1>1, <1>2, <1>4, <2>1 DEF AnsweredIsKept, Remembers, Covered
<1>5. ASSUME NEW r \in Requests, Post(r) PROVE AnsweredIsKept'
  <2>1. /\ \A q \in Requests \ {r} : request'[q] = request[q]
        /\ request[r].at = "idle" /\ request'[r].at = "policies"
        /\ request'[r].told = delivered[request'[r].id] /\ request'[r].missed = {}
        /\ request'[r].id \in SessionIds
        /\ UNCHANGED <<sessions, delivered>>
    BY <1>1, <1>5, PostIs DEF At
  <2>2. \A q \in Requests : /\ At(q, "keep")' <=> At(q, "keep")
                            /\ At(q, "keep") => request'[q] = request[q]
    BY <2>1 DEF At
  <2>3. \A id \in SessionIds : Covered(id)' = Covered(id)
    BY <1>3, <2>1, <2>2
  <2>4. ASSUME NEW q \in Requests, request'[q].at \in {"policies", "session", "build"},
               NEW id \in SessionIds, id = request'[q].id
        PROVE  request'[q].told \subseteq Covered(id)'
    <3>1. request'[q].told \subseteq Covered(id)
      BY <1>1, <2>1, <2>4
    <3>2. QED
      BY <2>3, <3>1
  <2>5. \A q \in Requests : request'[q].at \in {"policies", "session", "build"} =>
          request'[q].id \in SessionIds
    BY <1>2, <2>1
  <2>6. /\ \A id \in SessionIds : delivered'[id] \subseteq Covered(id)'
        /\ \A q \in Requests : request'[q].missed = {}
    BY <1>1, <2>1, <2>3
  <2>7. QED
    BY <2>4, <2>5, <2>6 DEF AnsweredIsKept, Remembers, Covered
<1>6. ASSUME NEW r \in Requests, Answer(r) PROVE AnsweredIsKept'
  BY <1>6, AnswerKept
<1>7. ASSUME NEW r \in Requests, Produce(r) PROVE AnsweredIsKept'
  BY <1>4, <1>7, ProduceIs
<1>8. ASSUME NEW r \in Requests, ClientLeaves(r) PROVE AnsweredIsKept'
  <2>1. UNCHANGED <<sessions, delivered>>
    BY <1>8, OtherStepsAre
  <2>2. \A q \in Requests : /\ request'[q].at = request[q].at
                            /\ request'[q].turn = request[q].turn
                            /\ request'[q].id = request[q].id
                            /\ request'[q].told = request[q].told
                            /\ request'[q].missed = request[q].missed
    BY <1>8, OtherStepsAre DEF Stays
  <2>3. QED
    BY <1>4, <2>1, <2>2
<1>9. ASSUME NEW e \in pending, Bill(e) PROVE AnsweredIsKept'
  BY <1>4, <1>9, OtherStepsAre
<1>10. ASSUME NEW i \in SessionIds, Delete(i) PROVE AnsweredIsKept'
  <2>1. \A q \in Requests :
          /\ request'[q].at = request[q].at /\ request'[q].turn = request[q].turn
          /\ request'[q].id = request[q].id /\ request'[q].missed = request[q].missed
          /\ request'[q].told = IF request[q].id = i THEN {} ELSE request[q].told
    BY <1>10, OtherStepsAre DEF Same
  <2>2. delivered' = [delivered EXCEPT ![i] = {}] /\ DeleteSession(i)
    BY <1>10 DEF Delete
  <2>3. ASSUME NEW id \in SessionIds, id # i PROVE Covered(id)' = Covered(id)
    <3>1. TurnsOf(id)' = TurnsOf(id)
      BY <2>2, <2>3, DeletedTurns DEF Types
    <3>2. KeepingIn(id)' = KeepingIn(id)
      BY <2>1 DEF KeepingIn, At
    <3>3. QED
      BY <3>1, <3>2 DEF Covered
  <2>4. ASSUME NEW id \in SessionIds PROVE delivered'[id] \subseteq Covered(id)'
    BY <1>1, <2>2, <2>3, <2>4
  <2>5. ASSUME NEW q \in Requests, request'[q].at \in {"policies", "session", "build"},
               NEW id \in SessionIds, id = request'[q].id
        PROVE  request'[q].told \subseteq Covered(id)'
    BY <1>1, <2>1, <2>3, <2>5
  <2>6. \A q \in Requests : request'[q].at \in {"policies", "session", "build"} =>
          request'[q].id \in SessionIds
    BY <1>2, <2>1
  <2>7. \A q \in Requests : request'[q].missed = {}
    BY <1>1, <2>1
  <2>8. QED
    BY <2>4, <2>5, <2>6, <2>7 DEF AnsweredIsKept, Remembers, Covered
<1>11. CASE UNCHANGED vars
  BY <1>4, <1>11 DEF vars
<1>12. QED
  BY <1>5, <1>6, <1>7, <1>8, <1>9, <1>10, <1>11 DEF Next

(* A request sees in the transcript every turn that its client had been    *)
(* answered when it was posted, but for one a handler is about to keep.    *)
THEOREM RemembersHolds == Spec => []Remembers
<1>1. Init => AnsweredIsKept
  <2> SUFFICES ASSUME Init PROVE AnsweredIsKept
    OBVIOUS
  <2>1. /\ \A r \in Requests : request[r].at = "idle" /\ request[r].missed = {}
        /\ \A id \in SessionIds : delivered[id] = {}
    BY IdleIs DEF Init
  <2>2. QED
    BY <2>1 DEF AnsweredIsKept, Remembers
<1>2. AnsweredIsKept => Remembers
  BY DEF AnsweredIsKept
<1>3. QED
  BY Typed, <1>1, <1>2, NextKept, PTL DEF Spec
=============================================================================
