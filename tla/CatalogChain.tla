---------------------------- MODULE CatalogChain ----------------------------
(***************************************************************************)
(* The tenant catalog: registration by the tenant service                  *)
(* (internal/modules/tenant/service.go) through the chain of layers        *)
(* (internal/kernel/catalog_chain.go) over its write-ahead log.  Layer 1   *)
(* is memory, the others are Redis and PostgreSQL in the order configured. *)
(*                                                                         *)
(* A service, a metric and a plan of a tenant are entities with an ID; the *)
(* service and the chain treat the three alike.  The references of a       *)
(* metric and of a plan are looked up before its ID; a lookup is a Get.    *)
(***************************************************************************)
EXTENDS CatalogWAL

CONSTANTS
    Ids,           \* entities, by ID
    Values,        \* descriptors
    Durable,       \* the layers after memory: 2..n
    Expiring,      \* those whose entries expire (Redis)
    Requests,      \* goroutines of HTTP requests
    None,
    MaxRestarts    \* bound

ASSUME ChainAssumption ==
    /\ Durable \subseteq Nat \ {0, 1} /\ IsFiniteSet(Durable)
    /\ Expiring \subseteq Durable
    /\ None \notin Values \cup Ids
    /\ MaxRestarts \in Nat

Layers == {1} \cup Durable

Entries == [layer : Durable, id : Ids, value : Values]

VARIABLES
    copy,        \* what each layer holds of each entity, or None
    up,          \* the durable layers that answer
    joined,      \* the durable layers that answered at start-up
    request,     \* the step each goroutine is at and what it knows
    answered,    \* history: entities registered in this process
    owed,        \* history: copies that a layer of the chain still has to get
    restarts     \* bound

historyVars == <<answered, owed, restarts>>
vars == <<walVars, copy, up, joined, request, historyVars>>

Chain == {1} \cup joined

\* The next layer in the chain, or 0.
After(i) ==
    LET rest == {j \in Chain : j > i}
    IN  IF rest = {} THEN 0 ELSE CHOOSE j \in rest : \A k \in rest : j <= k

Last == CHOOSE i \in Chain : \A j \in Chain : j <= i

Answers(i) == i = 1 \/ i \in up

Idle == [at |-> "idle", goal |-> "none", id |-> None, value |-> None,
         layer |-> 1, fills |-> {}, again |-> FALSE]

Init ==
    /\ WALInit
    /\ copy = [i \in Layers |-> [id \in Ids |-> None]]
    /\ up = Durable
    /\ joined = Durable
    /\ request = [r \in Requests |-> Idle]
    /\ answered = {}
    /\ owed = {}
    /\ restarts = 0

-----------------------------------------------------------------------------
At(r, step) == request[r].at = step

Become(r, record) == request' = [request EXCEPT ![r] = record]

\* GET .../{id}, and the lookup of a reference: a read through the chain.
BeginGet(r) ==
    /\ At(r, "idle")
    /\ \E id \in Ids : Become(r, [Idle EXCEPT !.at = "get", !.goal = "get", !.id = id])
    /\ UNCHANGED <<walVars, copy, up, joined, historyVars>>

\* POST: the ID is looked up, and must be free.
BeginRegister(r) ==
    /\ At(r, "idle")
    /\ \E id \in Ids, value \in Values :
         Become(r, [Idle EXCEPT !.at = "get", !.goal = "register", !.id = id,
                                !.value = value, !.again = id \in answered])
    /\ UNCHANGED <<walVars, copy, up, joined, historyVars>>

\* The chain's getters, a layer a step; the caller is answered with the entity,
\* or with a conflict.
Hit(r) ==
    LET req == request[r] i == req.layer
        fills == {[layer |-> j, id |-> req.id, value |-> copy[i][req.id]] :
                    j \in {k \in Chain : k < i}}
    IN  /\ At(r, "get")
        /\ Answers(i)
        /\ copy[i][req.id] # None
        /\ Become(r, IF fills = {} THEN Idle
                     ELSE [req EXCEPT !.at = "fill", !.fills = fills])
        /\ UNCHANGED <<walVars, copy, up, joined, historyVars>>

\* Mutant: the conflict check does not trust memory.
MissSkipsMemory(r) ==
    LET req == request[r] i == req.layer
    IN  /\ At(r, "get")
        /\ (Answers(i) /\ i # 1) => copy[i][req.id] = None
        /\ Become(r, IF After(i) # 0 THEN [req EXCEPT !.layer = After(i)]
                     ELSE IF req.goal = "register"
                       THEN [req EXCEPT !.at = "write", !.layer = 1]
                     ELSE Idle)
        /\ UNCHANGED <<walVars, copy, up, joined, historyVars>>

\* A layer in error counts as a miss; an ID that nobody has is free.
Miss(r) ==
    LET req == request[r] i == req.layer
    IN  /\ At(r, "get")
        /\ Answers(i) => copy[i][req.id] = None
        /\ Become(r, IF After(i) # 0 THEN [req EXCEPT !.layer = After(i)]
                     ELSE IF req.goal = "register"
                       THEN [req EXCEPT !.at = "write", !.layer = 1]
                     ELSE Idle)
        /\ UNCHANGED <<walVars, copy, up, joined, historyVars>>

\* The list getters read the last layer and warm all others with it.
BeginList(r) ==
    LET fills == {[layer |-> i, id |-> id, value |-> copy[Last][id]] :
                    i \in Chain \ {Last}, id \in {id \in Ids : copy[Last][id] # None}}
    IN  /\ At(r, "idle")
        /\ Answers(Last)
        /\ fills # {}
        /\ Become(r, [Idle EXCEPT !.at = "fill", !.fills = fills])
        /\ UNCHANGED <<walVars, copy, up, joined, historyVars>>

\* A faster layer is given what a slower one returned; errors are ignored.
Fill(r) ==
    LET req == request[r]
    IN  /\ At(r, "fill")
        /\ \E f \in req.fills :
             /\ \A g \in req.fills : f.id = g.id => f.layer <= g.layer
             /\ IF Answers(f.layer)
                  THEN copy' = [copy EXCEPT ![f.layer][f.id] = f.value]
                  ELSE UNCHANGED copy
             /\ Become(r, IF req.fills # {f} THEN [req EXCEPT !.fills = @ \ {f}]
                          ELSE Idle)
        /\ UNCHANGED <<walVars, up, joined, historyVars>>

Copy(req) == [layer |-> req.layer, id |-> req.id, value |-> req.value]

\* The next layer, or the answer: memory has the entity.
Onward(r) ==
    LET req == request[r]
    IN  IF After(req.layer) # 0
        THEN /\ Become(r, [req EXCEPT !.at = "write", !.layer = After(req.layer)])
             /\ UNCHANGED answered
        ELSE /\ Become(r, Idle)
             /\ answered' = answered \cup {req.id}

\* The chain's writers, a layer a step, every layer whatever the others do.
WriteLayer(r) ==
    LET req == request[r]
    IN  /\ At(r, "write")
        /\ Answers(req.layer)
        /\ copy' = [copy EXCEPT ![req.layer][req.id] = req.value]
        /\ owed' = owed \ {Copy(req)}
        /\ Onward(r)
        /\ UNCHANGED <<walVars, up, joined, restarts>>

\* A failed call may have stored the entity (HSET done, EXPIRE failed).
WriteFails(r) ==
    LET req == request[r]
    IN  /\ At(r, "write")
        /\ ~Answers(req.layer)
        /\ copy' \in {copy, [copy EXCEPT ![req.layer][req.id] = req.value]}
        /\ Become(r, [req EXCEPT !.at = "log"])
        /\ owed' = owed \cup {Copy(req)}
        /\ UNCHANGED <<walVars, up, joined, answered, restarts>>

\* Mutant: a copy that could not be written is not logged.
SpillNothing(r) ==
    /\ At(r, "log")
    /\ Onward(r)
    /\ UNCHANGED <<walVars, copy, up, joined, owed, restarts>>

\* walAppend; its error is printed and forgotten.
Spill(r) ==
    /\ At(r, "log")
    /\ \/ WalAppend(Copy(request[r])) /\ UNCHANGED owed
       \/ WalAppendFails /\ owed' = owed \ {Copy(request[r])}
    /\ Onward(r)
    /\ UNCHANGED <<copy, up, joined, restarts>>

-----------------------------------------------------------------------------
\* replayWALEntry.
ReplayWrites ==
    LET e == Line
    IN  /\ Replaying
        /\ e.layer \in joined /\ Answers(e.layer)
        /\ Replayed(TRUE)
        /\ copy' = [copy EXCEPT ![e.layer][e.id] = e.value]
        /\ owed' = owed \ {e}
        /\ UNCHANGED <<up, joined, request, answered, restarts>>

ReplayFails ==
    LET e == Line
    IN  /\ Replaying
        /\ e.layer \in joined /\ ~Answers(e.layer)
        /\ Replayed(FALSE)
        /\ copy' \in {copy, [copy EXCEPT ![e.layer][e.id] = e.value]}
        /\ UNCHANGED <<up, joined, request, historyVars>>

\* "Backend no longer configured": the entry counts as replayed.
ReplayDiscards ==
    /\ Replaying
    /\ Line.layer \notin joined
    /\ Replayed(TRUE)
    /\ owed' = owed \ {Line}
    /\ UNCHANGED <<copy, up, joined, request, answered, restarts>>

LogStep == StartPass \/ SkipUnsealed \/ EndSegment
             \/ EndPass \/ LoopExits

Housekeeping ==
    \/ ReplayWrites \/ ReplayFails \/ ReplayDiscards
    \/ LogStep /\ UNCHANGED <<copy, up, joined, request, historyVars>>

Close == Stop /\ UNCHANGED <<copy, up, joined, request, historyVars>>

-----------------------------------------------------------------------------
LayerChanges(i) ==
    /\ up' = IF i \in up THEN up \ {i} ELSE up \cup {i}
    /\ UNCHANGED <<walVars, copy, joined, request, historyVars>>

\* A hash of Redis expires (ttl).
Expires(i) ==
    /\ \E id \in Ids : copy' = [copy EXCEPT ![i][id] = None]
    /\ UNCHANGED <<walVars, up, joined, request, historyVars>>

\* buildCatalogChain: a layer that does not answer now is left out for good.
Restart ==
    /\ restarts < MaxRestarts
    /\ restarts' = restarts + 1
    /\ Reopen
    /\ copy' = [copy EXCEPT ![1] = [id \in Ids |-> None]]
    /\ joined' = up
    /\ request' = [r \in Requests |-> Idle]
    /\ answered' = {}
    /\ owed' = owed \ {Copy(request[r]) : r \in {q \in Requests : At(q, "log")}}
    /\ UNCHANGED up

Serve(r) ==
    \/ BeginGet(r) \/ BeginRegister(r) \/ BeginList(r) \/ Hit(r) \/ Miss(r)
    \/ Fill(r) \/ WriteLayer(r) \/ WriteFails(r) \/ Spill(r)

Next ==
    \/ \E r \in Requests : Serve(r)
    \/ Housekeeping
    \/ Close
    \/ \E i \in Durable : LayerChanges(i)
    \/ \E i \in Expiring : Expires(i)
    \/ Restart

\* The ticker drives the replay loop.
Fairness == WF_vars(Housekeeping)

Spec == Init /\ [][Next]_vars /\ Fairness

-----------------------------------------------------------------------------
RequestState ==
    [at : {"idle", "get", "fill", "write", "log"},
     goal : {"none", "get", "register"},
     id : Ids \cup {None}, value : Values \cup {None},
     layer : Layers, fills : SUBSET [layer : Layers, id : Ids, value : Values],
     again : BOOLEAN]

\* The types of the catalog's state.
TypeOK ==
    /\ WALTypeOK(Entries)
    /\ copy \in [Layers -> [Ids -> Values \cup {None}]]
    /\ up \subseteq Durable
    /\ joined \subseteq Durable
    /\ \A r \in Requests : request[r] \in RequestState
    /\ answered \subseteq Ids
    /\ owed \subseteq Entries
    /\ restarts \in 0..MaxRestarts

\* A copy that a layer of the chain did not take is in the log, or about to be,
\* until the layer has it, through crashes and partial failures of the fan-out:
\* so a registration answered with success is durable.  But for a copy whose
\* append failed unnoticed, and an entry dropped because its layer was down at
\* start-up; the caller of one whose append a crash prevented had no answer.
NothingForgotten ==
    \A e \in owed :
        Logged(e) \/ \E r \in Requests : At(r, "log") /\ Copy(request[r]) = e

\* A registration of an ID that this process has already answered with success
\* is refused, whatever layers are down and whatever Redis has expired: the
\* conflict check precedes every write, and memory keeps what it was given.
DuplicateRefused ==
    \A r \in Requests : request[r].at \in {"write", "log"} => ~request[r].again

\* While the process runs and a layer of the chain stays up, what the log holds
\* for the layer reaches it: every pass seals the active segment first, so no entry
\* waits for the next failure.  (A segment left .active by a crash is not
\* reached: it is not Pending.)
Drains ==
    \A i \in Durable :
        <>[](i \in up \cap joined) =>
            []<>(stopped \/ \A e \in Entries :
                   e.layer = i /\ Pending(e) => copy[i][e.id] = e.value)
=============================================================================
