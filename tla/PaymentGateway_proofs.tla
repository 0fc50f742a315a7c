------------------------ MODULE PaymentGateway_proofs ------------------------
(***************************************************************************)
(* Proofs about PaymentGateway and the SubscriptionManager it extends, for *)
(* any plans, services, checkout sessions and concurrent requests, and any *)
(* number of restarts.                                                     *)
(***************************************************************************)
EXTENDS PaymentGateway, SequenceTheorems, TLAPS

USE ManagerAssumption, GatewayAssumption

-----------------------------------------------------------------------------
(* The contract, in memory and in the store                                *)

ContractOK ==
    /\ contract \in Contract \cup {None}
    /\ stored \in [Services -> Stored \cup {None}]
    /\ warm \subseteq {s \in Services : stored[s] # None}
    /\ apart \in BOOLEAN
    /\ chosen \in Plans \cup {None}
    /\ lost \in BOOLEAN
    /\ restarts \in 0..MaxRestarts

StoreInv == ContractOK /\ StoreFollows /\ PlanStands

\* No service loses the subscription it has.
StoreGrows == \A s \in Services : stored[s] # None => stored'[s] # None

LEMMA StatusTyped == \A state \in States : ToKernelStatus(state) \in Statuses
BY DEF States, Statuses, ToKernelStatus

LEMMA HydratedTyped == \A sub \in Stored : Hydrated(sub) \in Contract
BY DEF Stored, Statuses, Hydrated, FromKernelStatus, Contract, States

LEMMA RegisterStep ==
    ASSUME ContractOK, NEW service \in Services, NEW plan \in Plans,
           NEW status \in Statuses, Register(service, plan, status)
    PROVE  /\ stored' \in [Services -> Stored \cup {None}]
           /\ warm' \subseteq {s \in Services : stored'[s] # None}
           /\ stored'[service] = [plan |-> plan, status |-> status]
           /\ stored'[service] # None
           /\ \A s \in Services : s # service => stored'[s] = stored[s]
           /\ StoreGrows
<1>1. [plan |-> plan, status |-> status] \in Stored
  BY DEF Stored
<1>2. [plan |-> plan, status |-> status] # None
  BY <1>1
<1>3. \A s \in Services : stored'[s] = IF s = service
                             THEN [plan |-> plan, status |-> status] ELSE stored[s]
  BY DEF ContractOK, Register
<1>4. stored' \in [Services -> Stored \cup {None}]
  BY <1>1 DEF ContractOK, Register
<1>5. warm' \subseteq {s \in Services : stored'[s] # None}
  BY <1>2, <1>3 DEF ContractOK, Register
<1>6. QED
  BY <1>2, <1>3, <1>4, <1>5 DEF StoreGrows

LEMMA CreateStep ==
    ASSUME StoreInv, NEW plan \in Plans, NEW state \in States,
           CreateContract(plan, state)
    PROVE  StoreInv' /\ StoreGrows
<1>1. ToKernelStatus(state) \in Statuses
  BY StatusTyped
<1>2. /\ stored' \in [Services -> Stored \cup {None}]
      /\ warm' \subseteq {s \in Services : stored'[s] # None}
      /\ stored'[AI] = [plan |-> plan, status |-> ToKernelStatus(state)]
      /\ stored'[AI] # None
      /\ StoreGrows
  BY <1>1, RegisterStep DEF StoreInv, CreateContract
<1>3. ContractOK'
  BY <1>2 DEF StoreInv, ContractOK, CreateContract, Contract
<1>4. StoreFollows'
  BY <1>2 DEF CreateContract, StoreFollows
<1>5. PlanStands'
  BY <1>2 DEF CreateContract, PlanStands
<1>6. QED
  BY <1>2, <1>3, <1>4, <1>5 DEF StoreInv

\* Current is a contract, the one in memory if there is one.
LEMMA CurrentTyped ==
    ASSUME ContractOK
    PROVE  /\ Current \in Contract
           /\ contract # None => Current = contract
BY DEF ContractOK, Current, Contract, States

LEMMA TransitionStep ==
    ASSUME StoreInv, NEW event, FireTransition(event)
    PROVE  StoreInv' /\ StoreGrows
<1>1. CASE UNCHANGED contractVars
  BY <1>1 DEF StoreInv, ContractOK, StoreFollows, PlanStands, StoreGrows, contractVars
<1>2. CASE \E next \in States :
             /\ contract' = [Current EXCEPT !.state = next]
             /\ Register(AI, Current.plan, ToKernelStatus(next))
             /\ apart' = FALSE
             /\ lost' = (lost \/ apart \/ contract = None)
             /\ UNCHANGED <<chosen, restarts>>
  <2>1. PICK next \in States :
             /\ contract' = [Current EXCEPT !.state = next]
             /\ Register(AI, Current.plan, ToKernelStatus(next))
             /\ apart' = FALSE
             /\ lost' = (lost \/ apart \/ contract = None)
             /\ UNCHANGED <<chosen, restarts>>
    BY <1>2
  <2>2. Current \in Contract /\ Current.plan \in Plans /\ ToKernelStatus(next) \in Statuses
    BY CurrentTyped, StatusTyped DEF StoreInv, Contract
  <2>3. /\ stored' \in [Services -> Stored \cup {None}]
        /\ warm' \subseteq {s \in Services : stored'[s] # None}
        /\ stored'[AI] = [plan |-> Current.plan, status |-> ToKernelStatus(next)]
        /\ stored'[AI] # None
        /\ StoreGrows
    BY <2>1, <2>2, RegisterStep DEF StoreInv
  <2>4. contract' \in Contract /\ contract'.plan = Current.plan /\ contract'.state = next
    BY <2>1, <2>2 DEF Contract
  <2>5. ContractOK'
    BY <2>1, <2>3, <2>4 DEF StoreInv, ContractOK
  <2>6. StoreFollows'
    BY <2>3, <2>4 DEF StoreFollows
  \* What is written back is the plan in memory, which was the store's.
  <2>7. PlanStands'
    <3>1. chosen' = chosen /\ (lost' <=> (lost \/ apart \/ contract = None))
      BY <2>1
    <3>2. stored'[AI].plan = Current.plan
      BY <2>3
    <3>3. chosen # None /\ ~lost /\ ~apart /\ contract # None => Current.plan = chosen
      BY CurrentTyped DEF StoreInv, StoreFollows, PlanStands
    <3>4. QED
      BY <2>3, <3>1, <3>2, <3>3 DEF PlanStands
  <2>8. QED
    BY <2>3, <2>5, <2>6, <2>7 DEF StoreInv
<1>3. QED
  BY <1>1, <1>2 DEF FireTransition


-----------------------------------------------------------------------------
(* What the requests know                                                  *)

\* A contract to fill in was read from a subscription the store has; what is
\* paid for is a plan.
Known(q, subs) ==
    /\ q \in RequestState
    /\ q.at = "fill" => /\ q.read \in [contract : Contract, service : Services]
                       /\ subs[q.read.service] # None
    /\ q.task = "pay" => q.arg \in Plans

RequestsOK ==
    /\ request \in [Requests -> RequestState]
    /\ \A r \in Requests : Known(request[r], stored)

GatewayOK ==
    /\ session \in [Sessions -> Sale \cup {None}]
    /\ ledger \in [Sessions -> Seq({"succeeded", "failed", "refunded"})]
    /\ paying \in [Requests -> Sessions \cup {None}]
    /\ granted \in Sessions \cup {None}
    /\ raced \subseteq Sessions

LEMMA RequestAt ==
    ASSUME RequestsOK, NEW r \in Requests
    PROVE  request[r] \in RequestState /\ Known(request[r], stored)
BY DEF RequestsOK

LEMMA RequestChanges ==
    ASSUME RequestsOK, StoreGrows, NEW r \in Requests, NEW q, Known(q, stored'),
           request' = [request EXCEPT ![r] = q]
    PROVE  RequestsOK'
<1>1. \A s \in Requests : request'[s] = IF s = r THEN q ELSE request[s]
  BY DEF RequestsOK
<1>2. q \in RequestState
  BY DEF Known
<1>3. request' \in [Requests -> RequestState]
  BY <1>2 DEF RequestsOK
<1>4. \A s \in Requests : Known(request[s], stored)
  BY DEF RequestsOK
<1>5. \A s \in Requests : s # r => Known(request'[s], stored')
  <2>1. SUFFICES ASSUME NEW s \in Requests, s # r PROVE Known(request'[s], stored')
    OBVIOUS
  <2>2. request'[s] = request[s]
    BY <1>1, <2>1
  <2>3. Known(request[s], stored)
    BY <1>4
  <2>4. request[s].at = "fill" => request[s].read.service \in Services
    BY <2>3 DEF Known, RequestState
  <2>5. QED
    BY <2>2, <2>3, <2>4 DEF Known, StoreGrows
<1>6. QED
  BY <1>1, <1>3, <1>5 DEF RequestsOK

LEMMA RequestsStay ==
    ASSUME RequestsOK, StoreGrows, UNCHANGED request
    PROVE  RequestsOK'
<1>1. \A s \in Requests : Known(request[s], stored)
  BY DEF RequestsOK
<1>2. \A s \in Requests : request[s].at = "fill" => request[s].read.service \in Services
  <2>1. SUFFICES ASSUME NEW s \in Requests, request[s].at = "fill"
                 PROVE  request[s].read.service \in Services
    OBVIOUS
  <2>2. QED
    BY <1>1, <2>1 DEF Known, RequestState
<1>3. QED
  BY <1>1, <1>2 DEF RequestsOK, Known, StoreGrows

LEMMA DoneStep ==
    ASSUME RequestsOK, StoreGrows, NEW r \in Requests, Done(r)
    PROVE  RequestsOK'
<1>1. Known(Idle, stored')
  BY DEF Known, Idle, RequestState
<1>2. QED
  BY <1>1, RequestChanges DEF Done


\* The store is left alone.
LEMMA StoreStays ==
    ASSUME StoreInv, UNCHANGED contractVars
    PROVE  StoreInv' /\ StoreGrows
BY DEF StoreInv, ContractOK, StoreFollows, PlanStands, StoreGrows, contractVars

LEMMA BeginStep ==
    ASSUME StoreInv, RequestsOK, NEW r \in Requests, NEW step \in {"look", "act"},
           NEW task \in {"view", "fire", "default", "pay"},
           NEW arg \in EventNames \cup Plans \cup {None},
           task = "pay" => arg \in Plans, Begin(r, step, task, arg)
    PROVE  StoreInv' /\ RequestsOK'
<1> DEFINE q == [Idle EXCEPT !.at = step, !.task = task, !.arg = arg]
<1>1. StoreInv' /\ StoreGrows
  <2>1. UNCHANGED contractVars
    BY DEF Begin
  <2>2. QED
    BY <2>1, StoreStays
<1>2. Idle \in RequestState
  BY DEF Idle, RequestState
<1>3. Known(q, stored')
  BY <1>2 DEF Known, RequestState
<1>4. request' = [request EXCEPT ![r] = q]
  BY DEF Begin
<1> HIDE DEF q
<1>5. QED
  BY <1>1, <1>3, <1>4, RequestChanges

LEMMA ReturnStep ==
    ASSUME StoreInv, RequestsOK, StoreGrows, NEW r \in Requests,
           NEW c \in Contract \cup {None}, Return(r, c)
    PROVE  RequestsOK'
<1>1. request[r] \in RequestState /\ Known(request[r], stored)
  BY RequestAt
<1>2. CASE request[r].task = "view"
  BY <1>2, DoneStep DEF Return
<1>3. CASE request[r].task # "view"
  <2> DEFINE plan == IF c = None THEN None ELSE c.plan
             q == [request[r] EXCEPT !.at = "act", !.read = None, !.plan = plan]
  <2>1. plan \in Plans \cup {None}
    BY DEF Contract
  <2>2. q \in RequestState /\ q.at = "act" /\ q.task = request[r].task /\ q.arg = request[r].arg
    <3> HIDE DEF plan
    <3>1. QED
      BY <1>1, <2>1 DEF RequestState
  <2>3. request' = [request EXCEPT ![r] = q]
    BY <1>3 DEF Return, RequestsOK
  <2> HIDE DEF q
  <2>4. Known(q, stored')
    BY <1>1, <2>2 DEF Known
  <2>5. QED
    BY <2>3, <2>4, RequestChanges
<1>4. QED
  BY <1>2, <1>3

\* A fill that is not late brings memory and store together.
LEMMA FillStep ==
    ASSUME StoreInv, RequestsOK, NEW r \in Requests, Fill(r)
    PROVE  StoreInv' /\ RequestsOK'
<1> DEFINE read == request[r].read
<1>1. /\ request[r] \in RequestState
      /\ read \in [contract : Contract, service : Services]
      /\ stored[read.service] # None
  BY RequestAt DEF Fill, At, Known
<1>2. read.contract \in Contract /\ read.service \in Services
  BY <1>1
<1>3. /\ contract' = read.contract /\ contract' \in Contract
      /\ apart' \in BOOLEAN /\ (apart' <=> (apart \/ Late(read)))
      /\ UNCHANGED <<stored, warm, chosen, lost, restarts>>
  BY <1>2 DEF Fill, Late, StoreInv, ContractOK
<1>4. ContractOK'
  BY <1>3 DEF StoreInv, ContractOK
<1>5. StoreFollows'
  <2>1. SUFFICES ASSUME ~apart' PROVE StoreFollows'
    BY DEF StoreFollows
  <2>2. read.service = AI /\ read.contract = Hydrated(stored[AI])
    BY <1>3, <2>1 DEF Late
  <2>3. stored[AI] # None /\ contract' = Hydrated(stored[AI])
    BY <1>1, <1>3, <2>2
  <2>4. Hydrated(stored[AI]).plan = stored[AI].plan
    BY DEF Hydrated
  <2>5. stored' = stored
    BY <1>3
  <2>6. QED
    BY <2>3, <2>4, <2>5 DEF StoreFollows
<1>6. PlanStands'
  BY <1>3 DEF StoreInv, PlanStands
<1>7. StoreGrows
  BY <1>3 DEF StoreGrows
<1>8. RequestsOK'
  BY <1>2, <1>7, ReturnStep DEF Fill
<1>9. QED
  BY <1>4, <1>5, <1>6, <1>8 DEF StoreInv

\* The default subscription, over a contract or not.
LEMMA RegisterDefaultStep ==
    ASSUME StoreInv, RequestsOK, NEW r \in Requests, RegisterDefault(r)
    PROVE  StoreInv' /\ RequestsOK'
<1>1. "default-ai-plan" \in Plans /\ "active" \in Statuses
  BY DEF Statuses
<1>2. /\ stored' \in [Services -> Stored \cup {None}]
      /\ warm' \subseteq {s \in Services : stored'[s] # None}
      /\ stored'[AI] # None
      /\ StoreGrows
  BY <1>1, RegisterStep DEF RegisterDefault, StoreInv
<1>3. /\ apart' \in BOOLEAN /\ (apart' <=> contract # None)
      /\ lost' \in BOOLEAN /\ (lost' <=> (lost \/ stored[AI] # None))
      /\ UNCHANGED <<contract, chosen, restarts>>
  BY DEF RegisterDefault, StoreInv, ContractOK
<1>4. ContractOK'
  BY <1>2, <1>3 DEF StoreInv, ContractOK
<1>5. StoreFollows'
  BY <1>3 DEF StoreFollows
<1>6. PlanStands'
  BY <1>3 DEF StoreInv, PlanStands
<1>7. RequestsOK'
  BY <1>2, DoneStep DEF RegisterDefault
<1>8. QED
  BY <1>4, <1>5, <1>6, <1>7 DEF StoreInv

\* A read of the store without the lock.
LEMMA ReadStoreStep ==
    ASSUME StoreInv, RequestsOK, NEW r \in Requests, ReadStore(r)
    PROVE  StoreInv' /\ RequestsOK'
<1>1. StoreInv' /\ StoreGrows
  BY StoreStays DEF ReadStore
<1>2. CASE Return(r, None)
  BY <1>1, <1>2, ReturnStep
<1>3. ASSUME NEW s \in FirstSubs,
             request' = [request EXCEPT ![r].at = "fill",
                 ![r].read = [contract |-> Hydrated(stored[s]), service |-> s]]
      PROVE  RequestsOK'
  <2> DEFINE read == [contract |-> Hydrated(stored[s]), service |-> s]
             q == [request[r] EXCEPT !.at = "fill", !.read = read]
  <2>1. s \in Services /\ stored[s] # None /\ stored[s] \in Stored
    BY DEF FirstSubs, StoreInv, ContractOK
  <2>2. read \in [contract : Contract, service : Services]
    BY <2>1, HydratedTyped
  <2>3. request[r] \in RequestState /\ Known(request[r], stored)
    BY RequestAt
  <2>4. read.service = s
    OBVIOUS
  <2>5. request' = [request EXCEPT ![r] = q]
    BY <1>3 DEF RequestsOK
  <2> HIDE DEF read
  <2>6. /\ q \in RequestState /\ q.read = read
        /\ q.task = request[r].task /\ q.arg = request[r].arg
    BY <2>2, <2>3 DEF RequestState
  <2> HIDE DEF q
  <2>7. Known(q, stored')
    BY <1>1, <2>1, <2>2, <2>3, <2>4, <2>6 DEF Known, StoreGrows
  <2>8. QED
    BY <1>1, <2>5, <2>7, RequestChanges
<1>4. QED
  BY <1>1, <1>2, <1>3 DEF ReadStore


LEMMA ManagerRequestStep ==
    ASSUME StoreInv, RequestsOK, NEW r \in Requests, ManagerRequest(r)
    PROVE  StoreInv' /\ RequestsOK'
<1>1. CASE View(r)
  BY <1>1, BeginStep DEF View
<1>2. CASE HandleFireEvent(r)
  <2>1. PICK event \in Fired : Begin(r, "look", "fire", event)
    BY <1>2 DEF HandleFireEvent
  <2>2. QED
    BY <2>1, BeginStep
<1>3. CASE Look(r)
  <2>1. UNCHANGED contractVars
    BY <1>3 DEF Look
  <2>2. StoreInv' /\ StoreGrows
    BY <2>1, StoreStays
  <2>3. CASE contract # None
    <3>1. Return(r, contract) /\ contract \in Contract
      BY <1>3, <2>3 DEF Look, StoreInv, ContractOK
    <3>2. QED
      BY <2>2, <3>1, ReturnStep
  <2>4. CASE contract = None
    <3> DEFINE q == [request[r] EXCEPT !.at = "read"]
    <3>1. request' = [request EXCEPT ![r] = q]
      BY <1>3, <2>4 DEF Look, MoveTo, RequestsOK
    <3>2. Known(q, stored')
      BY RequestAt DEF Known, RequestState
    <3> HIDE DEF q
    <3>3. QED
      BY <2>2, <3>1, <3>2, RequestChanges
  <2>5. QED
    BY <2>3, <2>4
<1>4. CASE ReadStore(r)
  BY <1>4, ReadStoreStep
<1>5. CASE Fill(r)
  BY <1>5, FillStep
<1>6. CASE Fire(r)
  BY <1>6, TransitionStep, DoneStep DEF Fire
<1>7. CASE CheckDefault(r)
  BY <1>7, BeginStep DEF CheckDefault
<1>8. CASE RegisterDefault(r)
  BY <1>8, RegisterDefaultStep
<1>9. QED
  BY <1>1, <1>2, <1>3, <1>4, <1>5, <1>6, <1>7, <1>8 DEF ManagerRequest

\* A subscription registered past the manager.
LEMMA ManagerWriteStep ==
    ASSUME StoreInv, RequestsOK, ManagerWrite
    PROVE  StoreInv' /\ RequestsOK'
<1>1. CASE HandleCreateContract
  <2>1. PICK c \in Contracts : CreateContract(c[1], c[2])
    BY <1>1 DEF HandleCreateContract
  <2>2. c[1] \in Plans /\ c[2] \in States
    OBVIOUS
  <2>3. StoreInv' /\ StoreGrows
    BY <2>1, <2>2, CreateStep
  <2>4. QED
    BY <1>1, <2>3, RequestsStay DEF HandleCreateContract
<1>2. CASE HandleRegisterSubscription
  <2>1. PICK c \in Registrations :
          /\ Register(c[1], c[2], c[3])
          /\ IF c[1] = AI
               THEN /\ apart' = (contract # None)
                    /\ chosen' = c[2]
                    /\ lost' = FALSE
               ELSE UNCHANGED <<apart, chosen, lost>>
    BY <1>2 DEF HandleRegisterSubscription
  <2>2. c[1] \in Services /\ c[2] \in Plans /\ c[3] \in Statuses
    OBVIOUS
  <2>3. UNCHANGED <<contract, request, restarts>>
    BY <1>2 DEF HandleRegisterSubscription
  <2>4. /\ stored' \in [Services -> Stored \cup {None}]
        /\ warm' \subseteq {s \in Services : stored'[s] # None}
        /\ stored'[c[1]] = [plan |-> c[2], status |-> c[3]]
        /\ stored'[c[1]] # None
        /\ \A s \in Services : s # c[1] => stored'[s] = stored[s]
        /\ StoreGrows
    BY <2>1, <2>2, RegisterStep DEF StoreInv
  <2>5. CASE c[1] = AI
    <3>1. apart' = (contract # None) /\ chosen' = c[2] /\ lost' = FALSE
      BY <2>1, <2>5
    <3>2. ContractOK'
      BY <2>2, <2>3, <2>4, <3>1 DEF StoreInv, ContractOK
    <3>3. StoreFollows'
      BY <2>3, <3>1 DEF StoreFollows
    <3>4. PlanStands'
      BY <2>4, <2>5, <3>1 DEF PlanStands
    <3>5. QED
      BY <2>3, <2>4, <3>2, <3>3, <3>4, RequestsStay DEF StoreInv
  <2>6. CASE c[1] # AI
    <3>1. UNCHANGED <<apart, chosen, lost>>
      BY <2>1, <2>6
    <3>2. stored'[AI] = stored[AI]
      BY <2>4, <2>6
    <3>3. ContractOK'
      BY <2>3, <2>4, <3>1 DEF StoreInv, ContractOK
    <3>4. StoreFollows'
      BY <2>3, <3>1, <3>2 DEF StoreInv, StoreFollows
    <3>5. PlanStands'
      BY <3>1, <3>2 DEF StoreInv, PlanStands
    <3>6. QED
      BY <2>3, <2>4, <3>3, <3>4, <3>5, RequestsStay DEF StoreInv
  <2>7. QED
    BY <2>5, <2>6
<1>3. QED
  BY <1>1, <1>2 DEF ManagerWrite

LEMMA RestartStep ==
    ASSUME StoreInv, RequestsOK, Restart
    PROVE  StoreInv' /\ RequestsOK'
<1>1. Seeded \in Contract \cup {None} /\ (Demo = None => Seeded = None)
  BY DEF Seeded, Contract, States
<1>2. ContractOK'
  BY <1>1 DEF Restart, StoreInv, ContractOK
<1>3. StoreFollows'
  BY <1>1 DEF Restart, StoreFollows
<1>4. PlanStands'
  BY DEF Restart, StoreInv, PlanStands
<1>5. RequestsOK'
  <2>1. Known(Idle, stored')
    BY DEF Known, Idle, RequestState
  <2>2. request' = [r \in Requests |-> Idle]
    BY DEF Restart
  <2>3. Idle \in RequestState
    BY DEF Idle, RequestState
  <2>4. QED
    BY <2>1, <2>2, <2>3 DEF RequestsOK
<1>6. QED
  BY <1>2, <1>3, <1>4, <1>5 DEF StoreInv


-----------------------------------------------------------------------------
(* Sessions and transactions                                               *)

LedgerInv == GatewayOK /\ LedgerMatches

LEMMA GatewayStays ==
    ASSUME LedgerInv, UNCHANGED <<session, ledger, paying, raced>>,
           granted' \in Sessions \cup {None}
    PROVE  LedgerInv'
BY DEF LedgerInv, GatewayOK, LedgerMatches, Open

\* An open session is settled once, as paid or as declined.
LEMMA SettleStep ==
    ASSUME LedgerInv, NEW s \in Sessions, NEW status \in {"succeeded", "failed"},
           Settle(s, status)
    PROVE  /\ session' \in [Sessions -> Sale \cup {None}]
           /\ ledger' \in [Sessions -> Seq({"succeeded", "failed", "refunded"})]
           /\ LedgerMatches'
           /\ session[s] \in Sale
           /\ ledger'[s] = <<status>>
           /\ \A t \in Sessions : t # s => ledger'[t] = ledger[t]
<1>1. session[s] \in Sale
  BY DEF LedgerInv, GatewayOK, Settle, Sale
<1>2. ledger[s] = <<>>
  BY DEF LedgerInv, LedgerMatches, Settle
<1>3. session' = [session EXCEPT ![s] = [session[s] EXCEPT !.status = status]]
  BY DEF Settle
<1>4. [session[s] EXCEPT !.status = status] \in Sale
  BY <1>1 DEF Sale
<1>5. ledger' = [ledger EXCEPT ![s] = <<status>>]
  BY <1>2 DEF Settle
<1>6. /\ session' \in [Sessions -> Sale \cup {None}]
      /\ ledger' \in [Sessions -> Seq({"succeeded", "failed", "refunded"})]
  BY <1>3, <1>4, <1>5 DEF LedgerInv, GatewayOK, Sale
<1>7. /\ ledger'[s] = <<status>>
      /\ \A t \in Sessions : t # s => ledger'[t] = ledger[t] /\ session'[t] = session[t]
  BY <1>3, <1>5 DEF LedgerInv, GatewayOK
<1>8. session'[s].status = status
  BY <1>1, <1>3 DEF LedgerInv, GatewayOK, Sale
<1>9. LedgerMatches'
  <2>1. SUFFICES ASSUME NEW t \in Sessions
                 PROVE  ledger'[t] \in
                          IF session'[t] = None \/ session'[t].status \in Open THEN {<<>>}
                          ELSE IF session'[t].status = "failed" THEN {<<"failed">>}
                          ELSE {<<"succeeded">>, <<"refunded", "refunded">>}
    BY DEF LedgerMatches
  <2>2. CASE t # s
    BY <1>7, <2>2 DEF LedgerInv, LedgerMatches
  <2>3. CASE t = s
    <3>1. session'[s] # None
      BY <1>3, <1>4 DEF LedgerInv, GatewayOK
    <3>2. session'[s].status \notin Open
      BY <1>8 DEF Open
    <3>3. QED
      BY <1>7, <1>8, <2>3, <3>1, <3>2
  <2>4. QED
    BY <2>2, <2>3
<1>10. QED
  BY <1>1, <1>6, <1>7, <1>9

LEMMA AppendToOne == \A a, b : Append(<<a>>, b) = <<a, b>>
<1>1. TAKE a, b
<1> DEFINE S == {a, b}
           s == <<a>>
           t == <<a, b>>
<1>2. s \in Seq(S) /\ t \in Seq(S) /\ b \in S /\ Len(s) = 1 /\ Len(t) = 2
  OBVIOUS
<1>3. s[1] = a /\ t[1] = a /\ t[2] = b
  OBVIOUS
<1> HIDE DEF S, s, t
<1>4. /\ Append(s, b) \in Seq(S)
      /\ Len(Append(s, b)) = Len(s) + 1
      /\ \A i \in 1 .. Len(s) : Append(s, b)[i] = s[i]
      /\ Append(s, b)[Len(s) + 1] = b
  BY <1>2, AppendProperties
<1>5. Len(Append(s, b)) = 2 /\ Append(s, b)[1] = a /\ Append(s, b)[2] = b
  BY <1>2, <1>3, <1>4
<1>6. Append(s, b) = t
  BY <1>2, <1>3, <1>4, <1>5
<1>7. QED
  BY <1>6 DEF s, t

\* A transaction that succeeded is the only one of its session.
LEMMA RefundStep ==
    ASSUME LedgerInv, NEW s \in Sessions, NEW i \in DOMAIN ledger[s],
           ledger[s][i] = "succeeded",
           ledger' = [ledger EXCEPT ![s] = Append([@ EXCEPT ![i] = "refunded"], "refunded")],
           UNCHANGED session
    PROVE  /\ ledger' \in [Sessions -> Seq({"succeeded", "failed", "refunded"})]
           /\ LedgerMatches'
           /\ ledger'[s] = <<"refunded", "refunded">>
           /\ \A t \in Sessions : t # s => ledger'[t] = ledger[t]
<1>1. ledger[s] \in {<<>>, <<"failed">>, <<"succeeded">>, <<"refunded", "refunded">>}
  BY DEF LedgerInv, LedgerMatches
<1>2. ledger[s] = <<"succeeded">> /\ i = 1
  BY <1>1
<1>3. [<<"succeeded">> EXCEPT ![1] = "refunded"] = <<"refunded">>
  OBVIOUS
<1>4. Append(<<"refunded">>, "refunded") = <<"refunded", "refunded">>
  BY AppendToOne
<1> DEFINE both == <<"refunded", "refunded">>
<1>5. /\ ledger' = [ledger EXCEPT ![s] = both]
      /\ both \in Seq({"succeeded", "failed", "refunded"})
  <2>1. [ledger[s] EXCEPT ![i] = "refunded"] = <<"refunded">>
    BY <1>2, <1>3
  <2>2. Append([ledger[s] EXCEPT ![i] = "refunded"], "refunded") = both
    BY <1>4, <2>1
  <2>3. both \in Seq({"succeeded", "failed", "refunded"})
    OBVIOUS
  <2>4. QED
    BY <2>2, <2>3
<1>6. /\ ledger' \in [Sessions -> Seq({"succeeded", "failed", "refunded"})]
      /\ ledger'[s] = both
      /\ \A t \in Sessions : t # s => ledger'[t] = ledger[t]
  <2> HIDE DEF both
  <2>1. QED
    BY <1>5 DEF LedgerInv, GatewayOK
<1>7. session[s] # None /\ session[s].status \notin Open /\ session[s].status # "failed"
  <2>1. <<"succeeded">> # <<>> /\ <<"succeeded">> # <<"failed">>
    OBVIOUS
  <2>2. QED
    BY <1>2, <2>1 DEF LedgerInv, LedgerMatches
<1>8. LedgerMatches'
  BY <1>6, <1>7 DEF LedgerInv, LedgerMatches
<1>9. QED
  BY <1>6, <1>8


\* Charge and Decline, Refund, and the end of a payment, with the contract.
LEMMA GatewayStep ==
    ASSUME StoreInv, RequestsOK, LedgerInv, NEW r \in Requests, Gateway(r)
    PROVE  StoreInv' /\ RequestsOK' /\ LedgerInv'
<1>1. CASE Apply(r)
  <2>1. request[r].task = "pay" /\ request[r].arg \in Plans
    BY <1>1, RequestAt DEF Apply, Known
  <2>2. StoreInv' /\ StoreGrows
    BY <1>1, <2>1, CreateStep, TransitionStep DEF Apply, States
  <2>3. RequestsOK'
    BY <1>1, <2>2, DoneStep DEF Apply
  <2>4. granted' \in Sessions \cup {None} /\ UNCHANGED <<session, ledger, raced>>
          /\ paying' \in [Requests -> Sessions \cup {None}]
    BY <1>1 DEF Apply, Grants, LedgerInv, GatewayOK
  <2>5. LedgerInv'
    BY <2>4 DEF LedgerInv, GatewayOK, LedgerMatches
  <2>6. QED
    BY <2>2, <2>3, <2>5
<1>2. ASSUME NEW s \in Sessions, Decline(r, s)
      PROVE  StoreInv' /\ RequestsOK' /\ LedgerInv'
  <2>1. Settle(s, "failed") /\ Begin(r, "act", "fire", "payment_failed") /\ UNCHANGED paying
    BY <1>2 DEF Decline
  <2>2. StoreInv' /\ RequestsOK'
    BY <2>1, BeginStep DEF EventNames
  <2>3. LedgerInv'
    BY <2>1, SettleStep DEF LedgerInv, GatewayOK, Settle
  <2>4. QED
    BY <2>2, <2>3
<1>3. ASSUME NEW s \in Sessions, Charge(r, s)
      PROVE  StoreInv' /\ RequestsOK' /\ LedgerInv'
  <2>1. /\ Settle(s, "succeeded") /\ Begin(r, "look", "pay", session[s].plan)
        /\ paying' = [paying EXCEPT ![r] = s]
    BY <1>3 DEF Charge
  <2>2. /\ session' \in [Sessions -> Sale \cup {None}]
        /\ ledger' \in [Sessions -> Seq({"succeeded", "failed", "refunded"})]
        /\ LedgerMatches'
        /\ session[s] \in Sale
    BY <2>1, SettleStep
  <2>3. session[s].plan \in Plans
    BY <2>2 DEF Sale
  <2>4. StoreInv' /\ RequestsOK'
    BY <2>1, <2>3, BeginStep
  <2>5. LedgerInv'
    BY <2>1, <2>2 DEF LedgerInv, GatewayOK, Settle
  <2>6. QED
    BY <2>4, <2>5
<1>4. ASSUME NEW s \in Sessions, NEW i \in DOMAIN ledger[s], Refund(r, s, i)
      PROVE  StoreInv' /\ RequestsOK' /\ LedgerInv'
  <2>1. Begin(r, "act", "fire", "payment_failed") /\ UNCHANGED <<session, paying, granted>>
    BY <1>4 DEF Refund
  <2>2. StoreInv' /\ RequestsOK'
    BY <2>1, BeginStep DEF EventNames
  <2>3. /\ ledger' \in [Sessions -> Seq({"succeeded", "failed", "refunded"})]
        /\ LedgerMatches'
    BY <1>4, RefundStep DEF Refund
  <2>4. raced' \subseteq Sessions
    BY <1>4 DEF Refund, LedgerInv, GatewayOK
  <2>5. LedgerInv'
    BY <2>1, <2>3, <2>4 DEF LedgerInv, GatewayOK
  <2>6. QED
    BY <2>2, <2>5
<1>5. QED
  BY <1>1, <1>2, <1>3, <1>4 DEF Gateway

\* A session is made, or its challenge goes unanswered.
LEMMA SessionStep ==
    ASSUME LedgerInv, NEW s \in Sessions, CreateCheckoutSession(s) \/ Challenge(s)
    PROVE  LedgerInv'
<1>1. PICK q \in Sale : /\ session' = [session EXCEPT ![s] = q]
                        /\ q.status \in Open
  <2>1. CASE CreateCheckoutSession(s)
    <3>1. PICK plan \in Sold : session' = [session EXCEPT ![s] =
                                              [status |-> "pending", plan |-> plan]]
      BY <2>1 DEF CreateCheckoutSession
    <3>2. [status |-> "pending", plan |-> plan] \in Sale
      BY DEF Sale, Open
    <3>3. QED
      BY <3>1, <3>2 DEF Open
  <2>2. CASE Challenge(s)
    <3>1. session[s] \in Sale
      BY <2>2 DEF Challenge, LedgerInv, GatewayOK
    <3>2. session' = [session EXCEPT ![s] = [session[s] EXCEPT !.status = "requires_action"]]
      BY <2>2 DEF Challenge
    <3>3. /\ [session[s] EXCEPT !.status = "requires_action"] \in Sale
          /\ [session[s] EXCEPT !.status = "requires_action"].status = "requires_action"
      BY <3>1 DEF Sale, Open
    <3>4. QED
      BY <3>2, <3>3 DEF Open
  <2>3. QED
    BY <2>1, <2>2
<1>2. UNCHANGED <<ledger, paying, granted, raced>>
  BY DEF CreateCheckoutSession, Challenge
<1>3. session[s] = None \/ session[s].status \in Open
  BY DEF CreateCheckoutSession, Challenge
<1>4. GatewayOK'
  BY <1>1, <1>2 DEF LedgerInv, GatewayOK
<1>5. ledger[s] = <<>>
  BY <1>3 DEF LedgerInv, LedgerMatches
<1>6. \A t \in Sessions : session'[t] = IF t = s THEN q ELSE session[t]
  BY <1>1 DEF LedgerInv, GatewayOK
<1>7. LedgerMatches'
  BY <1>1, <1>2, <1>5, <1>6 DEF LedgerInv, LedgerMatches
<1>8. QED
  BY <1>4, <1>7 DEF LedgerInv

LEMMA WebhookStep ==
    ASSUME StoreInv, RequestsOK, LedgerInv, Webhook
    PROVE  StoreInv' /\ RequestsOK' /\ LedgerInv'
<1>1. StoreInv' /\ StoreGrows
  <2>1. CASE \E plan \in Sold : CreateContract(plan, "active")
    <3>1. PICK plan \in Sold : CreateContract(plan, "active")
      BY <2>1
    <3>2. plan \in Plans /\ "active" \in States
      BY DEF States
    <3>3. QED
      BY <3>1, <3>2, CreateStep
  <2>2. CASE \E event \in {"payment_succeeded", "payment_failed", "cancel"} :
               FireTransition(event)
    BY <2>2, TransitionStep
  <2>3. QED
    BY <2>1, <2>2 DEF Webhook
<1>2. RequestsOK'
  BY <1>1, RequestsStay DEF Webhook
<1>3. LedgerInv'
  BY GatewayStays DEF Webhook, Grants, LedgerInv, GatewayOK
<1>4. QED
  BY <1>1, <1>2, <1>3

LEMMA InitInv == Init => StoreInv /\ RequestsOK /\ LedgerInv
<1> SUFFICES ASSUME Init PROVE StoreInv /\ RequestsOK /\ LedgerInv
  OBVIOUS
<1>1. ManagerInit /\ GatewayInit
  BY DEF Init
<1>2. Seeded \in Contract \cup {None} /\ (Demo = None => Seeded = None)
  BY DEF Seeded, Contract, States
<1>3. StoreInv
  <2>1. apart = (Demo # None) /\ contract = Seeded
    BY <1>1 DEF ManagerInit
  <2>2. ContractOK
    <3>1. contract \in Contract \cup {None}
      BY <1>2, <2>1
    <3>2. stored = [s \in Services |-> None] /\ warm = {}
      BY <1>1 DEF ManagerInit
    <3>3. apart \in BOOLEAN
      BY <2>1
    <3>4. chosen \in Plans \cup {None} /\ lost \in BOOLEAN /\ restarts \in 0..MaxRestarts
      <4>1. chosen = None /\ lost = FALSE /\ restarts = 0
        BY <1>1 DEF ManagerInit
      <4>2. 0 \in 0..MaxRestarts
        OBVIOUS
      <4>3. QED
        BY <4>1, <4>2
    <3>5. QED
      BY <3>1, <3>2, <3>3, <3>4 DEF ContractOK
  <2>3. StoreFollows
    BY <1>2, <2>1 DEF StoreFollows
  <2>4. PlanStands
    BY <1>1 DEF ManagerInit, PlanStands
  <2>5. QED
    BY <2>2, <2>3, <2>4 DEF StoreInv
<1>4. RequestsOK
  <2>1. Idle \in RequestState /\ Known(Idle, stored)
    BY DEF Known, Idle, RequestState
  <2>2. QED
    BY <1>1, <2>1 DEF ManagerInit, RequestsOK
<1>5. LedgerInv
  BY <1>1 DEF GatewayInit, LedgerInv, GatewayOK, LedgerMatches
<1>6. QED
  BY <1>3, <1>4, <1>5

LEMMA NextInv ==
    StoreInv /\ RequestsOK /\ LedgerInv /\ [Next]_vars
      => StoreInv' /\ RequestsOK' /\ LedgerInv'
<1> SUFFICES ASSUME StoreInv, RequestsOK, LedgerInv, [Next]_vars
             PROVE  StoreInv' /\ RequestsOK' /\ LedgerInv'
  OBVIOUS
<1>1. ASSUME NEW s \in Sessions, CreateCheckoutSession(s) \/ Challenge(s)
      PROVE  StoreInv' /\ RequestsOK' /\ LedgerInv'
  <2>1. UNCHANGED contractVars /\ UNCHANGED request
    BY <1>1 DEF CreateCheckoutSession, Challenge, managerVars
  <2>2. QED
    BY <1>1, <2>1, StoreStays, RequestsStay, SessionStep
<1>2. ASSUME NEW r \in Requests, Gateway(r)
      PROVE  StoreInv' /\ RequestsOK' /\ LedgerInv'
  BY <1>2, GatewayStep
<1>3. CASE Webhook
  BY <1>3, WebhookStep
<1>4. CASE /\ ManagerWrite \/ \E r \in Requests : ManagerRequest(r)
           /\ Grants(None)
           /\ UNCHANGED <<session, ledger, paying, raced>>
  <2>1. StoreInv' /\ RequestsOK'
    BY <1>4, ManagerWriteStep, ManagerRequestStep
  <2>2. LedgerInv'
    BY <1>4, GatewayStays DEF Grants, LedgerInv, GatewayOK
  <2>3. QED
    BY <2>1, <2>2
<1>5. CASE GatewayRestart
  <2>1. StoreInv' /\ RequestsOK'
    BY <1>5, RestartStep DEF GatewayRestart
  <2>2. LedgerInv'
    BY <1>5 DEF GatewayRestart, LedgerInv, GatewayOK, LedgerMatches
  <2>3. QED
    BY <2>1, <2>2
<1>6. CASE UNCHANGED vars
  <2>1. UNCHANGED contractVars /\ UNCHANGED request
          /\ UNCHANGED <<session, ledger, paying, granted, raced>>
    BY <1>6 DEF vars, managerVars, gatewayVars
  <2>2. granted' \in Sessions \cup {None}
    BY <2>1 DEF LedgerInv, GatewayOK
  <2>3. QED
    BY <2>1, <2>2, StoreStays, RequestsStay, GatewayStays
<1>7. QED
  BY <1>1, <1>2, <1>3, <1>4, <1>5, <1>6 DEF Next

\* Contracts, requests, sessions and transactions keep to their types
\* (subscription/service.go, payment/service.go).
THEOREM TypeCorrect == Spec => []TypeOK
<1>1. StoreInv /\ RequestsOK /\ LedgerInv => TypeOK
  BY DEF StoreInv, ContractOK, RequestsOK, LedgerInv, GatewayOK, TypeOK, ManagerTypeOK
<1>2. QED
  BY <1>1, InitInv, NextInv, PTL DEF Spec

\* Memory and store tell the same contract but in the cases the property names
\* (CreateContract, FireTransition and GetContract of subscription/service.go).
THEOREM StoreFollowsHolds == Spec => []StoreFollows
<1>1. StoreInv => StoreFollows
  BY DEF StoreInv
<1>2. QED
  BY <1>1, InitInv, NextInv, PTL DEF Spec

\* The plan a tenant chose last stands but in the cases the property names
\* (FireTransition of subscription/service.go writes the plan back).
THEOREM PlanStandsHolds == Spec => []PlanStands
<1>1. StoreInv => PlanStands
  BY DEF StoreInv
<1>2. QED
  BY <1>1, InitInv, NextInv, PTL DEF Spec

\* A session is charged once and refunded once (the status checks of
\* ProcessPayment and RefundPayment in payment/service.go).
THEOREM LedgerMatchesHolds == Spec => []LedgerMatches
<1>1. LedgerInv => LedgerMatches
  BY DEF LedgerInv
<1>2. QED
  BY <1>1, InitInv, NextInv, PTL DEF Spec


-----------------------------------------------------------------------------
(* Refunds                                                                 *)

\* A request about to tell the manager of a refund or of a declined payment.
Revoking(q) == q.at = "act" /\ q.task = "fire" /\ q.arg = "payment_failed"

RefundInv ==
    /\ granted # None => contract # None /\ contract.state = "active"
    /\ \A r \in Requests :
         paying[r] # None /\ Refunded(paying[r]) => paying[r] \in raced
    /\ granted # None /\ Refunded(granted)
         => granted \in raced \/ \E r \in Requests : Revoking(request[r])

Typed == StoreInv /\ RequestsOK /\ LedgerInv

\* A payment that fails takes an active contract somewhere else.
LEMMA FailureMoves ==
    ASSUME ContractOK, contract # None, contract.state = "active",
           FireTransition("payment_failed")
    PROVE  contract' # contract
<1>1. Current = contract /\ contract \in Contract
  BY CurrentTyped DEF ContractOK
<1>2. <<"active", "payment_failed", "past_due">> \in Moves
  BY DEF Moves
<1>3. <<"active", "payment_failed", "active">> \notin Moves
  BY DEF Moves
<1>4. "past_due" \in States
  BY DEF States
<1>5. ~Refused("payment_failed")
  BY <1>1, <1>2, <1>4 DEF Refused
<1>6. PICK next \in States : /\ <<Current.state, "payment_failed", next>> \in Moves
                             /\ contract' = [Current EXCEPT !.state = next]
  BY <1>5 DEF FireTransition
<1>7. next # "active"
  BY <1>1, <1>3, <1>6
<1>8. contract'.state = next
  BY <1>1, <1>6 DEF Contract
<1>9. QED
  BY <1>7, <1>8

\* A request of the manager changes itself only.
LEMMA OthersStay ==
    ASSUME RequestsOK, NEW r \in Requests, ManagerRequest(r),
           NEW q \in Requests, q # r
    PROVE  request'[q] = request[q]
<1>1. \E new : request' = [request EXCEPT ![r] = new]
  <2>1. CASE Look(r) /\ contract # None
    BY <2>1 DEF Look, Return, Done
  <2>2. CASE Look(r) /\ contract = None
    BY <2>2 DEF Look, MoveTo
  <2>3. CASE ReadStore(r)
    BY <2>3 DEF ReadStore, Return, Done
  <2>4. CASE Fill(r)
    BY <2>4 DEF Fill, Return, Done
  <2>5. QED
    BY <2>1, <2>2, <2>3, <2>4
       DEF ManagerRequest, View, HandleFireEvent, Begin, Fire, CheckDefault,
           RegisterDefault, Done
<1>2. QED
  BY <1>1 DEF RequestsOK


LEMMA RequestRefund ==
    ASSUME Typed, RefundInv, NEW r \in Requests, ManagerRequest(r), Grants(None),
           UNCHANGED <<session, ledger, paying, raced>>
    PROVE  RefundInv'
<1>1. \A q \in Requests : paying'[q] # None /\ Refunded(paying[q])' => paying'[q] \in raced'
  BY DEF RefundInv, Refunded
<1>2. CASE granted' = None
  BY <1>1, <1>2 DEF RefundInv, Refunded
<1>3. CASE granted' # None
  <2>1. contract' = contract /\ granted' = granted
    BY <1>3 DEF Grants
  <2>2. contract # None /\ contract.state = "active"
    BY <1>3, <2>1 DEF RefundInv
  <2>3. ASSUME Refunded(granted), granted \notin raced
        PROVE  \E q \in Requests : Revoking(request'[q])
    <3>1. PICK q \in Requests : Revoking(request[q])
      BY <1>3, <2>1, <2>3 DEF RefundInv
    <3>2. CASE q = r
      <4>1. Fire(r)
        BY <3>1, <3>2 DEF Revoking, ManagerRequest, View, HandleFireEvent, Begin, Look,
             ReadStore, Fill, CheckDefault, RegisterDefault, At
      <4>2. FireTransition("payment_failed")
        BY <3>1, <3>2, <4>1 DEF Revoking, Fire
      <4>3. QED
        BY <2>1, <2>2, <4>2, FailureMoves DEF Typed, StoreInv
    <3>3. CASE q # r
      BY <3>1, <3>3, OthersStay DEF Typed
    <3>4. QED
      BY <3>2, <3>3
  <2>4. QED
    BY <1>1, <2>1, <2>2, <2>3 DEF RefundInv, Refunded
<1>4. QED
  BY <1>2, <1>3


LEMMA WriteRefund ==
    ASSUME Typed, RefundInv, UNCHANGED <<request, session, ledger, paying, raced>>, Grants(None)
    PROVE  RefundInv'
<1>1. CASE granted' = None
  BY <1>1 DEF RefundInv, Refunded
<1>2. CASE granted' # None
  <2>1. contract' = contract /\ granted' = granted
    BY <1>2 DEF Grants
  <2>2. QED
    BY <1>2, <2>1 DEF RefundInv, Refunded
<1>3. QED
  BY <1>1, <1>2

\* A payment is applied: it gives access, unless the refund was before it.
LEMMA ApplyRefund ==
    ASSUME Typed, RefundInv, NEW r \in Requests, Apply(r)
    PROVE  RefundInv'
<1>1. /\ request[r].task = "pay" /\ request[r].arg \in Plans
      /\ request' = [request EXCEPT ![r] = Idle]
      /\ paying' = [paying EXCEPT ![r] = None]
      /\ UNCHANGED <<session, ledger, raced>>
  BY RequestAt DEF Typed, Apply, Done, Known
<1>2. \A q \in Requests : paying'[q] = IF q = r THEN None ELSE paying[q]
  BY <1>1 DEF Typed, LedgerInv, GatewayOK
<1>3. \A q \in Requests : paying'[q] # None /\ Refunded(paying'[q]) => paying'[q] \in raced
  BY <1>2 DEF RefundInv
<1>4. \A s : Refunded(s) <=> \E i \in DOMAIN ledger'[s] : ledger'[s][i] = "refunded"
  BY <1>1 DEF Refunded
<1>5. CASE contract' = contract
  <2>1. granted' = granted
    BY <1>5 DEF Apply, Grants
  <2>2. ASSUME NEW q \in Requests, Revoking(request[q]) PROVE Revoking(request'[q])
    <3>1. q # r
      BY <1>1, <2>2 DEF Revoking
    <3>2. QED
      BY <1>1, <2>2, <3>1 DEF Typed, RequestsOK
  <2>3. QED
    BY <1>1, <1>3, <1>4, <1>5, <2>1, <2>2 DEF RefundInv, Refunded
<1>6. CASE contract' # contract
  <2>1. granted' = IF contract'.state = "active" THEN paying[r] ELSE None
    BY <1>6 DEF Apply, Grants
  <2>2. contract' \in Contract
    <3>1. CASE CreateContract(request[r].arg, "active")
      BY <1>1, <3>1 DEF CreateContract, Contract, States
    <3>2. CASE FireTransition("payment_succeeded")
      <4>1. PICK next \in States : contract' = [Current EXCEPT !.state = next]
        BY <1>6, <3>2 DEF FireTransition, contractVars
      <4>2. QED
        BY <4>1, CurrentTyped DEF Typed, StoreInv, Contract
    <3>3. QED
      BY <3>1, <3>2 DEF Apply
  <2>3. contract' # None
    BY <2>2
  <2>4. granted' # None => granted' = paying[r] /\ contract'.state = "active"
    BY <2>1
  <2>5. granted' # None /\ Refunded(granted') => granted' \in raced
    BY <2>4 DEF RefundInv
  <2>6. QED
    BY <1>1, <1>3, <1>4, <2>3, <2>4, <2>5 DEF RefundInv, Refunded
<1>7. QED
  BY <1>5, <1>6

\* Charged or declined: the session has not been refunded.
LEMMA SettleRefund ==
    ASSUME Typed, RefundInv, NEW r \in Requests, NEW s \in Sessions,
           NEW status \in {"succeeded", "failed"}, Settle(s, status),
           request[r].at = "idle", UNCHANGED contractVars,
           \A q \in Requests : q # r => request'[q] = request[q] /\ paying'[q] = paying[q],
           paying'[r] \in {s, paying[r]}
    PROVE  RefundInv'
<1>1. UNCHANGED <<granted, raced, contract>>
  BY DEF Settle, contractVars
<1>2. /\ ledger'[s] = <<status>>
      /\ \A t \in Sessions : t # s => ledger'[t] = ledger[t]
  BY SettleStep DEF Typed
<1>3. \A t \in Sessions : (\E i \in DOMAIN ledger'[t] : ledger'[t][i] = "refunded")
                            => t # s /\ Refunded(t)
  BY <1>2 DEF Refunded
<1>4. \A q \in Requests : paying[q] \in Sessions \cup {None}
  BY DEF Typed, LedgerInv, GatewayOK
<1>5. \A q \in Requests :
         paying'[q] # None /\ (\E i \in DOMAIN ledger'[paying'[q]] : ledger'[paying'[q]][i] = "refunded")
           => paying'[q] \in raced
  BY <1>3, <1>4 DEF RefundInv
<1>6. granted \in Sessions \cup {None}
  BY DEF Typed, LedgerInv, GatewayOK
<1>7. \A q \in Requests : Revoking(request[q]) => Revoking(request'[q])
  BY DEF Revoking
<1>8. QED
  BY <1>1, <1>3, <1>5, <1>6, <1>7 DEF RefundInv, Refunded

LEMMA RefundRefund ==
    ASSUME Typed, RefundInv, NEW r \in Requests, NEW s \in Sessions,
           NEW i \in DOMAIN ledger[s], Refund(r, s, i)
    PROVE  RefundInv'
<1>1. /\ UNCHANGED <<session, paying, granted, contract>>
      /\ raced' = raced \cup {t \in {s} : \E q \in Requests : paying[q] = s}
  BY DEF Refund, Begin, contractVars
<1>2. \A t \in Sessions : t # s => ledger'[t] = ledger[t]
  BY RefundStep DEF Typed, Refund
<1>3. \A t \in Sessions : (\E j \in DOMAIN ledger'[t] : ledger'[t][j] = "refunded")
                            => t = s \/ Refunded(t)
  BY <1>2 DEF Refunded
<1>4. \A q \in Requests : paying[q] \in Sessions \cup {None}
  BY DEF Typed, LedgerInv, GatewayOK
<1>5. \A q \in Requests :
         paying'[q] # None /\ (\E j \in DOMAIN ledger'[paying'[q]] : ledger'[paying'[q]][j] = "refunded")
           => paying'[q] \in raced'
  BY <1>1, <1>3, <1>4 DEF RefundInv
<1>6. Revoking(request'[r])
  <2>1. request'[r] = [Idle EXCEPT !.at = "act", !.task = "fire", !.arg = "payment_failed"]
    BY DEF Refund, Begin, Typed, RequestsOK
  <2>2. QED
    BY <2>1 DEF Idle, Revoking
<1>7. QED
  BY <1>1, <1>5, <1>6 DEF RefundInv, Refunded


LEMMA NextRefund == Typed /\ RefundInv /\ [Next]_vars => RefundInv'
<1> SUFFICES ASSUME Typed, RefundInv, [Next]_vars PROVE RefundInv'
  OBVIOUS
<1>1. ASSUME NEW s \in Sessions, CreateCheckoutSession(s) \/ Challenge(s) PROVE RefundInv'
  BY <1>1 DEF CreateCheckoutSession, Challenge, RefundInv, Refunded, managerVars, contractVars
<1>2. ASSUME NEW r \in Requests, Gateway(r) PROVE RefundInv'
  <2>1. CASE Apply(r)
    BY <2>1, ApplyRefund
  <2>2. ASSUME NEW s \in Sessions, Decline(r, s) PROVE RefundInv'
    <3>1. /\ Settle(s, "failed") /\ request[r].at = "idle" /\ UNCHANGED contractVars
          /\ UNCHANGED paying
      BY <2>2 DEF Decline, Begin, At
    <3>2. \A q \in Requests : q # r => request'[q] = request[q]
      BY <2>2 DEF Decline, Begin, Typed, RequestsOK
    <3>3. QED
      BY <3>1, <3>2, SettleRefund
  <2>3. ASSUME NEW s \in Sessions, Charge(r, s) PROVE RefundInv'
    <3>1. /\ Settle(s, "succeeded") /\ request[r].at = "idle" /\ UNCHANGED contractVars
          /\ paying' = [paying EXCEPT ![r] = s]
      BY <2>3 DEF Charge, Begin, At
    <3>2. \A q \in Requests : q # r => request'[q] = request[q]
      BY <2>3 DEF Charge, Begin, Typed, RequestsOK
    <3>3. paying'[r] = s /\ \A q \in Requests : q # r => paying'[q] = paying[q]
      BY <3>1 DEF Typed, LedgerInv, GatewayOK
    <3>4. QED
      BY <3>1, <3>2, <3>3, SettleRefund
  <2>4. ASSUME NEW s \in Sessions, NEW i \in DOMAIN ledger[s], Refund(r, s, i)
        PROVE  RefundInv'
    BY <2>4, RefundRefund
  <2>5. QED
    BY <1>2, <2>1, <2>2, <2>3, <2>4 DEF Gateway
<1>3. CASE Webhook
  BY <1>3, WriteRefund DEF Webhook
<1>4. CASE /\ ManagerWrite \/ \E r \in Requests : ManagerRequest(r)
           /\ Grants(None)
           /\ UNCHANGED <<session, ledger, paying, raced>>
  <2>1. CASE ManagerWrite
    <3>1. UNCHANGED request
      BY <2>1 DEF ManagerWrite, HandleCreateContract, HandleRegisterSubscription
    <3>2. QED
      BY <1>4, <3>1, WriteRefund
  <2>2. CASE \E r \in Requests : ManagerRequest(r)
    BY <1>4, <2>2, RequestRefund
  <2>3. QED
    BY <1>4, <2>1, <2>2
<1>5. CASE GatewayRestart
  BY <1>5 DEF GatewayRestart, RefundInv
<1>6. CASE UNCHANGED vars
  BY <1>6 DEF vars, managerVars, contractVars, gatewayVars, RefundInv, Refunded
<1>7. QED
  BY <1>1, <1>2, <1>3, <1>4, <1>5, <1>6 DEF Next

\* Once nothing is under way, a refunded payment no longer gives access, unless
\* the refund overtook it (ProcessPayment and RefundPayment of payment/service.go
\* change the contract after they release the gateway's lock).
THEOREM RefundTakesAccessHolds == Spec => []RefundTakesAccess
<1>1. Init => RefundInv
  BY DEF Init, GatewayInit, RefundInv
<1>2. RefundInv => RefundTakesAccess
  BY DEF RefundInv, RefundTakesAccess, Revoking, At
<1>3. QED
  BY <1>1, <1>2, InitInv, NextInv, NextRefund, PTL DEF Spec, Typed
=============================================================================
