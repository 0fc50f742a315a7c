------------------------- MODULE SubscriptionManager -------------------------
(***************************************************************************)
(* The contract of one tenant (internal/modules/subscription): the copy    *)
(* the manager keeps in memory behind its lock, and the subscriptions the  *)
(* metering chain stores, by service.  Every operation of the manager is   *)
(* about one tenant, so one tenant is the state.  CreateContract and       *)
(* FireTransition hold the lock throughout and are one step each;          *)
(* GetContract takes it twice with an unlocked read of the store between.  *)
(*                                                                         *)
(* The store is the chain as the manager sees it: a registration reaches   *)
(* L1 and the durable backends, a read is answered by L1 when L1 has       *)
(* any subscription of the tenant, and by a durable backend otherwise.     *)
(***************************************************************************)
EXTENDS Naturals, FiniteSets

CONSTANTS
    Plans,         \* plan identifiers
    Services,      \* service identifiers, AI among them
    AI,            \* ServiceIDAICompletion
    Requests,      \* goroutines: HTTP handlers, policies, event subscribers
    None,
    Demo,          \* the plan main seeds for this tenant at start, or None
    Contracts,     \* bodies of POST /v1/subscription/contracts: <<plan, state>>
    Fired,         \* events of POST /v1/subscription/{key}/event
    Registrations, \* bodies of POST /v1/billing/subscriptions:
                   \* <<service, plan, status>>
    MaxRestarts    \* bound

States   == {"trial", "active", "past_due", "cancelled", "other"}
Statuses == {"active", "past_due", "cancelled", "other"}
EventNames == {"activate", "reactivate", "cancel", "trial_expired",
               "payment_succeeded", "payment_failed"}
Contract == [plan : Plans, state : States]
Stored   == [plan : Plans, status : Statuses]

ASSUME ManagerAssumption ==
    /\ {"starter", "default-ai-plan"} \subseteq Plans
    /\ AI \in Services
    /\ Demo \in Plans \cup {None}
    /\ None \notin Plans \cup Contract \cup Stored
    /\ Contracts \subseteq Plans \X States
    /\ Fired \subseteq EventNames
    /\ Registrations \subseteq Services \X Plans \X Statuses
    /\ MaxRestarts \in Nat

VARIABLES
    contract,    \* Manager.contracts[tenant], or None
    stored,      \* the subscription the chain holds for each service, or None
    warm,        \* the services L1 has: those registered since the start
    request,     \* the step each goroutine is at and what it knows
    apart,       \* history: contract need not match stored[AI], because a
                 \* fill came late or from another service, or one of the two
                 \* was written without the other
    chosen,      \* history: the plan last asked for by name
    lost,        \* history: chosen has been overwritten without being asked
    restarts     \* bound

contractVars == <<contract, stored, warm, apart, chosen, lost, restarts>>
managerVars == <<contractVars, request>>

-----------------------------------------------------------------------------
\* transitionFSM: <<state, event, next state>>; all else is ErrInvalidState.
Moves ==
    ({"trial"} \X {"activate", "payment_succeeded"} \X {"active"})
      \cup {<<"trial", "cancel", "cancelled">>}
      \cup ({"trial"} \X {"payment_failed", "trial_expired"} \X {"past_due"})
      \cup {<<"active", "payment_failed", "past_due">>,
            <<"active", "cancel", "cancelled">>}
      \cup ({"past_due"} \X {"payment_succeeded", "activate"} \X {"active"})
      \cup {<<"past_due", "cancel", "cancelled">>}
      \cup ({"cancelled"} \X {"reactivate", "activate"} \X {"active"})

\* Mutant: states are stored under their own names.
ToKernelStatusUntranslated(state) == state

ToKernelStatus(state) ==
    IF state \in {"past_due", "cancelled"} THEN state ELSE "active"

FromKernelStatus(status) == IF status = "other" THEN "trial" ELSE status

Idle == [at |-> "idle", task |-> "none", arg |-> None, read |-> None, plan |-> None]

Seeded == IF Demo = None THEN None ELSE [plan |-> Demo, state |-> "trial"]

ManagerInit ==
    /\ contract = Seeded
    /\ stored = [s \in Services |-> None]
    /\ warm = {}
    /\ request = [r \in Requests |-> Idle]
    /\ apart = (Demo # None)
    /\ chosen = None
    /\ lost = FALSE
    /\ restarts = 0

-----------------------------------------------------------------------------
\* MeteringChain.RegisterServiceSubscription, an upsert by tenant and service.
Register(service, plan, status) ==
    /\ stored' = [stored EXCEPT ![service] = [plan |-> plan, status |-> status]]
    /\ warm' = warm \cup {service}

CreateContract(plan, state) ==
    /\ contract' = [plan |-> plan, state |-> state]
    /\ Register(AI, plan, ToKernelStatus(state))
    /\ apart' = FALSE
    /\ chosen' = plan
    /\ lost' = FALSE
    /\ UNCHANGED restarts

\* A tenant with no contract in memory moves from trial, on the plan starter.
Current == IF contract = None THEN [plan |-> "starter", state |-> "trial"]
                              ELSE contract

Refused(event) == \A next \in States : <<Current.state, event, next>> \notin Moves

\* Mutant: the transition is not written to the store.
FireTransitionInMemory(event) ==
    \E next \in States :
        /\ <<Current.state, event, next>> \in Moves
        /\ contract' = [Current EXCEPT !.state = next]
        /\ apart' = FALSE
        /\ UNCHANGED <<stored, warm, chosen, lost, restarts>>

FireTransition(event) ==
    \/ /\ Refused(event)
       /\ UNCHANGED contractVars
    \/ \E next \in States :
         /\ <<Current.state, event, next>> \in Moves
         /\ contract' = [Current EXCEPT !.state = next]
         /\ Register(AI, Current.plan, ToKernelStatus(next))
         /\ apart' = FALSE
         /\ lost' = (lost \/ apart \/ contract = None)
         /\ UNCHANGED <<chosen, restarts>>

-----------------------------------------------------------------------------
At(r, step) == request[r].at = step

MoveTo(r, step) == request' = [request EXCEPT ![r].at = step]

Done(r) == request' = [request EXCEPT ![r] = Idle]

Begin(r, step, task, arg) ==
    /\ At(r, "idle")
    /\ request' = [request EXCEPT ![r] =
         [Idle EXCEPT !.at = step, !.task = task, !.arg = arg]]
    /\ UNCHANGED contractVars

\* GetContract begins: for GET /v1/subscription/{key} and the policy
\* has-active-subscription, which only look, or for POST .../event.
View(r) == Begin(r, "look", "view", None)

HandleFireEvent(r) == \E event \in Fired : Begin(r, "look", "fire", event)

\* GetContract returns a contract, or None: its caller goes on with the plan.
Return(r, c) ==
    IF request[r].task = "view" THEN Done(r)
    ELSE request' = [request EXCEPT ![r].at = "act", ![r].read = None,
                        ![r].plan = IF c = None THEN None ELSE c.plan]

\* The look under the read lock.
Look(r) ==
    /\ At(r, "look")
    /\ IF contract # None THEN Return(r, contract) ELSE MoveTo(r, "read")
    /\ UNCHANGED contractVars

\* What a read of the store may return first: any subscription L1 has, or,
\* when L1 has none of the tenant's, any a durable backend has.
FirstSubs == IF warm # {} THEN warm ELSE {s \in Services : stored[s] # None}

\* Mutant: the plan is not read back.
HydratedOnStarter(sub) == [plan |-> "starter", state |-> FromKernelStatus(sub.status)]

Hydrated(sub) == [plan |-> sub.plan, state |-> FromKernelStatus(sub.status)]

\* The store is read without the lock; if no backend answers, or none has a
\* subscription, the tenant has no contract.
ReadStore(r) ==
    /\ At(r, "read")
    /\ \/ \E s \in FirstSubs : request' = [request EXCEPT ![r].at = "fill",
            ![r].read = [contract |-> Hydrated(stored[s]), service |-> s]]
       \/ warm = {} /\ Return(r, None)
    /\ UNCHANGED contractVars

\* What was read is written under the lock, whatever happened meanwhile.
Late(read) ==
    \/ contract # None
    \/ read.service # AI
    \/ read.contract # Hydrated(stored[AI])

Fill(r) ==
    /\ At(r, "fill")
    /\ contract' = request[r].read.contract
    /\ apart' = (apart \/ Late(request[r].read))
    /\ Return(r, request[r].read.contract)
    /\ UNCHANGED <<stored, warm, chosen, lost, restarts>>

Fire(r) ==
    /\ At(r, "act")
    /\ request[r].task = "fire"
    /\ FireTransition(request[r].arg)
    /\ Done(r)

\* POST /v1/subscription/contracts, with whatever state the body has.
HandleCreateContract ==
    /\ \E c \in Contracts : CreateContract(c[1], c[2])
    /\ UNCHANGED request

-----------------------------------------------------------------------------
(* The others that register subscriptions, past the manager.               *)

\* POST /v1/billing/subscriptions.
HandleRegisterSubscription ==
    /\ \E c \in Registrations :
         /\ Register(c[1], c[2], c[3])
         /\ IF c[1] = AI
              THEN /\ apart' = (contract # None)
                   /\ chosen' = c[2]
                   /\ lost' = FALSE
              ELSE UNCHANGED <<apart, chosen, lost>>
    /\ UNCHANGED <<contract, request, restarts>>

\* The subscriber of usage.recorded finds no subscription to AI: L1 has others
\* only, or L1 has none and the durable backends have none or do not answer ...
CheckDefault(r) ==
    /\ At(r, "idle")
    /\ warm # {} => AI \notin warm
    /\ Begin(r, "act", "default", None)

\* ... and registers the default one if it found none.
RegisterDefault(r) ==
    /\ At(r, "act")
    /\ request[r].task = "default"
    /\ Register(AI, "default-ai-plan", "active")
    /\ apart' = (contract # None)
    /\ lost' = (lost \/ stored[AI] # None)
    /\ Done(r)
    /\ UNCHANGED <<contract, chosen, restarts>>

\* The process ends and starts again: memory is gone, the durable backends
\* keep what they have, and the demo contracts are seeded without a store.
Restart ==
    /\ restarts < MaxRestarts
    /\ restarts' = restarts + 1
    /\ contract' = Seeded
    /\ warm' = {}
    /\ request' = [r \in Requests |-> Idle]
    /\ apart' = (Demo # None)
    /\ UNCHANGED <<stored, chosen, lost>>

ManagerRequest(r) ==
    \/ View(r) \/ HandleFireEvent(r) \/ Look(r) \/ ReadStore(r) \/ Fill(r)
    \/ Fire(r) \/ CheckDefault(r) \/ RegisterDefault(r)

ManagerWrite == HandleCreateContract \/ HandleRegisterSubscription

-----------------------------------------------------------------------------
(* What must hold.                                                         *)

RequestState ==
    [at : {"idle", "look", "read", "fill", "act"},
     task : {"none", "view", "fire", "default", "pay"},
     arg : EventNames \cup Plans \cup {None},
     read : [contract : Contract, service : Services] \cup {None},
     plan : Plans \cup {None}]

\* The types of the manager's state.
ManagerTypeOK ==
    /\ contract \in Contract \cup {None}
    /\ stored \in [Services -> Stored \cup {None}]
    /\ warm \subseteq {s \in Services : stored[s] # None}
    /\ request \in [Requests -> RequestState]
    /\ apart \in BOOLEAN
    /\ chosen \in Plans \cup {None}
    /\ lost \in BOOLEAN
    /\ restarts \in 0..MaxRestarts

\* Memory and store tell the same contract, unless a fill came late, the
\* contract was hydrated from another service or seeded without the store, or
\* somebody registered a subscription past the manager (CreateContract,
\* FireTransition and GetContract keep the two together).
StoreFollows ==
    contract # None /\ ~apart =>
        /\ stored[AI] # None
        /\ stored[AI].plan = contract.plan
        /\ \/ stored[AI].status = ToKernelStatus(contract.state)
           \/ contract = Hydrated(stored[AI])

\* The plan a tenant chose last stays the one the store has, however often the
\* process restarts and whatever transitions follow, unless memory was apart
\* from the store, a transition found no contract in memory, or usage
\* registered the default plan over it (FireTransition writes the plan back).
PlanStands ==
    chosen # None /\ ~lost => stored[AI] # None /\ stored[AI].plan = chosen
=============================================================================
