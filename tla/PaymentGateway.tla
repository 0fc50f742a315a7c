---------------------------- MODULE PaymentGateway ----------------------------
(***************************************************************************)
(* The sandbox payment gateway (internal/modules/payment) over the         *)
(* subscription manager, for one tenant.  Sessions and transactions are    *)
(* changed under the gateway's lock; the contract is changed after that    *)
(* lock has been released, by the goroutine of the request.                *)
(***************************************************************************)
EXTENDS SubscriptionManager, Sequences

CONSTANTS
    Sessions,      \* checkout sessions created in a run
    Sold           \* the plans they are for

Open == {"pending", "requires_action"}
Sale == [status : Open \cup {"succeeded", "failed"}, plan : Sold]

ASSUME GatewayAssumption == Sold \subseteq Plans /\ None \notin Sessions \cup Sale

VARIABLES
    session,     \* MockGateway.sessions: status and plan, or None
    ledger,      \* MockGateway.transactions: the statuses of each session's
                 \* transactions, oldest first
    paying,      \* the session whose outcome a goroutine has yet to apply
    granted,     \* history: the session whose payment made the contract active
    raced        \* history: sessions refunded before their payment was applied

gatewayVars == <<session, ledger, paying, granted, raced>>
vars == <<managerVars, gatewayVars>>

GatewayInit ==
    /\ session = [s \in Sessions |-> None]
    /\ ledger = [s \in Sessions |-> <<>>]
    /\ paying = [r \in Requests |-> None]
    /\ granted = None
    /\ raced = {}

CreateCheckoutSession(s) ==
    /\ session[s] = None
    /\ \E plan \in Sold : session' = [session EXCEPT ![s] =
                                         [status |-> "pending", plan |-> plan]]
    /\ UNCHANGED <<managerVars, ledger, paying, granted, raced>>

\* ErrVerificationReq: the challenge was not answered; nothing is charged.
Challenge(s) ==
    /\ session[s] # None /\ session[s].status \in Open
    /\ session' = [session EXCEPT ![s].status = "requires_action"]
    /\ UNCHANGED <<managerVars, ledger, paying, granted, raced>>

\* Mutant: a session is settled whatever its status.
SettleAgain(s, status) ==
    /\ session[s] # None
    /\ session' = [session EXCEPT ![s].status = status]
    /\ ledger' = [ledger EXCEPT ![s] = Append(@, status)]
    /\ UNCHANGED <<granted, raced>>

Settle(s, status) ==
    /\ session[s] # None /\ session[s].status \in Open
    /\ session' = [session EXCEPT ![s].status = status]
    /\ ledger' = [ledger EXCEPT ![s] = Append(@, status)]
    /\ UNCHANGED <<granted, raced>>

\* The locked part of ProcessPayment, declined: a transition is to follow.
Decline(r, s) ==
    /\ Settle(s, "failed")
    /\ Begin(r, "act", "fire", "payment_failed")
    /\ UNCHANGED paying

\* The locked part of ProcessPayment, charged: GetContract is to follow.
Charge(r, s) ==
    /\ Settle(s, "succeeded")
    /\ Begin(r, "look", "pay", session[s].plan)
    /\ paying' = [paying EXCEPT ![r] = s]

\* Who made the contract active, after a step that may have moved it.
Grants(s) ==
    granted' = IF contract' = contract THEN granted
               ELSE IF contract'.state = "active" THEN s ELSE None

\* The rest of ProcessPayment: a new contract, or a transition of the one
\* found, whose refusal is ignored.
Apply(r) ==
    /\ At(r, "act")
    /\ request[r].task = "pay"
    /\ IF request[r].plan # request[r].arg
         THEN CreateContract(request[r].arg, "active")
         ELSE FireTransition("payment_succeeded")
    /\ Grants(paying[r])
    /\ Done(r)
    /\ paying' = [paying EXCEPT ![r] = None]
    /\ UNCHANGED <<session, ledger, raced>>

\* Mutant: the subscription is not told.
RefundOnly(r, s, i) ==
    /\ ledger[s][i] = "succeeded"
    /\ ledger' = [ledger EXCEPT ![s] = Append([@ EXCEPT ![i] = "refunded"], "refunded")]
    /\ UNCHANGED <<managerVars, session, paying, granted, raced>>

\* RefundPayment of a transaction that succeeded; others are ErrCannotRefund.
\* The refund is a transaction of its own.
Refund(r, s, i) ==
    /\ ledger[s][i] = "succeeded"
    /\ ledger' = [ledger EXCEPT ![s] = Append([@ EXCEPT ![i] = "refunded"], "refunded")]
    /\ raced' = raced \cup {t \in {s} : \E q \in Requests : paying[q] = s}
    /\ Begin(r, "act", "fire", "payment_failed")
    /\ UNCHANGED <<session, paying, granted>>

\* SimulateWebhook: the contract changes without a transaction.
Webhook ==
    /\ \/ \E plan \in Sold : CreateContract(plan, "active")
       \/ \E event \in {"payment_succeeded", "payment_failed", "cancel"} :
            FireTransition(event)
    /\ Grants(None)
    /\ UNCHANGED <<request, session, ledger, paying, raced>>

\* Everything in memory is lost, payments included.
GatewayRestart ==
    /\ Restart
    /\ session' = [s \in Sessions |-> None]
    /\ ledger' = [s \in Sessions |-> <<>>]
    /\ paying' = [r \in Requests |-> None]
    /\ granted' = None
    /\ raced' = {}

Gateway(r) ==
    \/ Apply(r)
    \/ \E s \in Sessions : Decline(r, s) \/ Charge(r, s)
                             \/ \E i \in DOMAIN ledger[s] : Refund(r, s, i)

Init == ManagerInit /\ GatewayInit

Next ==
    \/ \E s \in Sessions : CreateCheckoutSession(s) \/ Challenge(s)
    \/ \E r \in Requests : Gateway(r)
    \/ Webhook
    \/ /\ ManagerWrite \/ \E r \in Requests : ManagerRequest(r)
       /\ Grants(None)
       /\ UNCHANGED <<session, ledger, paying, raced>>
    \/ GatewayRestart

Spec == Init /\ [][Next]_vars

-----------------------------------------------------------------------------
\* The types of both components' state.
TypeOK ==
    /\ ManagerTypeOK
    /\ session \in [Sessions -> Sale \cup {None}]
    /\ \A s \in Sessions : ledger[s] \in Seq({"succeeded", "failed", "refunded"})
    /\ paying \in [Requests -> Sessions \cup {None}]
    /\ granted \in Sessions \cup {None}
    /\ raced \subseteq Sessions

\* A session is charged once and refunded once, however many requests to pay
\* it and to refund it, by either of a transaction's IDs, are in flight
\* (ProcessPayment's and RefundPayment's status checks, under the lock).
LedgerMatches ==
    \A s \in Sessions :
        ledger[s] \in
            IF session[s] = None \/ session[s].status \in Open THEN {<<>>}
            ELSE IF session[s].status = "failed" THEN {<<"failed">>}
            ELSE {<<"succeeded">>, <<"refunded", "refunded">>}

Refunded(s) == \E i \in DOMAIN ledger[s] : ledger[s][i] = "refunded"

\* Once everything under way is applied, a contract a payment made active is
\* no longer active because of it when that payment has been refunded, unless
\* the refund came between the charge and its application (ProcessPayment and
\* RefundPayment change the contract after releasing the gateway's lock).
RefundTakesAccess ==
    /\ granted # None
    /\ \A r \in Requests : At(r, "idle")
    /\ Refunded(granted)
    => granted \in raced
=============================================================================
