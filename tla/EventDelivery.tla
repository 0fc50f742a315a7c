---------------------------- MODULE EventDelivery ----------------------------
(***************************************************************************)
(* What the metering chain promises for a usage event it has accepted      *)
(* (internal/kernel/metering_chain.go, "Write path": fan-out to every      *)
(* backend, "never drop, never block caller"): at each backend the event   *)
(* becomes durable, stored there or kept in the write-ahead log for it, and*)
(* stays so - unless the log refuses it, which nobody is told of.          *)
(* MeteringChain is shown to implement this.                               *)
(***************************************************************************)
CONSTANTS Backends, Events

VARIABLES
    accepted,   \* events recorded by the chain
    durable,    \* for each backend, the events it has or will be sent again
    refused     \* for each backend, the events the log would not take for it

vars == <<accepted, durable, refused>>

Init ==
    /\ accepted = {}
    /\ durable = [b \in Backends |-> {}]
    /\ refused = [b \in Backends |-> {}]

Accept(e) ==
    /\ accepted' = accepted \cup {e}
    /\ UNCHANGED <<durable, refused>>

Secure(b, e) ==
    /\ e \in accepted
    /\ durable' = [durable EXCEPT ![b] = @ \cup {e}]
    /\ UNCHANGED <<accepted, refused>>

Refuse(b, e) ==
    /\ e \in accepted
    /\ refused' = [refused EXCEPT ![b] = @ \cup {e}]
    /\ UNCHANGED <<accepted, durable>>

Next == \E e \in Events : Accept(e) \/ \E b \in Backends : Secure(b, e) \/ Refuse(b, e)

\* Safety alone: nothing durable is ever lost.
SafeSpec == Init /\ [][Next]_vars

Spec ==
    /\ SafeSpec
    /\ \A b \in Backends, e \in Events : WF_vars(e \notin refused[b] /\ Secure(b, e))
=============================================================================
