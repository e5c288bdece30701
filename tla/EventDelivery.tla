------------------------------ MODULE EventDelivery ------------------------------
(***************************************************************************)
(* Events and webhooks (tools/events.py): an event is published to its     *)
(* handlers, one after the other; one of them delivers it to a webhook     *)
(* with a bounded number of attempts, all with one delivery id, timestamp  *)
(* and signature; the receiver turns replays away.  The network loses or   *)
(* delays a request and its answer; the receiver may restart, with nothing *)
(* in its replay guard.                                                    *)
(***************************************************************************)
EXTENDS Naturals, Sequences, FiniteSets, Authorization

CONSTANTS
    Events,         \* what is published: [type, tenant, fields, depth]
    Fields,         \* of each defined event type, the fields it allows
    TenantScoped,         \* the event types of a tenant
    Handlers,       \* of each event type, "webhook" and "local" in order
    MaximumDepth, MaximumAttempts, WindowSeconds,
    MaxTime,        \* bound: seconds that pass
    MaxReceiverRestarts

VARIABLES
    event,          \* the event being published
    handled,        \* how many of its handlers have returned
    delivery,       \* the delivery of the webhook handler
    network,        \* the attempts on their way to the receiver
    clock,
    seen,           \* the replay guard of the receiver
    accepted,       \* how often the receiver acted on the delivery
    receiverRestarts

deliveryVars == <<event, handled, delivery, network, clock, seen, accepted, receiverRestarts>>

NoEvent == [at |-> "none"]
NoDelivery == [at |-> "none", attempt |-> 0, signed |-> 0]

DeliveryInit ==
    /\ event = NoEvent /\ handled = 0 /\ delivery = NoDelivery
    /\ network = {} /\ clock = 0
    /\ seen = {} /\ accepted = 0 /\ receiverRestarts = 0

Publishable(e) ==
    /\ e.type \in DOMAIN Fields
    /\ e.type \in TenantScoped => e.tenant # Nobody
    /\ "tenant_id" \notin e.fields
    /\ e.fields \subseteq Fields[e.type]
    /\ e.depth < MaximumDepth

Publish(e) ==
    /\ event = NoEvent
    /\ event' = [at |-> IF Publishable(e) THEN "handling" ELSE "refused", of |-> e]
    /\ UNCHANGED <<handled, delivery, network, clock, seen, accepted, receiverRestarts>>

Handler == Handlers[event.of.type][handled + 1]
Handling == event.at = "handling" /\ handled < Len(Handlers[event.of.type])

\* what a handler raises ends the publication: the later handlers never run
HandleLocally ==
    /\ Handling /\ Handler = "local"
    /\ \/ handled' = handled + 1 /\ UNCHANGED event
       \/ event' = [event EXCEPT !.at = "raised"] /\ UNCHANGED handled
    /\ UNCHANGED <<delivery, network, clock, seen, accepted, receiverRestarts>>

Published ==
    /\ event.at = "handling" /\ handled = Len(Handlers[event.of.type])
    /\ event' = [event EXCEPT !.at = "published"]
    /\ UNCHANGED <<handled, delivery, network, clock, seen, accepted, receiverRestarts>>

\* one signature, over the delivery id, the time and the payload, for every attempt
StartDelivery ==
    /\ Handling /\ Handler = "webhook" /\ delivery.at = "none"
    /\ delivery' = [at |-> "attempt", attempt |-> 1, signed |-> clock]
    /\ UNCHANGED <<event, handled, network, clock, seen, accepted, receiverRestarts>>

\* the name does not resolve to a public address when the delivery is made
RefuseTarget ==
    /\ Handling /\ Handler = "webhook" /\ delivery.at = "none"
    /\ event' = [event EXCEPT !.at = "raised"]
    /\ UNCHANGED <<handled, delivery, network, clock, seen, accepted, receiverRestarts>>

Send ==
    /\ delivery.at = "attempt"
    /\ delivery' = [delivery EXCEPT !.at = "waiting"]
    /\ network' = network \cup {[attempt |-> delivery.attempt, answer |-> "none"]}
    /\ UNCHANGED <<event, handled, clock, seen, accepted, receiverRestarts>>

\* only 2xx is a delivery; any other answer is raised, and never tried again
Answered(answer) ==
    IF answer = "2xx"
    THEN /\ delivery' = [delivery EXCEPT !.at = "delivered"]
         /\ handled' = handled + 1
         /\ UNCHANGED event
    ELSE /\ delivery' = [delivery EXCEPT !.at = "failed"]
         /\ event' = [event EXCEPT !.at = "raised"]
         /\ UNCHANGED handled

ReceiveAnswer(m) ==
    /\ delivery.at = "waiting"
    /\ m \in network /\ m.attempt = delivery.attempt /\ m.answer # "none"
    /\ network' = network \ {m}
    /\ Answered(m.answer)
    /\ UNCHANGED <<clock, seen, accepted, receiverRestarts>>

\* no answer in time, or no connection
TryAgain ==
    /\ delivery.at = "waiting"
    /\ IF delivery.attempt < MaximumAttempts
       THEN /\ delivery' = [delivery EXCEPT !.at = "attempt", !.attempt = @ + 1]
            /\ UNCHANGED event
       ELSE /\ delivery' = [delivery EXCEPT !.at = "failed"]
            /\ event' = [event EXCEPT !.at = "raised"]
    /\ UNCHANGED <<handled, network, clock, seen, accepted, receiverRestarts>>

Lose(m) ==
    /\ m \in network
    /\ network' = network \ {m}
    /\ UNCHANGED <<event, handled, delivery, clock, seen, accepted, receiverRestarts>>

InWindow == clock - delivery.signed <= WindowSeconds

\* mutant: each attempt is a delivery of its own to the guard
GuardKeyOfAttempt(m) == m.attempt

\* the guard knows the delivery id and the timestamp, the same for every attempt
GuardKey(m) == delivery.signed

Acceptable(m) == InWindow /\ GuardKey(m) \notin seen

\* the receiver acts on what its guard lets pass
Receive(m) ==
    /\ m \in network /\ m.answer = "none"
    /\ LET verified == m \in {n \in network : Acceptable(n)}
       IN  /\ seen' = IF verified THEN seen \cup {GuardKey(m)} ELSE seen
           /\ accepted' = IF verified THEN accepted + 1 ELSE accepted
           /\ network' = (network \ {m}) \cup {[m EXCEPT !.answer = IF verified THEN "2xx" ELSE "403"]}
    /\ UNCHANGED <<event, handled, delivery, clock, receiverRestarts>>

ReceiverRestart ==
    /\ receiverRestarts < MaxReceiverRestarts
    /\ receiverRestarts' = receiverRestarts + 1
    /\ seen' = {}
    /\ UNCHANGED <<event, handled, delivery, network, clock, accepted>>

Tick ==
    /\ clock < MaxTime
    /\ clock' = clock + 1
    /\ UNCHANGED <<event, handled, delivery, network, seen, accepted, receiverRestarts>>

Publisher ==
    \/ HandleLocally \/ Published \/ StartDelivery \/ RefuseTarget \/ Send \/ TryAgain
    \/ \E m \in network : ReceiveAnswer(m)

DeliveryNext ==
    \/ \E e \in Events : Publish(e)
    \/ Publisher
    \/ \E m \in network : Lose(m) \/ Receive(m)
    \/ ReceiverRestart \/ Tick

-----------------------------------------------------------------------------
\* However requests and answers are delayed, lost and repeated, the receiver
\* acts on a delivery once in each of its lives.
ActedOnOnce == accepted <= receiverRestarts + 1

=============================================================================
