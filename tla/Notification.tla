---------------------------- MODULE Notification ----------------------------
(***************************************************************************)
(* What the plugin as a whole promises of the events it is handed: each    *)
(* handling of an event wants a set of messages, one for each target of    *)
(* each rule that matches.  It turns each of them into one delivery or     *)
(* waives it, and ends.  A delivery, once there, is settled: delivered or  *)
(* failed, whether the handling it came from ended well or not.  Where     *)
(* attempts on one delivery may overlap, a late one can settle it anew or  *)
(* make it owed again, but not for ever.  Pipeline implements this.        *)
(***************************************************************************)
CONSTANTS
    Handlings,  \* of the events by the consumer
    Messages,   \* that a handling may want
    MayOverlap  \* whether attempts on one delivery may overlap

VARIABLES
    wanted,     \* the messages a handling has not come to yet
    deliveries  \* [handling, message, fate]; fate is "owed", "delivered" or "failed"

vars == <<wanted, deliveries>>

Init ==
    /\ wanted = [h \in Handlings |-> {}]
    /\ deliveries = {}

DeliveriesOf(h) == {d \in deliveries : d.handling = h}

\* A handling starts: nothing was owed by it before.
Want(h) ==
    /\ wanted[h] = {}
    /\ wanted'[h] # {}
    /\ wanted'[h] \subseteq Messages
    /\ DeliveriesOf(h) = {}
    /\ UNCHANGED deliveries
    /\ \A g \in Handlings \ {h} : wanted'[g] = wanted[g]

\* One delivery for a message, and no second one.
Owe(h, m) ==
    /\ \A d \in DeliveriesOf(h) : d.message # m
    /\ deliveries' = deliveries \cup
                       {[handling |-> h, message |-> m, fate |-> "owed"]}

\* It comes to a message, and owes it or waives it.
Handle(h) ==
    \E m \in wanted[h] :
        /\ wanted' = [wanted EXCEPT ![h] = @ \ {m}]
        /\ Owe(h, m) \/ UNCHANGED deliveries

\* It is broken off, all the rest is waived; the message it was at may be owed.
BreakOff(h) ==
    /\ wanted[h] # {}
    /\ wanted' = [wanted EXCEPT ![h] = {}]
    /\ (\E m \in wanted[h] : Owe(h, m)) \/ UNCHANGED deliveries

\* The process dies, with all its handlings.
Crash ==
    /\ wanted' = [h \in Handlings |-> {}]
    /\ UNCHANGED deliveries

Become(d, fate) ==
    /\ d.fate # fate
    /\ deliveries' = (deliveries \ {d}) \cup {[d EXCEPT !.fate = fate]}

Settle(d) ==
    /\ d.fate = "owed"
    /\ Become(d, "delivered") \/ Become(d, "failed")

SettleSome ==
    /\ \E d \in deliveries : Settle(d)
    /\ UNCHANGED wanted

\* An attempt that began before the delivery was settled ends after it.
Reopen(d) ==
    /\ MayOverlap
    /\ d.fate # "owed"
    /\ \E fate \in {"owed", "delivered", "failed"} : Become(d, fate)

ReopenSome ==
    /\ \E d \in deliveries : Reopen(d)
    /\ UNCHANGED wanted

Next ==
    \/ \E h \in Handlings : Want(h) \/ Handle(h) \/ BreakOff(h)
    \/ SettleSome
    \/ ReopenSome
    \/ Crash

Spec == Init /\ [][Next]_vars

SettleFor(h, m) ==
    /\ \E d \in DeliveriesOf(h) : d.message = m /\ Settle(d)
    /\ UNCHANGED wanted

\* Every handling ends, every delivery is settled, in the end for good.
FairSpec ==
    /\ Spec
    /\ <>[][~ReopenSome]_vars
    /\ \A h \in Handlings : WF_vars(Handle(h) \/ BreakOff(h))
    /\ \A h \in Handlings, m \in Messages : WF_vars(SettleFor(h, m))
=============================================================================
