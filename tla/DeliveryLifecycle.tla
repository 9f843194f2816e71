------------------------- MODULE DeliveryLifecycle -------------------------
(***************************************************************************)
(* What the queue promises of a delivery, seen through the columns status  *)
(* and attempts alone: it is enqueued once, attempted, and ends delivered  *)
(* or failed.  A tick that overlaps with another one makes its attempt     *)
(* with an outdated snapshot of the row: it decides by the attempts it     *)
(* read, and marks the row even when the other one has settled it.  The    *)
(* attempts stay within a limit of the configuration, or exceed it by      *)
(* Overrun.  DeliveryQueue implements this.                                *)
(***************************************************************************)
EXTENDS Integers

CONSTANTS
    Deliveries,
    Limits,     \* on the attempts, by the configuration
    Overrun     \* attempts past the limit by overlapping ticks; 0 without them

VARIABLES status, attempts

vars == <<status, attempts>>

Init ==
    /\ status = [d \in Deliveries |-> "absent"]
    /\ attempts = [d \in Deliveries |-> 0]

Enqueue(d) ==
    /\ status[d] = "absent"
    /\ status' = [status EXCEPT ![d] = "queued"]
    /\ UNCHANGED attempts

\* Whether n attempts may be exceeded at all.
Room(n) == \E m \in Limits : n < m + Overrun

\* One more attempt on a delivery.
Spend(d) ==
    /\ Room(attempts[d])
    /\ attempts' = [attempts EXCEPT ![d] = @ + 1]

Deliver(d) == Spend(d) /\ status' = [status EXCEPT ![d] = "delivered"]

GiveUp(d) == Spend(d) /\ status' = [status EXCEPT ![d] = "failed"]

\* Another attempt is left by the number n that was read, and there is one.
TryLater(d, n) ==
    /\ \E m \in Limits : n + 1 < m
    /\ Spend(d)
    /\ Room(attempts'[d])
    /\ status' = [status EXCEPT ![d] = "queued"]

\* The mark of an attempt does not look at the status.
Mark(d, n) == Deliver(d) \/ GiveUp(d) \/ TryLater(d, n)

Attempt(d) == status[d] = "queued" /\ Mark(d, attempts[d])

\* Another tick has counted an attempt since this one read the row.
Overtaken(d) ==
    /\ Overrun > 0
    /\ \E n \in 0 .. attempts[d] - 1 : Mark(d, n)

Next == \E d \in Deliveries : Enqueue(d) \/ Attempt(d) \/ Overtaken(d)

Spec == Init /\ [][Next]_vars

FairSpec == Spec /\ \A d \in Deliveries : WF_vars(Attempt(d))
=============================================================================
