------------------------------ MODULE Pipeline ------------------------------
(***************************************************************************)
(* The event consumer and the delivery queue together: an event comes in,  *)
(* rows are inserted one by one, and the poller attempts each of them as   *)
(* soon as it is there, while the handler that inserted it still runs,     *)
(* fails or is repeated.                                                   *)
(*                                                                         *)
(* The queue is taken by what it promises, DeliveryLifecycle, which        *)
(* DeliveryQueue implements for any set of tickers: an Overrun above 0     *)
(* stands for ticks that overlap (main.go starts a loop next to the host's *)
(* scheduled task and the run button), and may reopen a settled row.       *)
(***************************************************************************)
EXTENDS EventConsumer

CONSTANTS
    MaxRows,  \* as many rows as the handlings of the events can insert
    Limits,   \* on the attempts, by the configuration
    Overrun   \* attempts past the limit by overlapping ticks; 0 without them

ASSUME RowsAssumption == MaxRows \in Nat
ASSUME OverrunAssumption == Overrun \in Nat

VARIABLES status, attempts

Queue == INSTANCE DeliveryLifecycle WITH Deliveries <- 1 .. MaxRows

queueVars == <<status, attempts>>
pipeVars  == <<vars, queueVars>>

\* Mutation: a second row of an event is taken for a repetition of the first.
EnqueueOnce ==
    IF rows' = rows \/ rows # <<>> THEN UNCHANGED queueVars
                                   ELSE /\ Len(rows') <= MaxRows
                                        /\ Queue!Enqueue(Len(rows'))

\* Store.Enqueue: a row that a handler inserts is in the queue at once.
Enqueue ==
    IF rows' = rows THEN UNCHANGED queueVars
                    ELSE Len(rows') <= MaxRows /\ Queue!Enqueue(Len(rows'))

Handle(e) == HandleEvent(e) /\ Enqueue

\* A step of the host or of the administrator, or a crash.
Around ==
    /\ Admin \/ Crash \/ \E e \in Events : HandOver(e)
    /\ UNCHANGED queueVars

Attempt(d) == Queue!Attempt(d) /\ UNCHANGED vars

\* The attempt of a tick that another one has overtaken.
Overtaken(d) == Queue!Overtaken(d) /\ UNCHANGED vars

PipeInit == Init /\ Queue!Init

PipeNext ==
    \/ \E e \in Events : Handle(e)
    \/ \E d \in 1 .. MaxRows : Attempt(d) \/ Overtaken(d)
    \/ Around

PipeSpec == PipeInit /\ [][PipeNext]_pipeVars

\* Handlers go on (FairSpec of EventConsumer); the poller comes to every queued
\* row (Lifecycle!FairSpec of DeliveryQueue).  No tick need be overtaken.
PipeFairSpec ==
    /\ PipeSpec
    /\ \A e \in Events : WF_pipeVars(Handle(e))
    /\ \A d \in 1 .. MaxRows : WF_pipeVars(Attempt(d))

-----------------------------------------------------------------------------
(* Properties.                                                             *)

Handlings == Events \X (1 .. MaxRuns)

Messages ==
    UNION {UNION {{[rule |-> r, pos |-> i, target |-> c.targets[i]] :
                     i \in 1 .. Len(c.targets)} : c \in RuleConfigs[r]} :
           r \in Rules}

Delivery(i) ==
    [handling |-> <<rows[i].event, rows[i].run>>,
     message  |-> rows[i].match,
     fate     |-> IF status[i] = "queued" THEN "owed" ELSE status[i]]

\* What is left to the loops of each handling.
Left == [h \in Handlings |-> IF runs[h[1]] = h[2] THEN todo[h[1]] ELSE {}]

Made == {Delivery(i) : i \in DOMAIN rows}

Promise == INSTANCE Notification
             WITH wanted <- Left, deliveries <- Made, MayOverlap <- Overrun > 0

\* The plugin keeps its promise: each handling turns each match into one
\* delivery or waives it, and ends; and each delivery is settled in the end,
\* whatever becomes of the handling it came from, and for good, even where
\* overlapping ticks reopen it on the way (consumer.go:33-79, poll.go:27-70).
ImplementsNotification == Promise!FairSpec
=============================================================================
