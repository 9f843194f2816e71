-------------------------- MODULE MCEventConsumer --------------------------
(* Instances of EventConsumer for TLC. *)
EXTENDS EventConsumer

CONSTANTS e1, t1, t2

\* A rule with two targets.
TwoTargets ==
    <<{[enabled |-> TRUE, matches |-> {e1}, targets |-> <<t1, t2>>]}>>

\* A rule that names one target twice.
OneTargetTwice ==
    <<{[enabled |-> TRUE, matches |-> {e1}, targets |-> <<t1, t1>>]}>>
=============================================================================
