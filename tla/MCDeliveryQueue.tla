-------------------------- MODULE MCDeliveryQueue --------------------------
(* Instances of DeliveryQueue for TLC. *)
EXTENDS DeliveryQueue

CONSTANTS t1, loop, button
=============================================================================
