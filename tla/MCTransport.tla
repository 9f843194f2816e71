---------------------------- MODULE MCTransport ----------------------------
(* Instances of Transport for TLC. *)
EXTENDS Transport

\* The whole catalogue, and a provider that is not in it.
AnyService == Providers \cup {"pigeon"}
=============================================================================
