---------------------------- MODULE MCAdminPanel ----------------------------
(* Instances of AdminPanel for TLC. *)
EXTENDS AdminPanel, TLC

CONSTANTS s1, s2, rules, contacts, ann, bob

SlotSymmetry == Permutations(Slots)
=============================================================================
