---------------------------- MODULE MCDirectSend ----------------------------
(* Instances of DirectSend for TLC. *)
EXTENDS DirectSend

CONSTANTS t1, t2, q1, q2, a1, a2, ann, bob, k, name

\* The request all others differ from: an event that names a target.
Plain ==
    [via |-> "event", titled |-> TRUE, id |-> t1, name |-> None, to |-> {},
     refs |-> <<>>, payloadTo |-> {}, key |-> None, now |-> FALSE]

NamedTargets == [t \in Targets |-> name]

User(u) == [kind |-> "user", user |-> u, contactKind |-> "email", value |-> {}]
Email(a) == [kind |-> "email", user |-> None, contactKind |-> "email",
             value |-> {a}]

Contact(u, a) == [user |-> u, kind |-> "email", value |-> a]
AnnAndBob == {Contact(ann, a1), Contact(bob, a2)}

\* What a request may say of its target, its key and its recipients.
SendShapes ==
    {Plain,
     [Plain EXCEPT !.via = "http", !.key = k, !.id = None, !.name = name],
     [Plain EXCEPT !.via = "http", !.titled = FALSE],
     [Plain EXCEPT !.via = "http", !.key = k, !.now = TRUE],
     [Plain EXCEPT !.refs = <<User(ann)>>],
     [Plain EXCEPT !.refs = <<User(ann), Email(a2)>>],
     [Plain EXCEPT !.refs = <<User(ann), User(bob)>>, !.via = "http"],
     [Plain EXCEPT !.to = {a2}, !.refs = <<User(ann)>>],
     [Plain EXCEPT !.payloadTo = {a2}],
     [Plain EXCEPT !.via = "rule"],
     [Plain EXCEPT !.via = "rule", !.payloadTo = {a2}]}

AnyUserShapes == {[Plain EXCEPT !.refs = <<User(None)>>]}
=============================================================================
