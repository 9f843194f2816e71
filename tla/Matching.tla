----------------------------- MODULE Matching -----------------------------
(***************************************************************************)
(* What a rule makes of an event: Match and Render of                      *)
(* internal/notify/template.go, as HandleEvent calls them for one rule.    *)
(*                                                                         *)
(* A text is a sequence of letters, a letter is a tuple, and a placeholder *)
(* {{key}} is one letter, so a placeholder that comes about only where two *)
(* replaced pieces meet is not modelled.  The payload is a Go map: the     *)
(* loop over it takes its keys in any order.                               *)
(***************************************************************************)
EXTENDS Integers, Sequences, SequencesExt

CONSTANTS
    Letters,    \* of patterns and event names, the star among them
    MaxLength,  \* of a pattern and of an event name
    Keys,       \* keys a payload may have
    Values,     \* texts its values may print as
    Templates   \* titles and bodies of rules

ASSUME LengthAssumption == MaxLength \in Nat
ASSUME StarAssumption == <<"*">> \in Letters
ASSUME TextAssumption ==
    \A text \in Values \cup Templates : text \in Seq(Range(text))

VARIABLES
    pattern, template,   \* of the rule
    event, payload,
    pc,                  \* "match", "render", "loop", "done" or "skipped"
    out,                 \* the text so far
    todo                 \* the keys the loop has not come to

input == <<pattern, template, event, payload>>
vars == <<input, pc, out, todo>>

Names == UNION {[1 .. n -> Letters] : n \in 1 .. MaxLength}

Star == <<"*">>

Hole(key) == <<"{{", key, "}}">>

Payloads == UNION {[K -> Values] : K \in SUBSET Keys}

Init ==
    /\ pattern \in Names
    /\ event \in {name \in Names : Star \notin Range(name)}
    /\ template \in Templates
    /\ payload \in Payloads
    /\ pc = "match"
    /\ out = <<>>
    /\ todo = {}

\* Mutation: the star is not taken off the pattern.
MatchUntrimmed(p, e) ==
    \/ p = <<Star>> \/ p = e
    \/ Last(p) = Star /\ IsPrefix(p, e)

Match(p, e) ==
    \/ p = <<Star>> \/ p = e
    \/ Last(p) = Star /\ IsPrefix(Front(p), e)

SummaryKeys == <<"summary", "message", "title", "name", "status", "reason">>

JSON == << <<"json">> >>   \* the payload as JSON, as one letter

\* The first of the keys with a value that prints as something.
Summary(p) ==
    LET from[i \in 1 .. Len(SummaryKeys) + 1] ==
            IF i > Len(SummaryKeys) THEN JSON
            ELSE IF SummaryKeys[i] \in DOMAIN p /\ p[SummaryKeys[i]] # <<>>
            THEN p[SummaryKeys[i]]
            ELSE from[i + 1]
    IN  from[1]

\* Mutation: only the first occurrence is replaced.
ReplacedOnce(text, hole, value) ==
    IF hole \notin Range(text) THEN text
    ELSE LET i == CHOOSE n \in DOMAIN text :
                    text[n] = hole /\ \A m \in 1 .. n - 1 : text[m] # hole
         IN  SubSeq(text, 1, i - 1) \o value \o SubSeq(text, i + 1, Len(text))

\* strings.ReplaceAll
Replaced(text, hole, value) ==
    FlattenSeq([i \in DOMAIN text |->
                  IF text[i] = hole THEN value ELSE <<text[i]>>])

MatchRule ==
    /\ pc = "match"
    /\ pc' = IF Match(pattern, event) THEN "render" ELSE "skipped"
    /\ UNCHANGED <<input, out, todo>>

RenderEmpty ==
    /\ pc = "render" /\ template = <<>>
    /\ out' = event
    /\ pc' = "done"
    /\ UNCHANGED <<input, todo>>

Render ==
    /\ pc = "render" /\ template # <<>>
    /\ out' = Replaced(Replaced(template, Hole("event"), event),
                         Hole("summary"), Summary(payload))
    /\ todo' = DOMAIN payload
    /\ pc' = "loop"
    /\ UNCHANGED input

ReplaceKey(k) ==
    /\ pc = "loop"
    /\ k \in todo
    /\ out' = Replaced(out, Hole(k), payload[k])
    /\ todo' = todo \ {k}
    /\ UNCHANGED <<input, pc>>

Done ==
    /\ pc = "loop" /\ todo = {}
    /\ pc' = "done"
    /\ UNCHANGED <<input, out, todo>>

Next ==
    \/ MatchRule \/ RenderEmpty \/ Render \/ Done
    \/ \E k \in Keys : ReplaceKey(k)

Spec == Init /\ [][Next]_vars

-----------------------------------------------------------------------------
(* Properties.                                                             *)

Holes == {Hole(k) : k \in Keys \cup {"event", "summary"}}

HasHoles(text) == Range(text) \cap Holes # {}

\* A rule is used exactly for the events its pattern describes: a star at the
\* end stands for any rest, also for none, and a star elsewhere for itself
\* (template.go:31-38).
MatchIsByPrefix ==
    LET Described ==
            IF pattern[Len(pattern)] # Star THEN event = pattern
            ELSE \E n \in 0 .. Len(event) :
                    SubSeq(event, 1, n) = SubSeq(pattern, 1, Len(pattern) - 1)
    IN  /\ pc = "skipped" => ~Described
        /\ pc \in {"loop", "done"} => Described

\* What a letter of the template stands for.  The event comes first, then the
\* summary, then the payload.
Meaning(letter) ==
    CASE letter = Hole("event") -> event
      [] letter = Hole("summary") ->
           LET said == {i \in DOMAIN SummaryKeys :
                          SummaryKeys[i] \in DOMAIN payload
                            /\ payload[SummaryKeys[i]] # <<>>}
           IN  IF said = {} THEN JSON
               ELSE payload[SummaryKeys[CHOOSE i \in said :
                                          \A j \in said : i <= j]]
      [] OTHER ->
           LET named == {k \in DOMAIN payload : letter = Hole(k)}
           IN  IF named = {} THEN <<letter>>
               ELSE payload[CHOOSE k \in named : TRUE]

\* When neither the event nor a value prints a placeholder, the text is that of
\* the template with all placeholders replaced at once, whatever the order of the
\* keys, although the code replaces one after the other (template.go:13-17).
RenderIsSubstitution ==
    pc = "done" /\ template # <<>> /\ ~HasHoles(event)
        /\ (\A k \in DOMAIN payload : ~HasHoles(payload[k]))
    => out = FlattenSeq([i \in DOMAIN template |-> Meaning(template[i])])
=============================================================================
