----------------------------- MODULE Transport -----------------------------
(***************************************************************************)
(* One delivery on its way through a provider, as often as the queue tries *)
(* it: Registry.Send (internal/notify/provider.go) and the ways in which   *)
(* the providers of the catalogue talk to the other side                   *)
(*                                                                         *)
(*   "http"  one request (postJSON, postRaw; most of them),                *)
(*   "token" a request for a token, then one request,                      *)
(*   "smtp"  the dialogue of smtpSend,                                     *)
(*   "mqtt"  connect and publish of mqttPublish,                           *)
(*   "line"  connect and write (tcpLine, syslog).                          *)
(*                                                                         *)
(* The other side answers each command with yes or no, or the connection   *)
(* breaks before or after it has acted on the command, or it never answers *)
(* at all: there is no fairness for it.                                    *)
(***************************************************************************)
EXTENDS Integers, Sequences, FiniteSets, Catalogue, Mqtt

CONSTANTS
    Services,     \* the providers to look at, known to the registry or not
    Attachments,  \* what may be attached: subset of {"none", "good", "bad"}
    Recipients,   \* how many addresses the "to" of the target has
    Topics,       \* lengths of an MQTT topic, in bytes
    Payloads,     \* lengths of an MQTT payload
    MaxAttempts,
    MaxFaults     \* bound on broken connections and expired timeouts

ASSUME AttachmentsAssumption == Attachments \subseteq {"none", "good", "bad"}
ASSUME LengthsAssumption ==
    /\ Topics \subseteq Nat /\ Payloads \subseteq Nat
    /\ \A t \in Topics, p \in Payloads : 2 + t + p <= MaxRemain
ASSUME BoundsAssumption ==
    /\ Recipients \in Nat \ {0}
    /\ MaxAttempts \in Nat \ {0}
    /\ MaxFaults \in Nat

VARIABLES
    provider,  \* of the target
    tls,       \* tls_mode of an SMTP target: "tls", "starttls" or "none"
    user,      \* whether an SMTP target has a username
    attached,  \* whether there is an attachment, "bad" if it cannot be decoded
    topic,     \* length of the topic of an MQTT target
    payload,   \* length of title and body for it
    pc,        \* the command whose answer the provider waits for
    rcpts,     \* recipients the mail server has accepted
    refused,   \* whether the broker has refused the connection
    expired,   \* whether the timeout of this attempt is over
    result,    \* of the last attempt: "none", "nil" or "error"
    attempts,
    unheard,   \* whether this attempt was refused or lost and nothing said so
    inbox,     \* what the other side took: whether it was whole and read as it
               \* was meant, and to how many of the recipients in the "to" of
               \* the target it went
    faults

target == <<provider, tls, user, attached, topic, payload>>
vars == <<target, pc, rcpts, refused, expired, result, attempts, unheard, inbox,
          faults>>

TypeOK ==
    /\ provider \in Services
    /\ tls \in {"tls", "starttls", "none"}
    /\ user \in BOOLEAN
    /\ attached \in Attachments
    /\ topic \in Topics
    /\ payload \in Payloads
    /\ unheard \in BOOLEAN
    /\ pc \in {"idle", "encode", "request", "login", "dial", "starttls", "auth", "mail",
               "rcpt", "data", "body", "sent", "quit", "connack", "publish",
               "write"}
    /\ rcpts \in 0 .. Recipients
    /\ refused \in BOOLEAN
    /\ expired \in BOOLEAN
    /\ result \in {"none", "nil", "error"}
    /\ attempts \in 0 .. MaxAttempts
    /\ inbox \in Seq([whole : BOOLEAN, read : BOOLEAN, to : 0 .. Recipients])
    /\ faults \in 0 .. MaxFaults

Init ==
    /\ provider \in Services
    /\ tls \in IF provider = "smtp" THEN {"tls", "starttls", "none"} ELSE {"none"}
    /\ user \in IF provider = "smtp" THEN BOOLEAN ELSE {FALSE}
    /\ attached \in Attachments
    /\ topic \in Topics /\ payload \in Payloads
    /\ provider # "mqtt" => \A n \in Topics : topic <= n
    /\ provider # "mqtt" => \A n \in Payloads : payload <= n
    /\ unheard = FALSE
    /\ pc = "idle"
    /\ rcpts = 0
    /\ refused = FALSE
    /\ expired = FALSE
    /\ result = "none"
    /\ attempts = 0
    /\ inbox = <<>>
    /\ faults = 0

Goto(label) == pc' = label /\ UNCHANGED <<rcpts, refused, expired, result>>

\* Send returns; the connection is closed.
Return(r) ==
    /\ result' = r
    /\ pc' = "idle"
    /\ rcpts' = 0
    /\ refused' = FALSE
    /\ expired' = FALSE

Fault == faults < MaxFaults /\ faults' = faults + 1

Take(whole, to) ==
    inbox' = Append(inbox,
                    [whole |-> whole, to |-> to,
                     read  |-> provider = "mqtt" => ReadsBack(topic, payload)])

\* A message by anything but SMTP: it carries the attachments, those of Discord
\* decoded, or drops them, and names all recipients of the target or none.
TakeMessage ==
    Take(\/ attached = "none" \/ provider \in PassingProviders
         \/ attached = "good" /\ provider \in AttachingProviders,
         IF provider \in AddressedProviders THEN Recipients ELSE 0)

Kind == KindOf(provider)

-----------------------------------------------------------------------------
(* The queue and the registry.                                             *)

FirstCommand ==
    IF provider = "discord" /\ attached # "none" THEN "encode"
    ELSE CASE Kind = "http"  -> "request"
           [] Kind = "token" -> "login"
           [] OTHER          -> "dial"

\* Mutation: the outcome of the attempt before is not looked at.
SendAnyway ==
    /\ pc = "idle" /\ provider \in Providers
    /\ attempts < MaxAttempts
    /\ attempts' = attempts + 1
    /\ result' = "none"
    /\ unheard' = FALSE
    /\ pc' = FirstCommand
    /\ UNCHANGED <<target, rcpts, refused, expired, inbox, faults>>

\* The poller tries as long as the attempts last and no provider returned nil.
Send ==
    /\ pc = "idle" /\ result # "nil" /\ provider \in Providers
    /\ attempts < MaxAttempts
    /\ attempts' = attempts + 1
    /\ result' = "none"
    /\ unheard' = FALSE
    /\ pc' = FirstCommand
    /\ UNCHANGED <<target, rcpts, refused, expired, inbox, faults>>

\* A target may name a provider that the registry does not know.
SendToNoProvider ==
    /\ pc = "idle" /\ provider \notin Providers
    /\ attempts < MaxAttempts
    /\ attempts' = attempts + 1
    /\ result' = "error"
    /\ UNCHANGED <<target, unheard, pc, rcpts, refused, expired, inbox, faults>>

\* postDiscordWebhook puts the attachments into the body before it sends it.
Encode ==
    /\ pc = "encode"
    /\ IF attached = "bad" THEN Return("error") ELSE Goto("request")
    /\ UNCHANGED <<target, unheard, attempts, inbox, faults>>

Expire ==
    /\ pc # "idle" /\ ~expired
    /\ Fault
    /\ expired' = TRUE
    /\ UNCHANGED <<target, unheard, pc, rcpts, refused, result, attempts, inbox>>

\* Mutation: the request is made without the context.
HeedsContextAtLogin == pc = "login" \/ (Kind # "smtp" /\ pc = "dial")

\* What waits with the context gives up: HTTP calls, and DialContext.
HeedsContext ==
    pc \in {"request", "login"} \/ (Kind # "smtp" /\ pc = "dial")

GiveUp ==
    /\ expired
    /\ HeedsContext
    /\ Return("error")
    /\ UNCHANGED <<target, unheard, attempts, inbox, faults>>

-----------------------------------------------------------------------------
(* Answers.                                                                *)

\* The commands before the message: the command that follows a yes.
AfterYes ==
    IF pc = "login" THEN "request"
    ELSE IF pc = "dial" /\ Kind = "line" THEN "write"
    ELSE IF pc = "dial" /\ Kind = "mqtt" THEN "connack"
    ELSE IF pc = "dial" /\ tls = "starttls" THEN "starttls"
    ELSE IF pc \in {"dial", "starttls"} /\ user THEN "auth"
    ELSE IF pc \in {"dial", "starttls", "auth"} THEN "mail"
    ELSE IF pc = "mail" THEN "rcpt"
    ELSE "body"   \* after "data"

Preliminary == {"login", "dial", "starttls", "auth", "mail", "data"}

Yes ==
    /\ pc \in Preliminary
    /\ Goto(AfterYes)
    /\ UNCHANGED <<target, unheard, attempts, inbox, faults>>

\* Mutation: off by one in the loop over the addresses.
RcptYesOnceMore ==
    /\ pc = "rcpt"
    /\ rcpts' = rcpts + 1
    /\ pc' = IF rcpts' > Recipients THEN "data" ELSE "rcpt"
    /\ UNCHANGED <<target, unheard, refused, expired, result, attempts, inbox, faults>>

\* One RCPT for each address.
RcptYes ==
    /\ pc = "rcpt"
    /\ rcpts' = rcpts + 1
    /\ pc' = IF rcpts' = Recipients THEN "data" ELSE "rcpt"
    /\ UNCHANGED <<target, unheard, refused, expired, result, attempts, inbox, faults>>

\* Mutation: an address that is refused is passed over.
NoPassesOver ==
    /\ pc \in Preliminary \cup {"rcpt", "request", "body"}
    /\ IF pc = "rcpt" /\ rcpts > 0 THEN Goto("data") ELSE Return("error")
    /\ UNCHANGED <<target, unheard, attempts, inbox, faults>>

\* No, to any command of HTTP or SMTP but QUIT: nothing was taken.
No ==
    /\ pc \in Preliminary \cup {"rcpt", "request", "body"}
    /\ Return("error")
    /\ UNCHANGED <<target, unheard, attempts, inbox, faults>>

\* The connection breaks before the other side has acted.
Break ==
    /\ pc \in Preliminary \cup {"rcpt", "request", "body"}
    /\ Fault
    /\ Return("error")
    /\ UNCHANGED <<target, unheard, attempts, inbox>>

\* A 2xx answer, whose body is not looked at, or one that is lost or late.
RequestYes ==
    /\ pc = "request"
    /\ TakeMessage
    /\ \/ Return("nil") /\ UNCHANGED faults
       \/ Return("error") /\ (IF expired THEN UNCHANGED faults ELSE Fault)
    /\ UNCHANGED <<target, unheard, attempts>>

\* The other side refuses with 2xx and says so in the body, which postJSON,
\* postRaw and postForm do not read, and which WeChat and Bluesky decode for
\* nothing but the token.
RefusalUnheard ==
    /\ pc = "request"
    /\ Return("nil")
    /\ unheard' = TRUE
    /\ UNCHANGED <<target, attempts, inbox, faults>>

\* Mutation: the error of writeEmail is dropped.
BadBodyUnseen ==
    /\ pc = "body" /\ attached = "bad"
    /\ Take(FALSE, rcpts)
    /\ Goto("sent")
    /\ UNCHANGED <<target, unheard, attempts, faults>>

\* writeEmail fails before it has written anything when an attachment cannot
\* be decoded; smtpSend then ends the data, and the server has a mail of
\* nothing.
BadBody ==
    /\ pc = "body" /\ attached = "bad"
    /\ \/ Take(FALSE, rcpts)
       \/ UNCHANGED inbox
    /\ Return("error")
    /\ UNCHANGED <<target, unheard, attempts, faults>>

\* The server takes the message; its answer to the final dot may be lost.
BodyYes ==
    /\ pc = "body" /\ attached # "bad"
    /\ Take(TRUE, rcpts)
    /\ \/ Goto("sent") /\ UNCHANGED faults
       \/ Return("error") /\ Fault
    /\ UNCHANGED <<target, unheard, attempts>>

\* The one look smtpSend takes at its context.
CheckContext ==
    /\ pc = "sent"
    /\ IF expired THEN Return("error") ELSE Goto("quit")
    /\ UNCHANGED <<target, unheard, attempts, inbox, faults>>

\* QUIT: anything but a yes makes the whole send an error.
Quit ==
    /\ pc = "quit"
    /\ \/ Return("nil") /\ UNCHANGED faults
       \/ Return("error") /\ Fault
    /\ UNCHANGED <<target, unheard, attempts, inbox>>

\* mqttPublish reads the answer of the broker and does not look at it.
Connack ==
    /\ pc = "connack"
    /\ refused' \in BOOLEAN
    /\ pc' = "publish"
    /\ UNCHANGED <<target, unheard, rcpts, expired, result, attempts, inbox, faults>>

\* PUBLISH and DISCONNECT, neither of which the broker answers: a publication
\* that is lost on its way, or that the broker cannot make sense of, is not
\* missed.
Publish ==
    /\ pc = "publish" /\ ~refused
    /\ \/ TakeMessage /\ Return("nil") /\ UNCHANGED <<unheard, faults>>
       \/ /\ UNCHANGED inbox /\ Return("nil") /\ unheard' = TRUE
          /\ IF ReadsBack(topic, payload) THEN Fault ELSE UNCHANGED faults
       \/ (UNCHANGED inbox \/ TakeMessage) /\ Return("error") /\ Fault
          /\ UNCHANGED unheard
    /\ UNCHANGED <<target, attempts>>

\* A write to a connection that the broker has closed may well succeed.
PublishUnheard ==
    /\ pc = "publish" /\ refused
    /\ \/ Return("nil") /\ unheard' = TRUE
       \/ Return("error") /\ UNCHANGED unheard
    /\ UNCHANGED <<target, attempts, inbox, faults>>

\* The one write of tcpLine and of the syslogs.  It returns when the bytes are
\* on their way: they may get lost, and syslog is UDP.
Write ==
    /\ pc = "write"
    /\ \/ TakeMessage /\ Return("nil") /\ UNCHANGED <<unheard, faults>>
       \/ UNCHANGED <<inbox, faults>> /\ Return("nil") /\ unheard' = TRUE
       \/ (UNCHANGED inbox \/ TakeMessage) /\ Return("error") /\ Fault
          /\ UNCHANGED unheard
    /\ UNCHANGED <<target, attempts>>

-----------------------------------------------------------------------------
Client ==
    Send \/ SendToNoProvider \/ Encode \/ GiveUp \/ CheckContext \/ Write

OtherSide ==
    \/ Yes        \/ RcptYes \/ No      \/ Break \/ RequestYes
    \/ BodyYes    \/ BadBody \/ Quit    \/ Connack \/ Publish
    \/ PublishUnheard \/ RefusalUnheard

Next == Client \/ Expire \/ OtherSide

Spec == Init /\ [][Next]_vars

\* The poller and the providers go on by themselves, the other side need not.
FairSpec == Spec /\ WF_vars(Client)

-----------------------------------------------------------------------------
(* Properties.                                                             *)

\* A message of a provider that declares dynamic recipients names all of those
\* the delivery was given, or it is not taken at all: whatever a mail server
\* says to each of them, a send fails for everyone or for no one.  Viber alone
\* declares them and has a receiver of its own (provider.go:151-163,445-449,
\* social_chat.go:74-78).
AllOrNothing ==
    provider \in DynamicProviders \ {"viber"} =>
        \A i \in DOMAIN inbox : inbox[i].to = Recipients

\* What nil is worth, the error for which the queue marks a row delivered.  By
\* SMTP it is the server's word: it has the mail with all of its attachments,
\* never the empty mail of one that could not be written.  By Discord no message
\* goes out whose attachments cannot be decoded.  By any provider but SMTP a nil
\* can also stand for a refusal that came with 2xx, a line that was lost, or a
\* publication nobody answers: only then can it be that nothing was accepted
\* (provider.go:313-322,454-467, http_api.go:376-385, final_parity.go:159,184).
NilMeansAccepted ==
    result = "nil" =>
        \/ \E i \in DOMAIN inbox :
               attached = "none" \/ provider \in AttachingProviders => inbox[i].whole
        \/ unheard /\ provider # "smtp" /\ (provider = "discord" => attached # "bad")

\* What a broker takes it reads as it was meant, whatever the lengths, unless
\* the topic is longer than the two bytes of its length can say
\* (final_parity.go:195-213).
PublicationsAreRead ==
    topic < 65536 => \A i \in DOMAIN inbox : inbox[i].read

\* Each message the other side took more than once is owed to a connection that
\* broke or a timeout that ran out after it was taken (provider.go:459-467).
DuplicatesNeedFaults ==
    Cardinality({i \in DOMAIN inbox : inbox[i].whole \/ Kind # "smtp"}) <= 1 + faults

\* The timeout ends every send but those over SMTP and MQTT, whatever the other
\* side does (provider.go:141-146).
SendsTimeOut == expired /\ Kind \notin {"smtp", "mqtt"} ~> pc = "idle"

\* docs/operations.md:65: timeout_ms "is the per-send context timeout - applied
\* uniformly to every provider including SMTP".
TimeoutEndsTheSend == expired ~> pc = "idle"
=============================================================================
