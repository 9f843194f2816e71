-------------------------- MODULE TransportProofs --------------------------
(***************************************************************************)
(* Proofs about Transport, for any part of the catalogue, any number of    *)
(* recipients, attempts and faults.                                        *)
(***************************************************************************)
EXTENDS Transport, SequenceTheorems, FiniteSetTheorems, WellFoundedInduction,
        TLAPS

Item == [whole : BOOLEAN, read : BOOLEAN, to : 0 .. Recipients]

\* The mail server has said yes to all recipients when the message is sent.
RcptsInv ==
    /\ pc \in {"data", "body"} => rcpts = Recipients
    /\ pc = "rcpt" => rcpts < Recipients
    /\ pc \notin {"rcpt", "data", "body", "sent", "quit"} => rcpts = 0

\* Each provider gives the commands of its kind only, and Discord makes its
\* request when the attachments are in the body.
KindInv ==
    /\ pc \in {"connack", "publish"} => provider = "mqtt"
    /\ pc = "write" => provider \in LineProviders
    /\ pc = "login" => provider \in TokenProviders
    /\ pc = "encode" => provider = "discord"
    /\ pc = "request" => provider # "smtp" /\ (provider = "discord" => attached # "bad")

\* Something that counts as the message was taken.
Accepted ==
    \E i \in DOMAIN inbox :
        attached = "none" \/ provider \in AttachingProviders => inbox[i].whole

\* A mail is accepted before the dialogue comes to its end.
MailInv == pc \in {"sent", "quit"} => Accepted

\* The inductive invariant behind AllOrNothing and NilMeansAccepted.
TransportInv ==
    /\ TypeOK
    /\ RcptsInv
    /\ KindInv
    /\ MailInv
    /\ AllOrNothing
    /\ NilMeansAccepted

-----------------------------------------------------------------------------
\* What is taken is an item, and goes to the end of the inbox.
LEMMA TakeEffect ==
    ASSUME inbox \in Seq(Item), NEW whole \in BOOLEAN,
           NEW to \in 0 .. Recipients, Take(whole, to)
    PROVE  /\ inbox' \in Seq(Item)
           /\ \A i \in DOMAIN inbox : i \in DOMAIN inbox' /\ inbox'[i] = inbox[i]
           /\ \E new \in DOMAIN inbox' :
                 /\ inbox'[new].whole = whole /\ inbox'[new].to = to
                 /\ \A i \in DOMAIN inbox' : i = new \/ i \in DOMAIN inbox
  <1> DEFINE read == provider = "mqtt" => ReadsBack(topic, payload)
             item == [whole |-> whole, to |-> to, read |-> read]
  <1>1. read \in BOOLEAN
    OBVIOUS
  <1>2. item \in Item
    BY <1>1 DEF Item
  <1>3. inbox' = Append(inbox, item)
    BY DEF Take
  <1>4. item.whole = whole /\ item.to = to
    OBVIOUS
  <1> HIDE DEF item, read
  <1>5. /\ inbox' \in Seq(Item) /\ Len(inbox') = Len(inbox) + 1
        /\ \A i \in 1 .. Len(inbox) : inbox'[i] = inbox[i]
        /\ inbox'[Len(inbox) + 1] = item
    BY <1>2, <1>3, AppendProperties
  <1>6. Len(inbox) \in Nat /\ DOMAIN inbox = 1 .. Len(inbox)
          /\ DOMAIN inbox' = 1 .. Len(inbox')
    BY <1>5, LenProperties
  <1> QED
    BY <1>4, <1>5, <1>6

\* The providers with dynamic recipients, Viber apart, read the "to" that the
\* recipients are put into; each kind but HTTP has providers of its own.
LEMMA CatalogueFacts ==
    /\ DynamicProviders \ {"viber"} \subseteq AddressedProviders
    /\ \A p : KindOf(p) = "mqtt" => p = "mqtt"
    /\ \A p : KindOf(p) = "line" => p \in LineProviders
    /\ \A p : KindOf(p) = "token" => p \in TokenProviders
    /\ \A p : KindOf(p) = "http" => p # "smtp"
    /\ \A p \in LineProviders \cup TokenProviders \cup {"mqtt"} :
          p \notin AttachingProviders
  <1>1. DynamicProviders \ {"viber"} \subseteq AddressedProviders
    BY DEF DynamicProviders, AddressedProviders, AddressedPhone, AddressedPush,
           AddressedChat, AddressedSMS, AddressedRemaining, AddressedParity,
           smsGatewayProviders
  <1>2. /\ \A p : KindOf(p) = "mqtt" => p = "mqtt"
        /\ \A p : KindOf(p) = "line" => p \in LineProviders
        /\ \A p : KindOf(p) = "token" => p \in TokenProviders
        /\ \A p : KindOf(p) = "http" => p # "smtp"
    BY DEF KindOf, LineProviders, TokenProviders
  <1>3. \A p \in LineProviders \cup TokenProviders \cup {"mqtt"} :
           p \notin AttachingProviders
    BY DEF LineProviders, TokenProviders, AttachingProviders
  <1> QED
    BY <1>1, <1>2, <1>3

\* A message by anything but SMTP, after Discord has encoded what is attached.
LEMMA TakeMessageEffect ==
    ASSUME TransportInv, TakeMessage, UNCHANGED target,
           provider # "smtp", provider = "discord" => attached # "bad"
    PROVE  inbox' \in Seq(Item) /\ Accepted' /\ AllOrNothing'
  <1> DEFINE whole == \/ attached = "none" \/ provider \in PassingProviders
                      \/ attached = "good" /\ provider \in AttachingProviders
             to    == IF provider \in AddressedProviders THEN Recipients ELSE 0
  <1>1. whole \in BOOLEAN /\ to \in 0 .. Recipients /\ Take(whole, to)
    <2>1. Take(whole, to)
      BY DEF TakeMessage
    <2>2. whole \in BOOLEAN /\ to \in 0 .. Recipients
      BY BoundsAssumption
    <2> QED
      BY <2>1, <2>2
  <1>2. provider \in DynamicProviders \ {"viber"} => to = Recipients
    BY CatalogueFacts
  <1>3. attached = "none" \/ provider \in AttachingProviders => whole
    BY AttachmentsAssumption DEF TransportInv, TypeOK, AttachingProviders
  <1> HIDE DEF whole, to
  <1>4. /\ inbox' \in Seq(Item)
        /\ \A i \in DOMAIN inbox : i \in DOMAIN inbox' /\ inbox'[i] = inbox[i]
        /\ \E new \in DOMAIN inbox' :
              /\ inbox'[new].whole = whole /\ inbox'[new].to = to
              /\ \A i \in DOMAIN inbox' : i = new \/ i \in DOMAIN inbox
    BY <1>1, TakeEffect DEF TransportInv, TypeOK, Item
  <1>5. Accepted'
    BY <1>3, <1>4 DEF Accepted, target
  <1>6. AllOrNothing'
    BY <1>2, <1>4 DEF TransportInv, AllOrNothing, target
  <1> QED
    BY <1>4, <1>5, <1>6

\* A step that takes nothing leaves what was taken as it is.
LEMMA NothingTaken ==
    ASSUME TransportInv, UNCHANGED <<inbox, target>>
    PROVE  /\ inbox' \in Seq(Item)
           /\ Accepted' = Accepted
           /\ AllOrNothing'
  BY DEF TransportInv, TypeOK, Item, Accepted, AllOrNothing, target

\* The first state of an attempt satisfies the invariant.
LEMMA TransportInit == Init => TransportInv
  <1> SUFFICES ASSUME Init PROVE TransportInv
    OBVIOUS
  <1>1. inbox = <<>> /\ DOMAIN inbox = {}
    BY DEF Init
  <1>2. inbox \in Seq([whole : BOOLEAN, read : BOOLEAN, to : 0 .. Recipients])
    BY <1>1
  <1>3. TypeOK
    <2>1. tls \in {"tls", "starttls", "none"} /\ user \in BOOLEAN
      BY DEF Init
    <2>2. /\ provider \in Services /\ attached \in Attachments
          /\ topic \in Topics /\ payload \in Payloads
      BY DEF Init
    <2>3. /\ rcpts \in 0 .. Recipients /\ attempts \in 0 .. MaxAttempts
          /\ faults \in 0 .. MaxFaults
      BY BoundsAssumption DEF Init
    <2>4. /\ unheard \in BOOLEAN /\ refused \in BOOLEAN /\ expired \in BOOLEAN
          /\ pc = "idle" /\ result = "none"
      BY DEF Init
    <2> QED
      BY <1>2, <2>1, <2>2, <2>3, <2>4 DEF TypeOK
  <1>4. RcptsInv /\ KindInv /\ MailInv /\ NilMeansAccepted
    BY DEF Init, RcptsInv, KindInv, MailInv, NilMeansAccepted
  <1>5. AllOrNothing
    BY <1>1 DEF AllOrNothing
  <1> QED
    BY <1>3, <1>4, <1>5 DEF TransportInv

\* A step between two commands, which takes nothing and returns nothing.
LEMMA Between ==
    ASSUME TransportInv, UNCHANGED <<target, inbox, refused, unheard>>,
           result' \in {result, "none"}, result' = "nil" => UNCHANGED result,
           attempts' \in 0 .. MaxAttempts, faults' \in 0 .. MaxFaults,
           rcpts' \in 0 .. Recipients, expired' \in BOOLEAN,
           pc' \in {"idle", "encode", "request", "login", "dial", "starttls",
                    "auth", "mail", "rcpt", "data", "body", "sent", "quit",
                    "connack", "publish", "write"},
           RcptsInv',
           pc' \in {"connack", "publish"} => provider = "mqtt",
           pc' = "write" => provider \in LineProviders,
           pc' = "login" => provider \in TokenProviders,
           pc' = "encode" => provider = "discord",
           pc' = "request" =>
               provider # "smtp" /\ (provider = "discord" => attached # "bad"),
           pc' \in {"sent", "quit"} => Accepted
    PROVE  TransportInv'
  <1>1. inbox' \in Seq(Item) /\ Accepted' = Accepted /\ AllOrNothing'
    BY NothingTaken
  <1>2. TypeOK'
    BY <1>1 DEF TransportInv, TypeOK, Item, target
  <1>3. KindInv' /\ MailInv'
    BY <1>1 DEF KindInv, MailInv, target
  <1>4. NilMeansAccepted'
    BY DEF TransportInv, NilMeansAccepted, target
  <1> QED
    BY <1>1, <1>2, <1>3, <1>4 DEF TransportInv

\* A provider returns, and was right if it returned nil.
LEMMA Returned ==
    ASSUME TransportInv, UNCHANGED <<target, attempts>>,
           NEW r \in {"nil", "error"}, Return(r),
           inbox' \in Seq(Item), AllOrNothing',
           faults' \in 0 .. MaxFaults, unheard' \in BOOLEAN,
           r = "nil" =>
               \/ Accepted'
               \/ unheard' /\ provider # "smtp" /\ (provider = "discord" => attached # "bad")
    PROVE  TransportInv'
  <1>1. TypeOK'
    <2>1. /\ pc' = "idle" /\ rcpts' \in 0 .. Recipients
          /\ refused' = FALSE /\ expired' = FALSE
          /\ result' \in {"none", "nil", "error"}
      BY BoundsAssumption DEF Return
    <2> QED
      BY <2>1 DEF TransportInv, TypeOK, Item, target
  <1>2. RcptsInv' /\ KindInv' /\ MailInv'
    BY DEF RcptsInv, KindInv, MailInv, Return
  <1>3. NilMeansAccepted'
    BY DEF NilMeansAccepted, Return, Accepted, target
  <1> QED
    BY <1>1, <1>2, <1>3 DEF TransportInv

\* Every step keeps the invariant.
LEMMA TransportStep == TransportInv /\ [Next]_vars => TransportInv'
  <1> SUFFICES ASSUME TransportInv, [Next]_vars PROVE TransportInv'
    OBVIOUS
  <1>0. /\ attempts \in 0 .. MaxAttempts /\ faults \in 0 .. MaxFaults
        /\ rcpts \in 0 .. Recipients /\ expired \in BOOLEAN
        /\ unheard \in BOOLEAN
        /\ inbox \in Seq(Item)
    BY DEF TransportInv, TypeOK, Item
  <1>f. Fault => faults' \in 0 .. MaxFaults
    BY <1>0, BoundsAssumption DEF Fault
  <1>e. ASSUME Return("error"), UNCHANGED <<target, inbox, attempts, unheard>>,
               faults' \in 0 .. MaxFaults
        PROVE  TransportInv'
    BY <1>0, <1>e, NothingTaken, Returned
  <1>1. ASSUME Send PROVE TransportInv'
    <2>1. FirstCommand \in {"encode", "request", "login", "dial"}
      BY DEF FirstCommand
    <2>2. attempts' \in 0 .. MaxAttempts
      BY <1>0, <1>1, BoundsAssumption DEF Send
    <2>3. inbox' \in Seq(Item) /\ Accepted' = Accepted /\ AllOrNothing'
      BY <1>1, NothingTaken DEF Send
    <2>4. TypeOK'
      BY <1>1, <2>1, <2>2, <2>3 DEF TransportInv, TypeOK, Item, Send, target
    <2>5. KindInv'
      BY <1>1, CatalogueFacts DEF Send, FirstCommand, Kind, KindInv, target
    <2> QED
      BY <1>1, <2>1, <2>3, <2>4, <2>5
         DEF TransportInv, RcptsInv, MailInv, NilMeansAccepted, Send
  <1>2. ASSUME SendToNoProvider PROVE TransportInv'
    <2>1. attempts' \in 0 .. MaxAttempts
      BY <1>0, <1>2, BoundsAssumption DEF SendToNoProvider
    <2>2. inbox' \in Seq(Item) /\ Accepted' = Accepted /\ AllOrNothing'
      BY <1>2, NothingTaken DEF SendToNoProvider
    <2>3. TypeOK'
      BY <1>2, <2>1, <2>2 DEF TransportInv, TypeOK, Item, SendToNoProvider, target
    <2> QED
      BY <1>2, <2>2, <2>3
         DEF TransportInv, RcptsInv, KindInv, MailInv, NilMeansAccepted,
             SendToNoProvider
  <1>3. ASSUME Encode PROVE TransportInv'
    <2>1. CASE attached = "bad"
      BY <1>0, <1>3, <1>e, <2>1 DEF Encode
    <2>2. CASE attached # "bad"
      BY <1>0, <1>3, <2>2, Between DEF Encode, Goto, TransportInv, RcptsInv, KindInv
    <2> QED
      BY <2>1, <2>2
  <1>4. ASSUME Expire PROVE TransportInv'
    BY <1>0, <1>4, <1>f, Between
       DEF Expire, TransportInv, TypeOK, RcptsInv, KindInv, MailInv
  <1>5. ASSUME GiveUp PROVE TransportInv'
    BY <1>0, <1>5, <1>e DEF GiveUp
  <1>6. ASSUME Yes PROVE TransportInv'
    <2>1. AfterYes \in {"request", "write", "connack", "starttls", "auth",
                        "mail", "rcpt", "body"}
      BY DEF AfterYes
    <2>2. AfterYes = "connack" => provider = "mqtt"
      BY CatalogueFacts DEF AfterYes, Kind
    <2>3. AfterYes = "write" => provider \in LineProviders
      BY CatalogueFacts DEF AfterYes, Kind
    <2>5. pc' = AfterYes
      BY <1>6 DEF Yes, Goto
    <2>6. AfterYes = "request" => provider \notin {"smtp", "discord"}
      BY <1>6, CatalogueFacts
         DEF AfterYes, Yes, TransportInv, KindInv, TokenProviders
    <2>4. RcptsInv'
      BY <1>6, <2>5, BoundsAssumption
         DEF AfterYes, Yes, Goto, Preliminary, TransportInv, RcptsInv
    <2> HIDE DEF AfterYes
    <2> QED
      BY <1>0, <1>6, <2>1, <2>2, <2>3, <2>4, <2>5, <2>6, Between DEF Yes, Goto
  <1>7. ASSUME RcptYes PROVE TransportInv'
    <2>1. rcpts' = rcpts + 1 /\ rcpts < Recipients
      BY <1>7 DEF RcptYes, TransportInv, RcptsInv
    <2>2. rcpts' \in 0 .. Recipients
      BY <1>0, <2>1, BoundsAssumption
    <2>3. RcptsInv' /\ pc' \in {"rcpt", "data"}
      BY <1>0, <1>7, <2>1, BoundsAssumption DEF RcptYes, RcptsInv
    <2> QED
      BY <1>0, <1>7, <2>2, <2>3, Between DEF RcptYes
  <1>8. ASSUME No PROVE TransportInv'
    BY <1>0, <1>8, <1>e DEF No
  <1>9. ASSUME Break PROVE TransportInv'
    BY <1>0, <1>9, <1>e, <1>f DEF Break
  <1>10. ASSUME RequestYes PROVE TransportInv'
    <2>1. inbox' \in Seq(Item) /\ Accepted' /\ AllOrNothing'
      BY <1>10, TakeMessageEffect DEF RequestYes, TransportInv, KindInv
    <2>2. faults' \in 0 .. MaxFaults /\ \E r \in {"nil", "error"} : Return(r)
      BY <1>0, <1>10, <1>f DEF RequestYes
    <2> QED
      BY <1>0, <1>10, <2>1, <2>2, Returned DEF RequestYes
  <1>11. ASSUME RefusalUnheard PROVE TransportInv'
    BY <1>0, <1>11, NothingTaken, Returned DEF RefusalUnheard, TransportInv, KindInv
  <1>12. ASSUME BodyYes \/ BadBody PROVE TransportInv'
    <2>0. UNCHANGED <<target, attempts, unheard>> /\ faults' \in 0 .. MaxFaults
            /\ rcpts = Recipients
      BY <1>0, <1>f, <1>12 DEF BodyYes, BadBody, TransportInv, RcptsInv
    <2>1. ASSUME NEW whole \in BOOLEAN, Take(whole, rcpts)
          PROVE  inbox' \in Seq(Item) /\ AllOrNothing' /\ (whole => Accepted')
      <3>1. /\ inbox' \in Seq(Item)
            /\ \A i \in DOMAIN inbox : i \in DOMAIN inbox' /\ inbox'[i] = inbox[i]
            /\ \E new \in DOMAIN inbox' :
                  /\ inbox'[new].whole = whole /\ inbox'[new].to = rcpts
                  /\ \A i \in DOMAIN inbox' : i = new \/ i \in DOMAIN inbox
        BY <1>0, <2>1, TakeEffect
      <3>2. AllOrNothing'
        BY <2>0, <3>1 DEF TransportInv, AllOrNothing, target
      <3> QED
        BY <3>1, <3>2 DEF Accepted
    <2>2. CASE Return("error")
      <3>1. inbox' \in Seq(Item) /\ AllOrNothing'
        BY <1>12, <2>0, <2>1, NothingTaken DEF BodyYes, BadBody
      <3> QED
        BY <1>0, <2>0, <2>2, <3>1, Returned
    <2>3. CASE BodyYes /\ Goto("sent")
      <3>1. inbox' \in Seq(Item) /\ AllOrNothing' /\ Accepted'
        BY <2>1, <2>3 DEF BodyYes
      <3>2. TypeOK'
        BY <2>0, <2>3, <3>1 DEF TransportInv, TypeOK, Item, Goto, target
      <3>3. RcptsInv' /\ KindInv' /\ MailInv'
        BY <2>3, <3>1 DEF RcptsInv, KindInv, MailInv, Goto
      <3>4. NilMeansAccepted'
        BY <3>1 DEF NilMeansAccepted, Accepted
      <3> QED
        BY <3>1, <3>2, <3>3, <3>4 DEF TransportInv
    <2> QED
      BY <1>12, <2>2, <2>3 DEF BodyYes, BadBody
  <1>13. ASSUME CheckContext PROVE TransportInv'
    <2>1. CASE expired
      BY <1>0, <1>13, <1>e, <2>1 DEF CheckContext
    <2>2. CASE ~expired
      BY <1>0, <1>13, <2>2, Between DEF CheckContext, Goto, TransportInv, MailInv,
                                    RcptsInv
    <2> QED
      BY <2>1, <2>2
  <1>14. ASSUME Quit PROVE TransportInv'
    <2>1. Accepted' /\ inbox' \in Seq(Item) /\ AllOrNothing'
      BY <1>14, NothingTaken DEF Quit, TransportInv, MailInv
    <2>2. faults' \in 0 .. MaxFaults /\ \E r \in {"nil", "error"} : Return(r)
      BY <1>0, <1>14, <1>f DEF Quit
    <2> QED
      BY <1>0, <1>14, <2>1, <2>2, Returned DEF Quit
  <1>15. ASSUME Connack PROVE TransportInv'
    <2>1. inbox' \in Seq(Item) /\ Accepted' = Accepted /\ AllOrNothing'
      BY <1>15, NothingTaken DEF Connack
    <2>2. TypeOK'
      BY <1>15, <2>1 DEF TransportInv, TypeOK, Item, Connack, target
    <2> QED
      BY <1>15, <2>1, <2>2
         DEF TransportInv, RcptsInv, KindInv, MailInv, NilMeansAccepted, Connack,
             target
  <1>16. ASSUME Publish \/ Write PROVE TransportInv'
    <2>1. provider \notin {"smtp", "discord"} /\ UNCHANGED <<target, attempts>>
      BY <1>16, CatalogueFacts
         DEF Publish, Write, TransportInv, KindInv, AttachingProviders
    <2>2. inbox' \in Seq(Item) /\ AllOrNothing'
            /\ (TakeMessage => Accepted')
      BY <1>16, <2>1, TakeMessageEffect, NothingTaken DEF Publish, Write
    <2>3. faults' \in 0 .. MaxFaults /\ unheard' \in BOOLEAN
            /\ \E r \in {"nil", "error"} :
                 Return(r) /\ (r = "nil" => TakeMessage \/ unheard')
      BY <1>0, <1>16, <1>f DEF Publish, Write
    <2> QED
      BY <2>1, <2>2, <2>3, Returned
  <1>17. ASSUME PublishUnheard PROVE TransportInv'
    <2>1. provider \notin {"smtp", "discord"}
      BY <1>17, CatalogueFacts
         DEF PublishUnheard, TransportInv, KindInv, AttachingProviders
    <2> QED
      BY <1>0, <1>17, <2>1, NothingTaken, Returned DEF PublishUnheard
  <1>18. ASSUME UNCHANGED vars PROVE TransportInv'
    BY <1>18 DEF vars, target, TransportInv, TypeOK, RcptsInv, KindInv, MailInv,
                 AllOrNothing, NilMeansAccepted, Accepted
  <1> QED
    BY <1>1, <1>2, <1>3, <1>4, <1>5, <1>6, <1>7, <1>8, <1>9, <1>10, <1>11,
       <1>12, <1>13, <1>14, <1>15, <1>16, <1>17, <1>18
       DEF Next, Client, OtherSide

\* The invariant holds in every reachable state.
LEMMA TransportInvariant == Spec => []TransportInv
  <1> QED
    BY TransportInit, TransportStep, PTL DEF Spec

\* Every reachable state of a delivery on its way is well typed.
THEOREM TransportIsTyped == Spec => []TypeOK
  <1>1. TransportInv => TypeOK
    BY DEF TransportInv
  <1> QED
    BY <1>1, TransportInvariant, PTL

\* A message goes to all recipients the delivery was given or is not taken, by
\* every provider that declares dynamic recipients but Viber, for any number of
\* recipients.
THEOREM NoOneIsLeftOut == Spec => []AllOrNothing
  <1>1. TransportInv => AllOrNothing
    BY DEF TransportInv
  <1> QED
    BY <1>1, TransportInvariant, PTL

\* A nil of the mail server is the truth about the whole mail, and Discord gets
\* no message whose attachments cannot be decoded; a nil of anything but SMTP
\* means that the message was taken or that nothing was read that said no: a
\* body that came with 2xx, a line, a publication.  For any part of the
\* catalogue.
THEOREM NilIsAccepted == Spec => []NilMeansAccepted
  <1>1. TransportInv => NilMeansAccepted
    BY DEF TransportInv
  <1> QED
    BY <1>1, TransportInvariant, PTL

-----------------------------------------------------------------------------
(* How often a message is taken.                                            *)

\* The messages of the inbox, but for the empty mails of BadBody.
Mails == {i \in DOMAIN inbox : inbox[i].whole \/ Kind # "smtp"}

\* A fault that has happened to the attempt under way.
Spent == IF expired THEN 1 ELSE 0

\* The commands of smtpSend are given to mail servers only.
DialogueInv ==
    /\ pc = "dial" => Kind \in {"smtp", "mqtt", "line"}
    /\ pc \in {"starttls", "auth", "mail", "rcpt", "data", "body", "sent", "quit"} =>
          Kind = "smtp"

\* Nothing is sent with a provider that the registry does not know.
KnownInv == provider \notin Providers => pc = "idle" /\ result # "nil"

\* Every message but the last has cost a fault, and so has the last, unless
\* smtpSend is about to return nil for it, or a provider has.
CountInv ==
    /\ pc = "idle" => ~expired
    /\ pc = "idle" /\ result # "nil" => Cardinality(Mails) <= faults
    /\ pc = "idle" => Cardinality(Mails) <= 1 + faults
    /\ pc \in {"sent", "quit"} => Cardinality(Mails) + Spent <= 1 + faults
    /\ pc \notin {"idle", "sent", "quit"} => Cardinality(Mails) + Spent <= faults

\* What is taken counts for one, or for nothing if it is an empty mail.
LEMMA TakeCounts ==
    ASSUME TypeOK, NEW whole \in BOOLEAN, NEW to \in 0 .. Recipients,
           Take(whole, to), UNCHANGED target
    PROVE  /\ IsFiniteSet(Mails)
           /\ Cardinality(Mails)' = IF whole \/ Kind # "smtp"
                                    THEN Cardinality(Mails) + 1 ELSE Cardinality(Mails)
  <1> DEFINE n == Len(inbox)
             item == [whole |-> whole, to |-> to,
                      read |-> provider = "mqtt" => ReadsBack(topic, payload)]
  <1>1. item.whole = whole
    OBVIOUS
  <1>2. item \in Item
    <2>1. (provider = "mqtt" => ReadsBack(topic, payload)) \in BOOLEAN
      OBVIOUS
    <2> QED
      BY <2>1 DEF Item
  <1>3. inbox' = Append(inbox, item) /\ inbox \in Seq(Item)
    BY DEF Take, TypeOK, Item
  <1> HIDE DEF item
  <1>4. /\ n \in Nat /\ DOMAIN inbox = 1 .. n /\ DOMAIN inbox' = 1 .. n + 1
        /\ \A i \in 1 .. n : inbox'[i] = inbox[i]
        /\ inbox'[n + 1] = item
    BY <1>2, <1>3, AppendProperties, LenProperties
  <1> HIDE DEF n
  <1>5. IsFiniteSet(Mails) /\ n + 1 \notin Mails
    <2>1. IsFiniteSet(1 .. n)
      BY <1>4, FS_Interval
    <2>2. Mails \subseteq 1 .. n
      BY <1>4 DEF Mails
    <2>3. n + 1 \notin 1 .. n
      BY <1>4
    <2> QED
      BY <2>1, <2>2, <2>3, FS_Subset
  <1>6. Kind' = Kind
    BY DEF Kind, target
  <1>7. Mails' = IF whole \/ Kind # "smtp" THEN Mails \cup {n + 1} ELSE Mails
    BY <1>1, <1>4, <1>6 DEF Mails
  <1> QED
    BY <1>5, <1>7, FS_AddElement, FS_CardinalityType

\* The types of what is counted.
LEMMA CountTypes ==
    ASSUME TypeOK PROVE Cardinality(Mails) \in Nat /\ faults \in Nat
  <1>1. DOMAIN inbox = 1 .. Len(inbox) /\ Len(inbox) \in Nat
    BY LenProperties DEF TypeOK
  <1>2. Mails \subseteq 1 .. Len(inbox)
    BY <1>1 DEF Mails
  <1>3. IsFiniteSet(1 .. Len(inbox))
    BY <1>1, FS_Interval
  <1>4. IsFiniteSet(Mails)
    BY <1>2, <1>3, FS_Subset
  <1> QED
    BY <1>4, FS_CardinalityType, BoundsAssumption DEF TypeOK

\* Every step keeps the commands of smtpSend to mail servers.
LEMMA DialogueStep ==
    ASSUME DialogueInv, [Next]_vars PROVE DialogueInv'
  <1>1. Kind \in {"http", "token", "line", "smtp", "mqtt"}
    BY DEF Kind, KindOf
  <1> HIDE DEF Kind
  <1>2. ASSUME UNCHANGED target PROVE Kind' = Kind
    BY <1>2 DEF target, Kind
  <1>3. ASSUME pc' \in {"idle", "encode", "request", "login", "write", "connack", "publish"}
        PROVE  DialogueInv'
    BY <1>3 DEF DialogueInv
  <1>4. ASSUME Send PROVE DialogueInv'
    BY <1>1, <1>2, <1>4 DEF Send, FirstCommand, DialogueInv
  <1>5. ASSUME Yes PROVE DialogueInv'
    <2>1. /\ pc \in Preliminary /\ pc' = AfterYes /\ Kind' = Kind
      BY <1>2, <1>5 DEF Yes, Goto
    <2>2. CASE pc \in {"login", "dial"}
      BY <2>1, <2>2 DEF AfterYes, DialogueInv
    <2>3. CASE pc \notin {"login", "dial"}
      <3>1. Kind = "smtp"
        BY <2>1, <2>3 DEF Preliminary, DialogueInv
      <3>2. pc' # "dial"
        BY <2>1 DEF AfterYes
      <3> QED
        BY <2>1, <3>1, <3>2 DEF DialogueInv
    <2> QED
      BY <2>2, <2>3
  <1>6. ASSUME RcptYes \/ BodyYes \/ CheckContext \/ Expire PROVE DialogueInv'
    BY <1>2, <1>6 DEF RcptYes, BodyYes, CheckContext, Expire, Goto, Return, DialogueInv
  <1>7. ASSUME UNCHANGED vars PROVE DialogueInv'
    BY <1>2, <1>7 DEF vars, DialogueInv
  <1>8. ASSUME SendToNoProvider PROVE DialogueInv'
    BY <1>3, <1>8 DEF SendToNoProvider
  <1>9. ASSUME Encode \/ GiveUp \/ Write \/ No \/ Break \/ RequestYes \/ BadBody
               \/ Quit \/ Connack \/ Publish \/ PublishUnheard \/ RefusalUnheard
        PROVE  DialogueInv'
    BY <1>3, <1>9 DEF Encode, GiveUp, Write, No, Break, RequestYes, BadBody, Quit,
                     Connack, Publish, PublishUnheard, RefusalUnheard, Goto, Return
  <1> QED
    BY <1>4, <1>5, <1>6, <1>7, <1>8, <1>9 DEF Next, Client, OtherSide

\* Every step keeps to the providers of the registry.
LEMMA KnownStep ==
    ASSUME KnownInv, [Next]_vars PROVE KnownInv'
  <1> SUFFICES ASSUME provider \notin Providers
               PROVE  KnownInv'
    <2>1. provider' = provider
      BY DEF vars, target, Next, Client, OtherSide, Send, SendToNoProvider, Encode,
             GiveUp, CheckContext, Write, Expire, Yes, RcptYes, No, Break,
             RequestYes, BodyYes, BadBody, Quit, Connack, Publish,
             PublishUnheard, RefusalUnheard
    <2> QED
      BY <2>1 DEF KnownInv
  <1>1. pc = "idle" /\ result # "nil"
    BY DEF KnownInv
  <1>2. CASE SendToNoProvider
    BY <1>1, <1>2 DEF SendToNoProvider, KnownInv
  <1>3. CASE UNCHANGED vars
    BY <1>1, <1>3 DEF vars, KnownInv
  <1>4. ~Send /\ ~Expire
    BY <1>1 DEF Send, Expire
  <1>5. /\ ~Encode /\ ~GiveUp /\ ~CheckContext /\ ~Write /\ ~Yes /\ ~RcptYes /\ ~No
        /\ ~Break /\ ~RequestYes /\ ~BodyYes /\ ~BadBody /\ ~Quit /\ ~Connack
        /\ ~Publish /\ ~PublishUnheard /\ ~RefusalUnheard
    BY <1>1 DEF Encode, GiveUp, HeedsContext, CheckContext, Write, Yes, RcptYes,
           No, Break, RequestYes, BodyYes, BadBody, Quit, Connack, Publish,
           PublishUnheard, RefusalUnheard, Preliminary
  <1> QED
    BY <1>2, <1>3, <1>4, <1>5 DEF Next, Client, OtherSide

\* Every step keeps the account.
LEMMA CountStep ==
    ASSUME TransportInv, DialogueInv, KnownInv, CountInv, [Next]_vars
    PROVE  CountInv'
  <1> DEFINE m == Cardinality(Mails)
  <1>1. TypeOK /\ m \in Nat /\ faults \in Nat /\ expired \in BOOLEAN
          /\ rcpts \in 0 .. Recipients
    BY CountTypes DEF TransportInv, TypeOK
  <1>2. ASSUME UNCHANGED <<inbox, target>> PROVE m' = m
    BY <1>2 DEF Mails, Kind, target
  <1>3. ASSUME NEW whole \in BOOLEAN, NEW to \in 0 .. Recipients,
               Take(whole, to), UNCHANGED target
        PROVE  m' = IF whole \/ Kind # "smtp" THEN m + 1 ELSE m
    BY <1>1, <1>3, TakeCounts
  <1>4. ASSUME TakeMessage, UNCHANGED target PROVE m' \in {m, m + 1}
    <2> DEFINE whole == \/ attached = "none" \/ provider \in PassingProviders
                        \/ attached = "good" /\ provider \in AttachingProviders
               to    == IF provider \in AddressedProviders THEN Recipients ELSE 0
    <2>1. Take(whole, to)
      BY <1>4 DEF TakeMessage
    <2>2. whole \in BOOLEAN /\ to \in 0 .. Recipients
      BY BoundsAssumption
    <2> HIDE DEF whole, to
    <2> QED
      BY <1>3, <1>4, <2>1, <2>2
  <1>5. /\ pc = "idle" => ~expired
        /\ pc = "idle" /\ result # "nil" => m <= faults
        /\ pc = "idle" => m <= 1 + faults
        /\ pc \in {"sent", "quit"} => m + Spent <= 1 + faults
        /\ pc \notin {"idle", "sent", "quit"} => m + Spent <= faults
    BY DEF CountInv
  <1>6. SUFFICES /\ pc' = "idle" => ~expired'
                 /\ pc' = "idle" /\ result' # "nil" => m' <= faults'
                 /\ pc' = "idle" => m' <= 1 + faults'
                 /\ pc' \in {"sent", "quit"} => m' + Spent' <= 1 + faults'
                 /\ pc' \notin {"idle", "sent", "quit"} => m' + Spent' <= faults'
    BY DEF CountInv
  <1> HIDE DEF m
  <1> USE DEF Spent
  <1>7. CASE Send \/ SendToNoProvider
    <2>1. FirstCommand \in {"encode", "request", "login", "dial"}
      BY DEF FirstCommand
    <2> QED
      BY <1>1, <1>2, <1>5, <1>7, <2>1 DEF Send, SendToNoProvider, KnownInv
  <1>8. CASE Encode \/ GiveUp \/ CheckContext \/ No \/ RcptYes \/ Connack
    BY <1>1, <1>2, <1>5, <1>8
       DEF Encode, GiveUp, CheckContext, No, RcptYes, Connack, HeedsContext,
           Preliminary, Goto, Return
  <1>9. CASE Yes
    <2>1. AfterYes \in {"request", "write", "connack", "starttls", "auth",
                        "mail", "rcpt", "body"}
      BY DEF AfterYes
    <2> QED
      BY <1>1, <1>2, <1>5, <1>9, <2>1 DEF Yes, Preliminary, Goto
  <1>10. CASE Expire \/ Break \/ Quit
    BY <1>1, <1>2, <1>5, <1>10 DEF Expire, Break, Quit, Fault, Preliminary, Return
  <1>11. CASE PublishUnheard \/ RefusalUnheard
    BY <1>1, <1>2, <1>5, <1>11 DEF PublishUnheard, RefusalUnheard, Return
  <1>12. CASE RequestYes
    BY <1>1, <1>4, <1>5, <1>12 DEF RequestYes, Fault, Return
  <1>13. CASE BodyYes
    <2>1. m' = m + 1
      BY <1>1, <1>3, <1>13 DEF BodyYes
    <2> QED
      BY <1>1, <1>5, <1>13, <2>1 DEF BodyYes, Goto, Fault, Return
  <1>14. CASE BadBody
    <2>1. Kind = "smtp"
      BY <1>14 DEF BadBody, DialogueInv
    <2>2. m' = m
      BY <1>1, <1>2, <1>3, <1>14, <2>1 DEF BadBody
    <2> QED
      BY <1>1, <1>5, <1>14, <2>2 DEF BadBody, Return
  <1>15. CASE Publish
    BY <1>1, <1>2, <1>4, <1>5, <1>15 DEF Publish, Fault, Return
  <1>16. CASE Write
    BY <1>1, <1>2, <1>4, <1>5, <1>16 DEF Write, Fault, Return
  <1>17. CASE UNCHANGED vars
    BY <1>1, <1>2, <1>5, <1>17 DEF vars
  <1> QED
    BY <1>7, <1>8, <1>9, <1>10, <1>11, <1>12, <1>13, <1>14, <1>15, <1>16, <1>17
       DEF Next, Client, OtherSide

\* A message that is taken n times has cost n - 1 faults, however many attempts
\* there are (provider.go:459-467).
THEOREM DuplicatesCostFaults == Spec => []DuplicatesNeedFaults
  <1>1. Init => DialogueInv /\ KnownInv /\ CountInv
    <2> SUFFICES ASSUME Init PROVE DialogueInv /\ KnownInv /\ CountInv
      OBVIOUS
    <2>1. Mails = {}
      BY DEF Init, Mails
    <2>2. Cardinality(Mails) = 0
      BY <2>1, FS_EmptySet
    <2> QED
      BY <2>2 DEF Init, DialogueInv, KnownInv, CountInv
  <1>2. ASSUME TypeOK, CountInv PROVE DuplicatesNeedFaults
    <2>1. Cardinality(Mails) \in Nat /\ faults \in Nat /\ expired \in BOOLEAN
      BY <1>2, CountTypes DEF TypeOK
    <2>2. Cardinality(Mails) <= 1 + faults
      BY <1>2, <2>1 DEF CountInv, Spent
    <2> QED
      BY <2>2 DEF DuplicatesNeedFaults, Mails
  <1>3. TransportInv => TypeOK
    BY DEF TransportInv
  <1> QED
    BY <1>1, <1>2, <1>3, TransportInvariant, DialogueStep, KnownStep, CountStep,
       PTL DEF Spec

-----------------------------------------------------------------------------
\* What a broker reads of the length of a string is the length modulo 2^16: the
\* topic is found again exactly if it has less than 65536 bytes
\* (final_parity.go:193-196).
THEOREM StringsAreReadBack ==
    ASSUME NEW n \in Nat
    PROVE  /\ StringRead(encMQTTString(n)) = n % 65536
           /\ StringRead(encMQTTString(n)) = n <=> n < 65536
  <1> DEFINE q == n \div 256
             r == n % 256
             k == q \div 256
             d == q % 256
             w == n % 65536
             v == n \div 65536
  <1>1. StringRead(encMQTTString(n)) = 256 * d + r
    BY DEF StringRead, encMQTTString
  <1>2. n = 256 * q + r /\ q \in Nat /\ r \in Int /\ 0 <= r /\ r < 256
    OBVIOUS
  <1>3. n = 65536 * v + w /\ v \in Int /\ w \in Int /\ 0 <= v /\ 0 <= w /\ w < 65536
    OBVIOUS
  <1>4. q = 256 * k + d /\ k \in Int /\ d \in Int /\ 0 <= d /\ d < 256
    <2> HIDE DEF q
    <2> QED
      BY <1>2
  <1> HIDE DEF q, r, k, d, w, v
  <1>5. k = v /\ 256 * d + r = w
    BY <1>2, <1>3, <1>4
  <1>6. w = n <=> n < 65536
    BY <1>3
  <1>7. n % 65536 = w
    BY DEF w
  <1> QED
    BY <1>1, <1>5, <1>6, <1>7

-----------------------------------------------------------------------------
(* The digits of the remaining length.  The function digits is recursive:  *)
(* that it is one, and what it computes, is shown from the least number    *)
(* for which it would not be so.                                           *)

LEMMA LeastNumber ==
    ASSUME NEW S \in SUBSET Nat, NEW x \in S
    PROVE  \E n \in S : \A k \in S : n <= k
  <1>1. PICK n \in S : \A k \in S : ~(<<k, n>> \in OpToRel(<, Nat))
    BY WFMin, NatLessThanWellFounded
  <1>2. \A k \in S : ~(k < n)
    BY <1>1 DEF OpToRel
  <1>3. \A k \in S : n <= k
    BY <1>2
  <1> QED
    BY <1>3

LEMMA RestIsSmaller ==
    ASSUME NEW n \in Nat
    PROVE  /\ n \div 128 \in Nat /\ n % 128 \in 0 .. 127
           /\ n = 128 * (n \div 128) + (n % 128)
           /\ n \div 128 # 0 => n \div 128 < n
  OBVIOUS

\* One turn of the loop in encRemain.
Turn(f, n) ==
    IF n \div 128 = 0 THEN <<n % 128>> ELSE <<128 + (n % 128)>> \o f[n \div 128]

\* The lengths up to n are written as the loop writes them.
Writes(f, n) ==
    /\ f \in [0 .. n -> Seq(Int)]
    /\ \A m \in 0 .. n : f[m] = Turn(f, m)

LEMMA TurnIsSequence ==
    ASSUME NEW f, NEW n \in Nat, n \div 128 # 0 => f[n \div 128] \in Seq(Int)
    PROVE  Turn(f, n) \in Seq(Int)
  <1>1. n % 128 \in Int /\ 128 + (n % 128) \in Int
    OBVIOUS
  <1>2. <<n % 128>> \in Seq(Int) /\ <<128 + (n % 128)>> \in Seq(Int)
    BY <1>1
  <1> QED
    BY <1>2, ConcatProperties DEF Turn

LEMMA WritersAgree ==
    ASSUME NEW f, NEW g, NEW a \in Nat, NEW b \in Nat, Writes(f, a), Writes(g, b),
           NEW n \in Nat, n <= a, n <= b
    PROVE  f[n] = g[n]
  <1> DEFINE Differ == {m \in Nat : m <= a /\ m <= b /\ f[m] # g[m]}
  <1> SUFFICES ASSUME n \in Differ PROVE FALSE
    OBVIOUS
  <1>1. PICK m \in Differ : \A k \in Differ : m <= k
    BY LeastNumber
  <1>2. m \in 0 .. a /\ m \in 0 .. b /\ m \in Nat
    BY <1>1
  <1>3. f[m] = Turn(f, m) /\ g[m] = Turn(g, m)
    BY <1>2 DEF Writes
  <1>4. m \div 128 # 0 => f[m \div 128] = g[m \div 128]
    BY <1>1, <1>2, RestIsSmaller
  <1>5. f[m] = g[m]
    BY <1>3, <1>4 DEF Turn
  <1> QED
    BY <1>1, <1>5

LEMMA WriterExists ==
    ASSUME NEW n \in Nat
    PROVE  \E f : Writes(f, n)
  <1> DEFINE Without == {m \in Nat : ~ \E f : Writes(f, m)}
  <1> SUFFICES ASSUME n \in Without PROVE FALSE
    OBVIOUS
  <1>1. PICK m \in Without : \A k \in Without : m <= k
    BY LeastNumber
  <1>2. \E g : m # 0 => Writes(g, m - 1)
    BY <1>1
  <1>3. PICK g : m # 0 => Writes(g, m - 1)
    BY <1>2
  <1> DEFINE f == [k \in 0 .. m |-> IF k = m THEN Turn(g, m) ELSE g[k]]
  <1>4. m \in Nat /\ \A k \in 0 .. m : k # m => m # 0 /\ k \in 0 .. m - 1
    BY <1>1
  <1>5. \A k \in 0 .. m : k # m => g[k] = Turn(g, k) /\ g[k] \in Seq(Int)
    BY <1>3, <1>4 DEF Writes
  <1>6. m \div 128 # 0 => m \div 128 \in 0 .. m /\ m \div 128 # m
    BY <1>4, RestIsSmaller
  <1>7. Turn(g, m) \in Seq(Int)
    BY <1>4, <1>5, <1>6, TurnIsSequence
  <1>8. f \in [0 .. m -> Seq(Int)]
    BY <1>5, <1>7
  <1>9. \A k \in 0 .. m : k # m => f[k] = g[k]
    OBVIOUS
  <1>10. f[m] = Turn(g, m)
    BY <1>4
  <1> HIDE DEF f
  <1>11. ASSUME NEW k \in 0 .. m PROVE f[k] = Turn(f, k)
    <2>1. k \in Nat /\ (k \div 128 # 0 => k \div 128 \in 0 .. m /\ k \div 128 # m)
      BY <1>4, RestIsSmaller
    <2>2. k \div 128 # 0 => f[k \div 128] = g[k \div 128]
      BY <1>9, <2>1
    <2>3. Turn(f, k) = Turn(g, k)
      BY <2>2 DEF Turn
    <2> QED
      BY <1>5, <1>9, <1>10, <2>3
  <1>12. Writes(f, m)
    BY <1>8, <1>11 DEF Writes
  <1> QED
    BY <1>1, <1>12

\* digits is the function that its definition says it is.
LEMMA DigitsAreWritten ==
    ASSUME NEW n \in Nat
    PROVE  digits[n] = Turn(digits, n)
  <1> DEFINE Writer(k) == CHOOSE f : Writes(f, k)
             whole == [k \in Nat |-> Writer(k)[k]]
  <1>1. \A k \in Nat : Writes(Writer(k), k)
    BY WriterExists
  <1> HIDE DEF Writer
  <1>2. ASSUME NEW k \in Nat PROVE whole[k] = Turn(whole, k)
    <2>1. whole[k] = Turn(Writer(k), k)
      BY <1>1 DEF Writes
    <2>2. ASSUME k \div 128 # 0
          PROVE  Writer(k)[k \div 128] = whole[k \div 128]
      <3>1. k \div 128 \in Nat /\ k \div 128 <= k
        BY <2>2, RestIsSmaller
      <3>2. Writer(k)[k \div 128] = Writer(k \div 128)[k \div 128]
        BY <1>1, <3>1, WritersAgree
      <3> QED
        BY <3>1, <3>2
    <2> HIDE DEF whole
    <2> QED
      BY <2>1, <2>2 DEF Turn
  <1>3. whole = [k \in Nat |-> Turn(whole, k)]
    BY <1>2
  <1> HIDE DEF whole
  <1>4. digits = CHOOSE f : f = [k \in Nat |-> Turn(f, k)]
    BY DEF digits, Turn
  <1>5. digits = [k \in Nat |-> Turn(digits, k)]
    BY <1>3, <1>4
  <1> QED
    BY <1>5

\* What the digits of n are, if there are no more than so many.
Read(n, most) ==
    /\ digits[n] \in Seq(Int)
    /\ Len(digits[n]) \in 1 .. most
    /\ \A i \in 1 .. Len(digits[n]) - 1 : digits[n][i] >= 128
    /\ digits[n][Len(digits[n])] < 128
    /\ RemainRead(digits[n]) = n

LEMMA OneDigit ==
    ASSUME NEW n \in Nat, n < 128
    PROVE  Read(n, 1)
  <1>1. n \div 128 = 0 /\ n % 128 = n
    OBVIOUS
  <1>2. digits[n] = <<n>>
    BY <1>1, DigitsAreWritten DEF Turn
  <1>3. Len(<<n>>) = 1 /\ <<n>>[1] = n /\ <<n>> \in Seq(Int)
    OBVIOUS
  <1>4. RemainRead(<<n>>) = n
    BY <1>1, <1>3 DEF RemainRead
  <1> QED
    BY <1>2, <1>3, <1>4 DEF Read

LEMMA OneDigitMore ==
    ASSUME NEW n \in Nat, n \div 128 # 0, NEW most \in 1 .. 3,
           Read(n \div 128, most)
    PROVE  Read(n, most + 1)
  <1> DEFINE low  == 128 + (n % 128)
             high == digits[n \div 128]
             all  == digits[n]
  <1>1. n % 128 \in 0 .. 127 /\ low \in Int /\ low >= 128 /\ low % 128 = n % 128
          /\ n = 128 * (n \div 128) + (n % 128)
    OBVIOUS
  <1>2. <<low>> \in Seq(Int) /\ Len(<<low>>) = 1 /\ <<low>>[1] = low
    BY <1>1
  <1>3. high \in Seq(Int) /\ Len(high) \in 1 .. most
    BY DEF Read
  <1>4. all = <<low>> \o high
    BY DigitsAreWritten DEF Turn
  <1>5. /\ all \in Seq(Int) /\ Len(all) = 1 + Len(high)
        /\ \A i \in 1 .. 1 + Len(high) :
              all[i] = IF i <= 1 THEN low ELSE high[i - 1]
    <2> HIDE DEF low, high, all
    <2>1. /\ all \in Seq(Int) /\ Len(all) = Len(<<low>>) + Len(high)
          /\ \A i \in 1 .. Len(<<low>>) + Len(high) :
                all[i] = IF i <= Len(<<low>>) THEN <<low>>[i] ELSE high[i - Len(<<low>>)]
      BY <1>2, <1>3, <1>4, ConcatProperties
    <2>2. \A i \in 1 .. 1 + Len(high) : i <= 1 => i = 1
      OBVIOUS
    <2> QED
      BY <1>2, <2>1, <2>2
  <1>6. /\ all[1] = low
        /\ \A i \in 1 .. Len(high) : all[i + 1] = high[i]
    <2> HIDE DEF low, high, all
    <2>1. Len(high) \in Nat /\ 1 \in 1 .. 1 + Len(high)
      BY <1>3
    <2>2. ASSUME NEW i \in 1 .. Len(high) PROVE all[i + 1] = high[i]
      <3>1. i + 1 \in 1 .. 1 + Len(high) /\ ~(i + 1 <= 1) /\ (i + 1) - 1 = i
        BY <2>1
      <3>2. all[i + 1] = high[(i + 1) - 1]
        BY <1>5, <3>1
      <3> QED
        BY <3>1, <3>2
    <2> QED
      BY <1>5, <2>1, <2>2
  <1>7. /\ \A i \in 1 .. Len(high) - 1 : high[i] >= 128
        /\ high[Len(high)] < 128
        /\ RemainRead(high) = n \div 128
    BY DEF Read
  <1>8. \A i \in 1 .. Len(all) - 1 : all[i] >= 128
    <2> HIDE DEF low, high, all
    <2> SUFFICES ASSUME NEW i \in 1 .. Len(all) - 1 PROVE all[i] >= 128
      OBVIOUS
    <2>1. CASE i = 1
      BY <1>1, <1>6, <2>1
    <2>2. CASE i # 1
      <3>1. i - 1 \in 1 .. Len(high) - 1 /\ i - 1 \in 1 .. Len(high)
              /\ (i - 1) + 1 = i
        BY <1>3, <1>5, <2>2
      <3>2. all[(i - 1) + 1] = high[i - 1]
        BY <1>6, <3>1
      <3> QED
        BY <1>7, <3>1, <3>2
    <2> QED
      BY <2>1, <2>2
  <1>9. all[Len(all)] < 128
    <2> HIDE DEF low, high, all
    <2> QED
      BY <1>3, <1>5, <1>7
  <1> DEFINE Digit(bytes, i) == IF i <= Len(bytes) THEN bytes[i] % 128 ELSE 0
  <1>10. /\ Digit(all, 1) = n % 128
         /\ Digit(all, 2) = Digit(high, 1) /\ Digit(all, 3) = Digit(high, 2)
         /\ Digit(all, 4) = Digit(high, 3) /\ Digit(high, 4) = 0
    <2> HIDE DEF low, high, all
    <2>1. /\ Len(high) \in Nat /\ Len(high) <= 3 /\ Len(high) >= 1
          /\ Len(all) = Len(high) + 1
      BY <1>3, <1>5
    <2>2. Digit(all, 1) = n % 128
      BY <1>1, <1>6, <2>1
    <2>3. ASSUME NEW i \in 1 .. 3 PROVE Digit(all, i + 1) = Digit(high, i)
      <3>1. i + 1 <= Len(all) <=> i <= Len(high)
        BY <2>1
      <3>2. i <= Len(high) => all[i + 1] = high[i]
        BY <1>6, <2>1
      <3> QED
        BY <3>1, <3>2
    <2>4. Digit(high, 4) = 0
      BY <2>1
    <2> HIDE DEF Digit
    <2>5. Digit(all, 1 + 1) = Digit(high, 1) /\ Digit(all, 2 + 1) = Digit(high, 2)
            /\ Digit(all, 3 + 1) = Digit(high, 3)
      BY <2>3
    <2> QED
      BY <2>2, <2>4, <2>5
  <1>11. RemainRead(all) = n
    <2>1. /\ RemainRead(all) = Digit(all, 1) + 128 * (Digit(all, 2)
                                 + 128 * (Digit(all, 3) + 128 * Digit(all, 4)))
          /\ RemainRead(high) = Digit(high, 1) + 128 * (Digit(high, 2)
                                 + 128 * (Digit(high, 3) + 128 * Digit(high, 4)))
      BY DEF RemainRead
    <2>2. \A i \in 1 .. 4 : Digit(high, i) \in Int
      <3> HIDE DEF high
      <3> QED
        BY <1>3
    <2>3. /\ Digit(high, 1) \in Int /\ Digit(high, 2) \in Int
          /\ Digit(high, 3) \in Int /\ Digit(high, 4) = 0
      <3> HIDE DEF Digit
      <3> QED
        BY <1>10, <2>2
    <2> HIDE DEF Digit, all, high
    <2>4. RemainRead(high) = Digit(high, 1) + 128 * (Digit(high, 2)
                                 + 128 * Digit(high, 3))
      BY <2>1, <2>3
    <2>5. RemainRead(all) = (n % 128) + 128 * RemainRead(high)
      BY <1>10, <2>1, <2>3, <2>4
    <2> QED
      BY <1>1, <1>7, <2>5
  <1> QED
    BY <1>3, <1>5, <1>8, <1>9, <1>11 DEF Read

LEMMA ReadIsReadBack ==
    ASSUME NEW n \in Nat, NEW most \in 1 .. 4, Read(n, most)
    PROVE  /\ WellFormed(encRemain(n))
           /\ RemainRead(encRemain(n)) = n
  <1>1. /\ Len(digits[n]) \in 1 .. most /\ digits[n][Len(digits[n])] < 128
        /\ \A i \in 1 .. Len(digits[n]) - 1 : digits[n][i] >= 128
        /\ RemainRead(digits[n]) = n
    BY DEF Read
  <1>2. Len(digits[n]) <= 4
    BY <1>1
  <1> QED
    BY <1>1, <1>2 DEF WellFormed, MaxDigits, encRemain

\* A broker that reads at most four digits finds every length that four digits
\* can say (final_parity.go:198-211).
LEMMA RemainIsReadBack ==
    ASSUME NEW n \in Nat, n <= MaxRemain
    PROVE  /\ WellFormed(encRemain(n))
           /\ RemainRead(encRemain(n)) = n
  <1> DEFINE r == n \div 128
             s == r \div 128
             t == s \div 128
  <1>1. n < 128 * 128 * 128 * 128
    BY DEF MaxRemain
  <1>2. r \in Nat /\ s \in Nat /\ t \in Nat
    OBVIOUS
  <1>3. r < 128 * 128 * 128
    BY <1>1
  <1>4. s < 128 * 128
    <2> HIDE DEF r
    <2> QED
      BY <1>2, <1>3
  <1>5. t < 128
    <2> HIDE DEF s
    <2> QED
      BY <1>2, <1>4
  <1>6. ASSUME NEW k \in Nat, k \div 128 = 0 PROVE Read(k, 1)
    <2>1. k < 128
      BY <1>6
    <2> QED
      BY <2>1, OneDigit
  <1>7. ASSUME NEW m \in 1 .. 3, NEW k \in Nat, k \div 128 # 0, Read(k \div 128, m)
        PROVE  Read(k, m + 1)
    BY <1>7, OneDigitMore
  <1>8. /\ 1 + 1 = 2 /\ 2 + 1 = 3 /\ 3 + 1 = 4
        /\ 1 \in 1 .. 3 /\ 2 \in 1 .. 3 /\ 3 \in 1 .. 3
    OBVIOUS
  <1>9. Read(t, 1)
    BY <1>2, <1>5, OneDigit
  <1>10. Read(s, 1) \/ Read(s, 2)
    <2>1. CASE s \div 128 = 0
      BY <1>2, <1>6, <2>1
    <2>2. CASE s \div 128 # 0
      BY <1>2, <1>7, <1>8, <1>9, <2>2
    <2> QED
      BY <2>1, <2>2
  <1>11. Read(r, 1) \/ Read(r, 2) \/ Read(r, 3)
    <2>1. CASE r \div 128 = 0
      BY <1>2, <1>6, <2>1
    <2>2. CASE r \div 128 # 0
      BY <1>2, <1>7, <1>8, <1>10, <2>2
    <2> QED
      BY <2>1, <2>2
  <1>12. Read(n, 1) \/ Read(n, 2) \/ Read(n, 3) \/ Read(n, 4)
    <2>1. CASE n \div 128 = 0
      BY <1>6, <2>1
    <2>2. CASE n \div 128 # 0
      BY <1>7, <1>8, <1>11, <2>2
    <2> QED
      BY <2>1, <2>2
  <1> QED
    BY <1>12, ReadIsReadBack

\* A broker finds topic and payload where they are, exactly if the two bytes of
\* its length can say how long the topic is (final_parity.go:185-211).
THEOREM ReadBackUnlessTooLong ==
    ASSUME NEW t \in Nat, NEW p \in Nat, 2 + t + p <= MaxRemain
    PROVE  ReadsBack(t, p) <=> t < 65536
  <1> DEFINE n == 2 + t + p
  <1>1. n \in Nat /\ n = 2 + (t + p)
    OBVIOUS
  <1>2. WellFormed(encRemain(n)) /\ RemainRead(encRemain(n)) = n
    BY <1>1, RemainIsReadBack
  <1>3. /\ Publication(t, p).remain = encRemain(n)
        /\ Publication(t, p).name = encMQTTString(t)
        /\ Publication(t, p).rest = t + p
    BY DEF Publication
  <1>4. StringRead(encMQTTString(t)) = t <=> t < 65536
    BY StringsAreReadBack
  <1> HIDE DEF n
  <1> QED
    BY <1>1, <1>2, <1>3, <1>4 DEF ReadsBack

\* No step changes the target, and what a step takes comes at the end.
LEMMA TakenAtTheEnd ==
    ASSUME [Next]_vars
    PROVE  /\ UNCHANGED target
           /\ \/ UNCHANGED inbox
              \/ \E whole, to : Take(whole, to)
  <1>1. CASE Send \/ SendToNoProvider \/ Encode \/ GiveUp \/ CheckContext \/ Expire
             \/ Yes \/ RcptYes \/ No \/ Break \/ Quit \/ Connack
             \/ PublishUnheard \/ RefusalUnheard \/ UNCHANGED vars
    BY <1>1 DEF Send, SendToNoProvider, Encode, GiveUp, CheckContext, Expire, Yes,
                RcptYes, No, Break, Quit, Connack, PublishUnheard,
                RefusalUnheard, vars
  <1>2. CASE RequestYes \/ Publish \/ Write \/ BodyYes \/ BadBody
    BY <1>2 DEF RequestYes, Publish, Write, BodyYes, BadBody, TakeMessage
  <1> QED
    BY <1>1, <1>2 DEF Next, Client, OtherSide

\* What a broker takes it reads as it was meant, for all lengths of topic and
\* payload that MQTT can carry, unless the topic is longer than its two bytes
\* of length can say (final_parity.go:185-211).
THEOREM PublicationsAreReadBack == Spec => []PublicationsAreRead
  <1>1. Init => PublicationsAreRead
    <2>1. Init => DOMAIN inbox = {}
      BY DEF Init
    <2> QED
      BY <2>1 DEF PublicationsAreRead
  <1>2. TypeOK /\ PublicationsAreRead /\ [Next]_vars => PublicationsAreRead'
    <2> SUFFICES ASSUME TypeOK, PublicationsAreRead, [Next]_vars, topic < 65536
                 PROVE  \A i \in DOMAIN inbox' : inbox'[i].read
      BY TakenAtTheEnd DEF PublicationsAreRead, target
    <2>1. CASE UNCHANGED inbox
      BY <2>1 DEF PublicationsAreRead
    <2>2. CASE \E whole, to : Take(whole, to)
      <3>1. PICK whole, to : Take(whole, to)
        BY <2>2
      <3> DEFINE read == provider = "mqtt" => ReadsBack(topic, payload)
                 item == [whole |-> whole, to |-> to, read |-> read]
      <3>2. read = TRUE
        <4>1. /\ topic \in Nat /\ payload \in Nat
              /\ 2 + topic + payload <= MaxRemain
          BY LengthsAssumption DEF TypeOK
        <4>2. ReadsBack(topic, payload)
          BY <4>1, ReadBackUnlessTooLong
        <4> QED
          BY <4>2
      <3>3. inbox' = Append(inbox, item)
        BY <3>1 DEF Take
      <3> HIDE DEF read
      <3>4. item.read = TRUE
        BY <3>2
      <3> HIDE DEF item
      <3>5. /\ DOMAIN inbox' = 1 .. Len(inbox) + 1
            /\ inbox'[Len(inbox) + 1] = item
            /\ \A i \in 1 .. Len(inbox) : inbox'[i] = inbox[i]
        BY <3>3 DEF TypeOK
      <3>6. DOMAIN inbox = 1 .. Len(inbox) /\ Len(inbox) \in Nat
        BY LenProperties DEF TypeOK
      <3>7. \A i \in DOMAIN inbox' : i \in DOMAIN inbox \/ i = Len(inbox) + 1
        BY <3>5, <3>6
      <3> QED
        BY <3>4, <3>5, <3>6, <3>7 DEF PublicationsAreRead
    <2> QED
      BY <2>1, <2>2, TakenAtTheEnd
  <1> QED
    BY <1>1, <1>2, TransportIsTyped, PTL DEF Spec
=============================================================================
