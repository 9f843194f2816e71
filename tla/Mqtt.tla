-------------------------------- MODULE Mqtt --------------------------------
(***************************************************************************)
(* The bytes of a PUBLISH packet as mqttPublish writes them                *)
(* (internal/notify/final_parity.go:165-213), and what a broker reads in   *)
(* them.  The text of topic and payload does not matter, their lengths do. *)
(***************************************************************************)
EXTENDS Integers, Sequences

\* What encMQTTString puts before a string of n bytes: two bytes of length.
encMQTTString(n) == <<(n \div 256) % 256, n % 256>>

\* Mutation: the last digit but one does not say that another one follows when
\* that is a one.
encRemainShort(n) ==
    LET short[rest \in Nat] ==
            IF rest \div 128 <= 1 THEN <<rest % 128>>
            ELSE <<128 + (rest % 128)>> \o short[rest \div 128]
    IN  short[n]

\* The remaining length: digits to the base 128, the lowest first, all but the
\* last with the top bit set.
digits[rest \in Nat] ==
    IF rest \div 128 = 0 THEN <<rest % 128>>
    ELSE <<128 + (rest % 128)>> \o digits[rest \div 128]

encRemain(n) == digits[n]

\* The header of a packet, and how many bytes follow it.
Publication(topic, payload) ==
    [remain |-> encRemain(2 + topic + payload),
     name   |-> encMQTTString(topic),
     rest   |-> topic + payload]

-----------------------------------------------------------------------------
(* The broker, by the standard: at most four digits, the topic first and   *)
(* the payload in what remains.                                            *)

MaxDigits == 4

\* The largest length that so many digits hold.
MaxRemain == 128 * 128 * 128 * 128 - 1

RemainRead(bytes) ==
    LET Digit(i) == IF i <= Len(bytes) THEN bytes[i] % 128 ELSE 0
    IN  Digit(1) + 128 * (Digit(2) + 128 * (Digit(3) + 128 * Digit(4)))

WellFormed(bytes) ==
    /\ Len(bytes) <= MaxDigits
    /\ \A i \in 1 .. Len(bytes) - 1 : bytes[i] >= 128
    /\ bytes[Len(bytes)] < 128

StringRead(name) == 256 * name[1] + name[2]

\* Does a broker find topic and payload where they are?
ReadsBack(topic, payload) ==
    LET p == Publication(topic, payload)
    IN  /\ WellFormed(p.remain)
        /\ RemainRead(p.remain) = 2 + p.rest
        /\ StringRead(p.name) = topic
=============================================================================
