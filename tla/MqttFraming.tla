----------------------------- MODULE MqttFraming -----------------------------
(***************************************************************************)
(* How a PUBLISH packet is framed (client.go): its remaining length in     *)
(* digits of seven bits, the topic behind a length of two bytes, and the   *)
(* payload up to the end.  The reader of the digits is readPacket's; the   *)
(* broker's follows the same standard.  The writer hands over one digit at *)
(* a time: it has all of them before it writes, and the reader takes them  *)
(* one by one.                                                             *)
(***************************************************************************)
EXTENDS Integers

\* A packet is the lengths of its topic and of its payload.
Packet == [topic : Nat, payload : Nat]

VARIABLES
  packet,      \* what is sent
  pc,          \* "write", "read", "done" or "malformed"
  rest,        \* value in encodeRemainingLength: what is not written yet
  digit,       \* the byte handed over
  got,         \* remainingLength in readPacket
  multiplier   \* the weight of the next digit for the reader

vars == <<packet, pc, rest, digit, got, multiplier>>

-----------------------------------------------------------------------------
\* The topic's length is written as two bytes, whatever it is.
encodeString(length) == [high |-> (length \div 256) % 256, low |-> length % 256]

RemainingLength(p) == 2 + p.topic + p.payload

\* Where the reader sees the topic end.
TopicRead(p) == 256 * encodeString(p.topic).high + encodeString(p.topic).low

Init ==
  /\ packet \in Packet
  /\ pc = "write"
  /\ rest = RemainingLength(packet)
  /\ digit = 0
  /\ got = 0
  /\ multiplier = 1

\* A digit goes out with its continuation bit if there is more to come.
WriteDigit ==
  /\ pc = "write"
  /\ digit' = (rest % 128) + (IF rest \div 128 > 0 THEN 128 ELSE 0)
  /\ rest' = rest \div 128
  /\ pc' = "read"
  /\ UNCHANGED <<packet, got, multiplier>>

Add == got' = got + (digit % 128) * multiplier

\* The last digit.
ReadLast ==
  /\ pc = "read"
  /\ digit < 128
  /\ Add
  /\ pc' = "done"
  /\ UNCHANGED <<packet, rest, digit, multiplier>>

\* The weight of a fifth digit would be too large.
TooManyDigits == multiplier * 128 > 128 * 128 * 128

ReadMore ==
  /\ pc = "read"
  /\ digit >= 128
  /\ ~ TooManyDigits
  /\ Add
  /\ multiplier' = multiplier * 128
  /\ pc' = "write"
  /\ UNCHANGED <<packet, rest, digit>>

ReadRefuses ==
  /\ pc = "read"
  /\ digit >= 128
  /\ TooManyDigits
  /\ Add
  /\ pc' = "malformed"
  /\ UNCHANGED <<packet, rest, digit, multiplier>>

Next == WriteDigit \/ ReadLast \/ ReadMore \/ ReadRefuses

Spec == Init /\ [][Next]_vars

-----------------------------------------------------------------------------
TypeOK ==
  /\ packet \in Packet
  /\ pc \in {"write", "read", "done", "malformed"}
  /\ rest \in Nat
  /\ digit \in 0 .. 255
  /\ got \in Nat
  /\ multiplier \in {1, 128, 16384, 2097152}

\* What the reader has and what is still to come make up the length, and the
\* continuation bit is set exactly while something is still to come: why writer
\* and reader stop together (the loops of encodeRemainingLength and readPacket).
Lockstep ==
  LET length == RemainingLength(packet)
  IN  /\ pc = "write" => length = got + multiplier * rest
      /\ pc = "read" => /\ length = got + multiplier * ((digit % 128) + 128 * rest)
                        /\ digit >= 128 <=> rest > 0

\* The reader ends with the length that was written, and refuses it exactly if
\* it needs a fifth digit: a packet is never cut short nor joined with the next
\* (client.go:120-135, 152-166).
LengthArrives ==
  /\ pc = "done" => got = RemainingLength(packet) /\ got < 268435456
  /\ pc = "malformed" => RemainingLength(packet) >= 268435456

\* Once the frame is read, the topic ends where it was meant to end exactly if
\* its length fits two bytes; a longer one loses its tail to the payload
\* (encodeString, client.go:144).
TopicEndsRight ==
  pc = "done" =>
    /\ TopicRead(packet) = packet.topic <=> packet.topic < 65536
    /\ packet.topic < 65536 => got - 2 - TopicRead(packet) = packet.payload
=============================================================================
