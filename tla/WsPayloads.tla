----------------------------- MODULE WsPayloads -----------------------------
(***************************************************************************)
(* What websocketpp does to a frame's payload (websocket/websocketpp/         *)
(* frame.hpp, close.hpp, processors/hybi13.hpp): masking, and the code and    *)
(* the reason of a close frame.  A byte masked with a byte of a key is the     *)
(* pair of the two, which only the same byte of the key unmasks.              *)
(***************************************************************************)
EXTENDS Integers, Sequences

CONSTANT SizeBasic  \* limits::payload_size_basic, 125 in the code

KeyLength == 4

Mask(byte, k) == <<"masked", byte, k>>
Unmask(byte, k) == IF byte = Mask(byte[2], k) THEN byte[2] ELSE <<"garbled", byte, k>>

\* The byte of the key for the byte of a payload at index i, from 0
KeyByte(key, i) == key[(i % KeyLength) + 1]

\* byte_mask; a key is different for every frame.
MaskedCopy(bytes, key) == [i \in DOMAIN bytes |-> Mask(bytes[i], KeyByte(key, i - 1))]

\* byte_mask_circ, of bytes at the start of which the key has been shifted
UnmaskedCopy(bytes, key) == [i \in DOMAIN bytes |-> Unmask(bytes[i], KeyByte(key, i - 1))]

\* circshift_prepared_key
Shifted(key, n) == [i \in 1 .. KeyLength |-> KeyByte(key, i - 1 + n)]

-----------------------------------------------------------------------------
NoStatus == 1005

ReservedClose(code) == code \in 1016 .. 2999 \/ code = 1004

InvalidClose(code) == code <= 999 \/ code >= 5000 \/ code \in {NoStatus, 1006, 1015}

\* A code goes in network byte order.
HighByte(code) == code \div 256
LowByte(code) == code % 256
CodeIn(payload) == payload[1] * 256 + payload[2]

\* prepare_close up to prepare_control: the payload, or what cannot be sent.
ClosePayload(code, reason) ==
  IF \/ ReservedClose(code)
     \/ InvalidClose(code) /\ code # NoStatus
     \/ code = NoStatus /\ reason # <<>>
     \/ Len(reason) > SizeBasic - 2
  THEN "refused"
  ELSE IF code = NoStatus THEN <<>>
  ELSE <<HighByte(code), LowByte(code)>> \o reason

ExtractCode(payload) ==
  IF payload = <<>> THEN [ok |-> TRUE, code |-> NoStatus]
  ELSE IF Len(payload) = 1 THEN [ok |-> FALSE, code |-> 1002]
  ELSE LET code == CodeIn(payload)
       IN [ok |-> ~InvalidClose(code) /\ ~ReservedClose(code), code |-> code]

ReasonOf(payload) == SubSeq(payload, 3, Len(payload))
=============================================================================
