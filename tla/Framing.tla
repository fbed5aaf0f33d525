------------------------------- MODULE Framing -------------------------------
(***************************************************************************)
(* Frames (proto/src/lib.rs and aead.rs): how a packet is sealed into      *)
(* header || length || ciphertext || mac, and how such a frame is split,   *)
(* authenticated and decoded again, as operators.                          *)
(*                                                                         *)
(* Of the bytes of a payload the model keeps their number and whether they *)
(* are the ones sent.  RealAead and DummyAead are ideal: a tag of at least *)
(* a byte stands for all that went into it, and opens with nothing else.   *)
(* Of a configured MacLen they think differently.                          *)
(***************************************************************************)
EXTENDS Validation

CONSTANT Cipher   \* the AEAD, "real" or "dummy"

MaxMac == 16   \* MAX_MAC_BYTES

Flags == {"encrypted", "needs_ack", "retransmit"}

\* Bytes that are not the ones sent, and a tag that belongs to no text.
Damaged == "damaged"

NoTag == [nonce |-> None, aad |-> <<>>, text |-> [len |-> 0, data |-> Damaged]]

-----------------------------------------------------------------------------
(* Payloads and headers.                                                   *)

PayloadType == {"HandshakeInit", "HandshakeAccept", "Control", "KeyReport", "Ack", "KeepAlive"}

PayloadLen(payload) ==
    CASE payload.type = "HandshakeInit"   -> HandshakeLimit
      [] payload.type = "HandshakeAccept" -> 4
      [] payload.type = "Control"         -> 1 + payload.size
      [] payload.type = "KeyReport"       -> payload.size
      [] payload.type = "Ack"             -> 4
      [] payload.type = "KeepAlive"       -> 0

EncodePayload(payload) == [len |-> PayloadLen(payload), data |-> payload.data]

\* The type of payload that so many bytes decode to, or "None".
DecodedType(kind, len) ==
    CASE kind = "Handshake" /\ len = HandshakeLimit -> "HandshakeInit"
      [] kind = "Handshake" /\ len = 4              -> "HandshakeAccept"
      [] kind = "Control" /\ len > 0                -> "Control"
      [] kind = "KeyReport"                         -> "KeyReport"
      [] kind = "Ack" /\ len = 4                    -> "Ack"
      [] kind = "KeepAlive" /\ len = 0              -> "KeepAlive"
      [] OTHER                                      -> "None"

DecodePayload(kind, bytes) ==
    LET type == DecodedType(kind, bytes.len)
    IN  [type |-> type,
         size |-> CASE type = "Control"   -> bytes.len - 1
                    [] type = "KeyReport" -> bytes.len
                    [] OTHER              -> 0,
         data |-> bytes.data]

HeaderOf(packet) ==
    [session_id |-> packet.session_id, counter |-> packet.counter,
     kind |-> packet.kind, flags |-> packet.flags]

\* On the wire the byte of the flags may have more bits set; they are dropped.
DecodeHeader(wire) == [wire EXCEPT !.flags = @ \intersect Flags]

\* Mutant of AssociatedData: the length without the header.
AssociatedDataOfLen(header, len) == <<len>>

AssociatedData(header, len) == <<header, len>>

-----------------------------------------------------------------------------
(* Sealing.                                                                *)

SerializeError(packet) ==
    IF PayloadLen(packet.payload) > PayloadLimit(packet.kind) THEN "PayloadTooLarge"
    ELSE IF packet.mac_len # MacLen THEN "MacLengthMismatch"
    ELSE "Ok"

\* RealAead makes tags of one length only, DummyAead of any.
AeadSealError == IF Cipher = "real" /\ MacLen # MaxMac THEN "MacLengthMismatch" ELSE "Ok"

SealError(packet) ==
    IF SerializeError(packet) # "Ok" THEN SerializeError(packet) ELSE AeadSealError

\* The tag of DummyAead is as long as it is told to be: of no bytes, it is the
\* same for everything.
Tag(nonce, header, text) ==
    IF MacLen = 0 THEN NoTag
    ELSE [nonce |-> nonce, aad |-> AssociatedData(header, text.len), text |-> text]

\* tail counts the bytes that follow the length field.
SealFramed(packet, nonce) ==
    LET text == EncodePayload(packet.payload)
    IN  [header |-> HeaderOf(packet), len |-> text.len, tail |-> text.len + MacLen,
         text |-> text, tag |-> Tag(nonce, HeaderOf(packet), text)]

-----------------------------------------------------------------------------
(* Opening.                                                                *)

\* The bytes that the length field cuts out as the payload, and those it leaves
\* as the MAC: the ones sent if neither the field nor the number of bytes has
\* changed.
TextOf(frame) ==
    IF frame.len = frame.text.len THEN frame.text
    ELSE [len |-> frame.len, data |-> Damaged]

TagOf(frame) ==
    IF frame.len = frame.text.len /\ frame.tail = frame.text.len + MacLen
    THEN frame.tag
    ELSE NoTag

\* Mutant of TooShort: one byte off.
TooShortOrExact(frame) == frame.tail <= MacLen

TooShort(frame) == frame.tail < MacLen

\* The checks of the lengths, in the order of open_framed.
SplitError(frame) ==
    IF TooShort(frame) THEN "UnexpectedLength"
    ELSE IF frame.header.kind \notin Kind THEN "UnknownKind"
    ELSE IF frame.len > frame.tail THEN "UnexpectedLength"
    ELSE IF frame.tail - frame.len # MacLen THEN "MacLengthMismatch"
    ELSE IF frame.len > PayloadLimit(frame.header.kind) THEN "UnexpectedLength"
    ELSE "Ok"

\* RealAead takes tags of one length only; either takes the tag it would make.
AeadOpenError(frame, header, nonce) ==
    IF Cipher = "real" /\ MacLen # MaxMac THEN "MacLengthMismatch"
    ELSE IF TagOf(frame) # Tag(nonce, header, TextOf(frame)) THEN "AuthFailed"
    ELSE "Ok"

\* What open_framed returns: an error, or "Ok" and then OpenedPacket.
OpenError(frame, nonce) ==
    LET header == DecodeHeader(frame.header)
        opened == AeadOpenError(frame, header, nonce)
    IN  IF SplitError(frame) # "Ok" THEN SplitError(frame)
        ELSE IF opened # "Ok" THEN opened
        ELSE IF DecodedType(header.kind, frame.len) = "None" THEN "UnexpectedLength"
        ELSE "Ok"

OpenedPacket(frame) ==
    LET header  == DecodeHeader(frame.header)
        payload == DecodePayload(header.kind, TextOf(frame))
    IN  [session_id |-> header.session_id, counter |-> header.counter,
         kind |-> header.kind, flags |-> header.flags,
         payload |-> payload, payload_len |-> PayloadLen(payload),
         mac_len |-> frame.tail - frame.len]

\* Mutant of ParseError: the size is not looked at.
ParseErrorOfAnySize(frame) ==
    IF TooShort(frame) \/ frame.len > frame.tail THEN "UnexpectedLength"
    ELSE IF frame.tail - frame.len # MacLen THEN "MacLengthMismatch"
    ELSE IF frame.header.kind \notin Kind THEN "UnknownKind"
    ELSE IF DecodedType(frame.header.kind, frame.len) = "None" THEN "UnexpectedLength"
    ELSE "Ok"

\* What parse_framed returns of the same frame, unopened: its checks come in
\* another order.
ParseError(frame) ==
    IF TooShort(frame) \/ frame.len > frame.tail THEN "UnexpectedLength"
    ELSE IF frame.tail - frame.len # MacLen THEN "MacLengthMismatch"
    ELSE IF frame.header.kind \notin Kind THEN "UnknownKind"
    ELSE IF \/ frame.len > PayloadLimit(frame.header.kind)
            \/ DecodedType(frame.header.kind, frame.len) = "None"
    THEN "UnexpectedLength"
    ELSE "Ok"
=============================================================================
