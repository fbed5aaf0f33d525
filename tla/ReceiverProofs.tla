---------------------------- MODULE ReceiverProofs ----------------------------
(***************************************************************************)
(* Proofs about Receiver, for every window, limit, suite, number of        *)
(* packets, and any damage that noise can do.                              *)
(***************************************************************************)
EXTENDS Receiver, TLAPS

-----------------------------------------------------------------------------
(* Frames as they are sealed.                                              *)

Carried(number) == IF number = 0 THEN Handshake ELSE body

\* The text of a packet, and what its tag stands for.
Text(number) ==
    [len |-> PayloadLen([type |-> Carried(number).type, size |-> Carried(number).size,
                         data |-> "sent"]),
     data |-> "sent"]

WireHeader ==
    [session_id : Int, counter : Nat, kind : Kind \union {"unknown"},
     flags : SUBSET (Flags \union {"reserved"})]

WireText == [len : Nat, data : {"sent", Damaged}]

\* The handshake and all other packets carry a payload of their kind.
LEMMA CarriedIsBody ==
    ASSUME body \in Bodies, NEW number
    PROVE  Carried(number) \in Body
  BY ReceiverAssumption DEF Carried, Handshake, Body, Kind, PayloadType

\* A payload is as long as a number of bytes, and decodes to itself: what
\* decode_payload makes of what encode_payload wrote (lib.rs).
LEMMA RoundTrip ==
    ASSUME NEW carried \in Body,
           NEW payload, payload = [type |-> carried.type, size |-> carried.size, data |-> "sent"]
    PROVE  /\ PayloadLen(payload) \in Nat
           /\ DecodedType(carried.kind, PayloadLen(payload)) = carried.type
           /\ DecodePayload(carried.kind, EncodePayload(payload)) = payload
  <1>1. CASE carried.kind = "Handshake"
    BY <1>1, ReceiverAssumption
    DEF Body, Kind, PayloadType, PayloadLen, DecodedType, DecodePayload, EncodePayload
  <1>2. CASE carried.kind = "Control"
    BY <1>2, ReceiverAssumption
    DEF Body, Kind, PayloadType, PayloadLen, DecodedType, DecodePayload, EncodePayload
  <1>3. CASE carried.kind = "KeyReport"
    BY <1>3, ReceiverAssumption
    DEF Body, Kind, PayloadType, PayloadLen, DecodedType, DecodePayload, EncodePayload
  <1>4. CASE carried.kind \in {"Ack", "KeepAlive"}
    BY <1>4, ReceiverAssumption
    DEF Body, Kind, PayloadType, PayloadLen, DecodedType, DecodePayload, EncodePayload
  <1>5. QED
    BY <1>1, <1>2, <1>3, <1>4 DEF Body, Kind

\* The fields of a sealed packet.
LEMMA SealedFields ==
    ASSUME suite \in Suites, body \in Bodies, NEW number \in Nat
    PROVE  /\ Text(number) \in WireText
           /\ HeaderOf(Packet(number)) \in WireHeader
           /\ HeaderOf(Packet(number)).session_id = SessionId
           /\ HeaderOf(Packet(number)).counter = number
           /\ HeaderOf(Packet(number)).kind = Carried(number).kind
           /\ HeaderOf(Packet(number)).flags \subseteq Flags
           /\ "encrypted" \in HeaderOf(Packet(number)).flags <=> number # 0
           /\ Sealed(number) =
                [header |-> HeaderOf(Packet(number)), len |-> Text(number).len,
                 tail |-> Text(number).len + suite.mac_len, text |-> Text(number),
                 tag |-> Tag(number, HeaderOf(Packet(number)), Text(number))]
           /\ suite.mac_len \in Nat
  <1>1. Carried(number) \in Body
    BY CarriedIsBody
  <1>2. Text(number).len \in Nat /\ Text(number) \in WireText
    BY <1>1, RoundTrip DEF Text, WireText
  <1>3. suite.mac_len \in Nat
    BY ReceiverAssumption DEF Suite
  <1>4. HeaderOf(Packet(number)) =
          [session_id |-> SessionId, counter |-> number, kind |-> Carried(number).kind,
           flags |-> IF number = 0 THEN {"needs_ack"} ELSE {"encrypted", "needs_ack"}]
    BY DEF HeaderOf, Packet, Carried
  <1>5. HeaderOf(Packet(number)) \in WireHeader
    BY <1>1, <1>4, ReceiverAssumption DEF WireHeader, Flags, Body
  <1>6. EncodePayload(Packet(number).payload) = Text(number)
    BY DEF EncodePayload, Packet, Text, Carried
  <1>7. QED
    BY <1>2, <1>3, <1>4, <1>5, <1>6 DEF Sealed, SealFramed, Flags

-----------------------------------------------------------------------------
(* What becomes of them in the air.                                        *)

\* A frame is one of the packet number, whole or damaged: its header may have
\* any counter that damage has pushed it to, but its tag and the length of its text
\* are the sealed ones, or the tag is none.
Stems(frame, number) ==
    /\ frame = [header |-> frame.header, len |-> frame.len, tail |-> frame.tail,
                text |-> frame.text, tag |-> frame.tag]
    /\ frame.header \in WireHeader /\ frame.text \in WireText
    /\ frame.len \in Nat /\ frame.tail \in Nat
    /\ frame.header.counter \in 0 .. number + damage
    /\ frame.text.len = Text(number).len
    /\ frame.tag \in {NoTag, Tag(number, HeaderOf(Packet(number)), Text(number))}
    /\ "encrypted" \in frame.header.flags <=> number # 0

Sealable(number) == SealError(Packet(number)) = "Ok"

\* All that is in the air was sealed, once.
AllStem == \A frame \in air : \E number \in 0 .. sent - 1 : Sealable(number) /\ Stems(frame, number)

\* A frame as it was sealed.
LEMMA SealedStems ==
    ASSUME suite \in Suites, body \in Bodies, damage \in Nat, NEW number \in Nat
    PROVE  Stems(Sealed(number), number)
  <1>1. WireHeader = WireHeader /\ Sealed(number).header = HeaderOf(Packet(number))
    BY SealedFields
  <1>2. Sealed(number).text = Text(number) /\ Sealed(number).len = Text(number).len
    BY SealedFields
  <1>3. Sealed(number).len \in Nat /\ Sealed(number).tail \in Nat
    BY SealedFields DEF WireText
  <1>4. QED
    BY SealedFields, <1>1, <1>2, <1>3 DEF Stems

\* Damage leaves a frame one of its packet.
LEMMA DamagedStems ==
    ASSUME damage \in Nat, damage' = damage + 1, UNCHANGED <<suite, body>>,
           NEW number \in Nat, NEW frame, Stems(frame, number),
           NEW form \in DamagedForms(frame)
    PROVE  Stems(form, number)'
  <1> DEFINE h == frame.header
  <1>1. h \in WireHeader /\ frame.text \in WireText
    BY DEF Stems
  <1>2. h.counter \in 0 .. number + damage /\ ("encrypted" \in h.flags <=> number # 0)
    BY DEF Stems
  <1>3. Text(number)' = Text(number) /\ HeaderOf(Packet(number))' = HeaderOf(Packet(number))
    BY DEF Text, HeaderOf, Packet, Carried
  <1>4. /\ Tag(number, HeaderOf(Packet(number)), Text(number))'
             = Tag(number, HeaderOf(Packet(number)), Text(number))
    BY <1>3 DEF Tag, AssociatedData
  <1>5. frame = [header |-> h, len |-> frame.len, tail |-> frame.tail,
                 text |-> frame.text, tag |-> frame.tag]
    BY DEF Stems
  <1>6. frame.len \in Nat /\ frame.tail \in Nat /\ frame.text.len = Text(number).len
        /\ frame.tag \in {NoTag, Tag(number, HeaderOf(Packet(number)), Text(number))}
    BY DEF Stems
  <1> HIDE DEF h
  <1>7. ASSUME NEW header \in WireHeader, header.counter \in 0 .. number + damage + 1,
               "encrypted" \in header.flags <=> number # 0,
               form = [header |-> header, len |-> frame.len, tail |-> frame.tail,
                       text |-> frame.text, tag |-> frame.tag]
        PROVE  Stems(form, number)'
    BY <1>1, <1>3, <1>4, <1>6, <1>7 DEF Stems
  <1>8. ASSUME NEW len \in Nat, NEW tail \in Nat,
               form = [header |-> h, len |-> len, tail |-> tail,
                       text |-> frame.text, tag |-> frame.tag]
        PROVE  Stems(form, number)'
    BY <1>1, <1>2, <1>3, <1>4, <1>6, <1>8 DEF Stems, WireHeader
  <1>9. CASE form = [frame EXCEPT !.header.session_id = @ + 1]
    <2> DEFINE g == [h EXCEPT !.session_id = @ + 1]
    <2>1. g \in WireHeader /\ g.counter = h.counter /\ g.flags = h.flags
      BY <1>1 DEF WireHeader
    <2>2. form = [header |-> g, len |-> frame.len, tail |-> frame.tail,
                  text |-> frame.text, tag |-> frame.tag]
      BY <1>5, <1>9
    <2> HIDE DEF g
    <2>3. QED
      BY <1>2, <1>7, <2>1, <2>2
  <1>10. CASE form = [frame EXCEPT !.header.counter = @ + 1]
    <2> DEFINE g == [h EXCEPT !.counter = @ + 1]
    <2>1. g \in WireHeader /\ g.counter = h.counter + 1 /\ g.flags = h.flags
      BY <1>1 DEF WireHeader
    <2>2. form = [header |-> g, len |-> frame.len, tail |-> frame.tail,
                  text |-> frame.text, tag |-> frame.tag]
      BY <1>5, <1>10
    <2> HIDE DEF g
    <2>3. QED
      BY <1>2, <1>7, <2>1, <2>2
  <1>11. CASE \E flag \in {"retransmit", "reserved"} :
                form = [frame EXCEPT !.header.flags = @ \union {flag}]
    <2>1. PICK flag \in {"retransmit", "reserved"} :
                form = [frame EXCEPT !.header.flags = @ \union {flag}]
      BY <1>11
    <2> DEFINE flags == h.flags \union {flag}
               g == [h EXCEPT !.flags = flags]
    <2>0. form = [frame EXCEPT !.header.flags = flags]
      BY <1>5, <2>1
    <2>2. g \in WireHeader /\ g.counter = h.counter /\ g.flags = h.flags \union {flag}
      BY <1>1, <2>1 DEF WireHeader, Flags
    <2>3. form = [header |-> g, len |-> frame.len, tail |-> frame.tail,
                  text |-> frame.text, tag |-> frame.tag]
      <3> HIDE DEF flags
      <3> QED
        BY <1>5, <2>0
    <2>4. "encrypted" \in g.flags <=> number # 0
      BY <1>2, <2>1, <2>2
    <2> HIDE DEF g
    <2>5. QED
      BY <1>2, <1>7, <2>2, <2>3, <2>4
  <1>12. CASE \E kind \in Kind \union {"unknown"} : form = [frame EXCEPT !.header.kind = kind]
    <2>1. PICK kind \in Kind \union {"unknown"} : form = [frame EXCEPT !.header.kind = kind]
      BY <1>12
    <2> DEFINE g == [h EXCEPT !.kind = kind]
    <2>2. g \in WireHeader /\ g.counter = h.counter /\ g.flags = h.flags
      BY <1>1 DEF WireHeader
    <2>3. form = [header |-> g, len |-> frame.len, tail |-> frame.tail,
                  text |-> frame.text, tag |-> frame.tag]
      BY <1>5, <2>1
    <2> HIDE DEF g
    <2>4. QED
      BY <1>2, <1>7, <2>2, <2>3
  <1>13. CASE form = [frame EXCEPT !.text.data = Damaged]
    <2> DEFINE text == [frame.text EXCEPT !.data = Damaged]
    <2>1. form = [header |-> h, len |-> frame.len, tail |-> frame.tail,
                  text |-> text, tag |-> frame.tag]
      BY <1>5, <1>13
    <2>2. text \in WireText /\ text.len = frame.text.len
      BY <1>1 DEF WireText
    <2> HIDE DEF text
    <2>3. h.counter \in 0 .. number + damage + 1
      BY <1>1, <1>2 DEF WireHeader
    <2>4. QED
      BY <1>1, <1>2, <1>3, <1>4, <1>6, <2>1, <2>2, <2>3 DEF Stems
  <1>14. CASE form = [frame EXCEPT !.tag = NoTag]
    <2>1. form = [header |-> h, len |-> frame.len, tail |-> frame.tail,
                  text |-> frame.text, tag |-> NoTag]
      BY <1>5, <1>14
    <2>2. QED
      BY <1>1, <1>2, <1>3, <1>6, <2>1 DEF Stems, WireHeader
  <1>15. CASE form \in {[frame EXCEPT !.len = @ + 1], [frame EXCEPT !.tail = @ - 1],
                        [frame EXCEPT !.tail = 0],
                        [frame EXCEPT !.len = @ - 1, !.tail = @ - 1]}
              /\ form.len >= 0 /\ form.tail >= 0
    <2>1. CASE form = [frame EXCEPT !.len = @ + 1]
      <3>1. form = [header |-> h, len |-> frame.len + 1, tail |-> frame.tail,
                    text |-> frame.text, tag |-> frame.tag]
        BY <1>5, <2>1
      <3>2. QED
        BY <1>6, <1>8, <3>1
    <2>2. CASE form = [frame EXCEPT !.tail = @ - 1]
      <3>1. form = [header |-> h, len |-> frame.len, tail |-> frame.tail - 1,
                    text |-> frame.text, tag |-> frame.tag]
        BY <1>5, <2>2
      <3>2. frame.tail - 1 \in Nat
        BY <1>6, <1>15, <3>1
      <3>3. QED
        BY <1>6, <1>8, <3>1, <3>2
    <2>3. CASE form = [frame EXCEPT !.tail = 0]
      <3>1. form = [header |-> h, len |-> frame.len, tail |-> 0,
                    text |-> frame.text, tag |-> frame.tag]
        BY <1>5, <2>3
      <3>2. QED
        BY <1>6, <1>8, <3>1
    <2>4. CASE form = [frame EXCEPT !.len = @ - 1, !.tail = @ - 1]
      <3> DEFINE len == frame.len - 1
                 tail == frame.tail - 1
      <3>1. form = [[frame EXCEPT !.len = len] EXCEPT !.tail = tail]
        BY <1>5, <2>4
      <3> HIDE DEF len, tail
      <3> DEFINE half == [frame EXCEPT !.len = len]
      <3>2. half = [header |-> h, len |-> len, tail |-> frame.tail,
                    text |-> frame.text, tag |-> frame.tag]
        BY <1>5
      <3>3. form = [header |-> h, len |-> len, tail |-> tail,
                    text |-> frame.text, tag |-> frame.tag]
        <4>1. form = [half EXCEPT !.tail = tail]
          BY <3>1
        <4> HIDE DEF half
        <4>2. QED
          BY <3>2, <4>1
      <3>4. len \in Nat /\ tail \in Nat
        BY <1>6, <1>15, <3>3 DEF len, tail
      <3>5. QED
        BY <1>8, <3>3, <3>4
    <2>5. QED
      BY <1>15, <2>1, <2>2, <2>3, <2>4
  <1>16. QED
    BY <1>9, <1>10, <1>11, <1>12, <1>13, <1>14, <1>15 DEF DamagedForms

\* Whatever opens is the packet it stems from: the tag covers all that the receiver
\* goes by.
LEMMA Authentic ==
    ASSUME suite \in Suites, body \in Bodies, suite.mac_len # 0,
           NEW number \in Nat, NEW frame, Stems(frame, number), OpensAs(frame) = "Ok"
    PROVE  /\ frame.header.counter = number
           /\ frame.tag.nonce = number
           /\ OpenedPacket(frame) = Packet(number)
  <1> DEFINE c == frame.header.counter
             header == DecodeHeader(frame.header)
  <1>1. /\ SplitError(frame) = "Ok" /\ AeadOpenError(frame, header, c) = "Ok"
    BY DEF OpensAs, OpenError
  <1>2. frame.tail - frame.len = suite.mac_len
    BY <1>1 DEF SplitError
  <1>3. TagOf(frame) = Tag(c, header, TextOf(frame))
    BY <1>1 DEF AeadOpenError
  <1>4. Tag(c, header, TextOf(frame)) =
          [nonce |-> c, aad |-> AssociatedData(header, TextOf(frame).len), text |-> TextOf(frame)]
    BY DEF Tag
  <1>5. c \in Nat /\ frame.header \in WireHeader
    BY DEF Stems, WireHeader
  <1>6. NoTag.nonce # c
    BY <1>5 DEF NoTag, None
  <1>7. TagOf(frame) # NoTag
    BY <1>3, <1>4, <1>6
  <1>8. TagOf(frame) = frame.tag
        /\ frame.tag = Tag(number, HeaderOf(Packet(number)), Text(number))
    BY <1>7 DEF TagOf, Stems
  <1>9. Tag(number, HeaderOf(Packet(number)), Text(number)) =
          [nonce |-> number, aad |-> AssociatedData(HeaderOf(Packet(number)), Text(number).len),
           text |-> Text(number)]
    BY DEF Tag
  <1>10. /\ c = number /\ TextOf(frame) = Text(number)
         /\ AssociatedData(header, TextOf(frame).len)
              = AssociatedData(HeaderOf(Packet(number)), Text(number).len)
    BY <1>3, <1>4, <1>8, <1>9
  <1>11. header = HeaderOf(Packet(number))
    BY <1>10 DEF AssociatedData
  <1>12. frame.tag.nonce = number
    BY <1>8, <1>9
  <1> DEFINE payload == Packet(number).payload
  <1>13. payload = [type |-> Carried(number).type, size |-> Carried(number).size,
                    data |-> "sent"]
    BY DEF Packet, Carried
  <1>14. Text(number) = EncodePayload(payload)
    BY <1>13 DEF Text, EncodePayload
  <1>15. header.kind = Carried(number).kind
    BY <1>11 DEF HeaderOf, Packet, Carried
  <1>16. DecodePayload(header.kind, TextOf(frame)) = payload
    BY <1>10, <1>13, <1>14, <1>15, CarriedIsBody, RoundTrip
  <1>17. OpenedPacket(frame) =
           [session_id |-> header.session_id, counter |-> header.counter,
            kind |-> header.kind, flags |-> header.flags,
            payload |-> payload, payload_len |-> PayloadLen(payload),
            mac_len |-> suite.mac_len]
    BY <1>2, <1>16 DEF OpenedPacket
  <1>18. OpenedPacket(frame) = Packet(number)
    BY <1>11, <1>17 DEF HeaderOf, Packet, Carried
  <1>19. QED
    BY <1>10, <1>12, <1>18

\* A sealed frame that arrives whole opens to its packet: open_framed undoes
\* seal_framed, whatever the suite.
LEMMA WholeOpens ==
    ASSUME suite \in Suites, body \in Bodies, NEW number \in Nat, Sealable(number)
    PROVE  OpensAs(Sealed(number)) = "Ok" /\ OpenedPacket(Sealed(number)) = Packet(number)
  <1> DEFINE frame   == Sealed(number)
             header  == HeaderOf(Packet(number))
             text    == Text(number)
             payload == Packet(number).payload
  <1>1. frame = [header |-> header, len |-> text.len, tail |-> text.len + suite.mac_len,
                 text |-> text, tag |-> Tag(number, header, text)]
    BY SealedFields
  <1>2. text \in WireText /\ header \in WireHeader /\ suite.mac_len \in Nat
        /\ header.counter = number /\ header.kind = Carried(number).kind
        /\ header.flags \subseteq Flags
    BY SealedFields
  <1>3. payload = [type |-> Carried(number).type, size |-> Carried(number).size,
                   data |-> "sent"]
    BY DEF Packet, Carried
  <1>4. text = EncodePayload(payload) /\ text.len = PayloadLen(payload)
    BY <1>3 DEF Text, EncodePayload
  <1>5. Carried(number) \in Body
    BY CarriedIsBody
  <1>6. DecodedType(header.kind, text.len) = Carried(number).type
        /\ DecodePayload(header.kind, text) = payload
    BY <1>2, <1>3, <1>4, <1>5, RoundTrip
  <1>7. Carried(number).type # "None" /\ header.kind \in Kind
    BY <1>2, <1>5 DEF Body, PayloadType
  <1>8. ~(suite.cipher = "real" /\ suite.mac_len # MaxMac)
        /\ PayloadLen(payload) <= PayloadLimit(header.kind)
    <2>1. SerializeError(Packet(number)) = "Ok" /\ AeadSealError = "Ok"
      BY DEF Sealable, SealError
    <2>2. header.kind = Packet(number).kind
      BY DEF HeaderOf
    <2>3. PayloadLen(payload) \in Nat /\ PayloadLimit(header.kind) \in Nat
      BY <1>3, <1>5, RoundTrip, ReceiverAssumption DEF PayloadLimit
    <2>4. QED
      BY <2>1, <2>2, <2>3 DEF SerializeError, AeadSealError
  <1> HIDE DEF frame, header, text, payload
  <1>9. DecodeHeader(header) = header
    BY <1>2 DEF DecodeHeader, WireHeader
  <1>10. text.len \in Nat
    BY <1>2 DEF WireText
  <1>11. frame.header = header /\ frame.len = text.len /\ frame.text = text
         /\ frame.tail = text.len + suite.mac_len /\ frame.tag = Tag(number, header, text)
    BY <1>1
  <1>12. SplitError(frame) = "Ok"
    BY <1>2, <1>4, <1>7, <1>8, <1>10, <1>11, ReceiverAssumption
    DEF SplitError, TooShort, PayloadLimit
  <1>13. TextOf(frame) = text /\ TagOf(frame) = Tag(number, header, text)
    BY <1>11 DEF TextOf, TagOf
  <1>14. AeadOpenError(frame, header, number) = "Ok"
    BY <1>8, <1>13 DEF AeadOpenError
  <1>15. OpensAs(frame) = "Ok"
    BY <1>2, <1>6, <1>7, <1>9, <1>11, <1>12, <1>14 DEF OpensAs, OpenError
  <1>16. frame.tail - frame.len = suite.mac_len
    BY <1>2, <1>10, <1>11
  <1>17. OpenedPacket(frame) =
           [session_id |-> header.session_id, counter |-> header.counter,
            kind |-> header.kind, flags |-> header.flags,
            payload |-> payload, payload_len |-> PayloadLen(payload),
            mac_len |-> suite.mac_len]
    BY <1>6, <1>9, <1>11, <1>13, <1>16 DEF OpenedPacket
  <1>18. OpenedPacket(frame) = Packet(number)
    BY <1>17 DEF header, payload, HeaderOf, Packet, Carried
  <1>19. QED
    BY <1>15, <1>18 DEF frame

-----------------------------------------------------------------------------
(* The invariant.                                                          *)

Counters == 0 .. sent - 1

Types ==
    /\ suite \in Suites /\ body \in Bodies
    /\ sent \in 0 .. MaxSent /\ damage \in 0 .. MaxDamage
    /\ last \in {None} \union Counters
    /\ verdict \in Verdicts

\* What was accepted was sent, and nothing was accepted before there was a last
\* counter.
Took ==
    /\ accepted \in Seq({Packet(number) : number \in Counters})
    /\ last = None <=> accepted = <<>>

\* The two ends agree on the session, the sizes and the MAC.
NeverRefused ==
    /\ verdict \notin {"SessionMismatch", "PayloadTooLarge"}
    /\ verdict = "MissingMac" => suite.mac_len = 0

IInv == Types /\ AllStem /\ Took /\ AcceptedInOrder /\ NeverRefused

\* What validate_packet lets through comes after the last counter, by no more than
\* the window, and is what was sent.
LEMMA ArriveVerdict ==
    ASSUME IInv, NEW frame \in air, Arrive(frame)
    PROVE  /\ verdict' \in Verdicts
           /\ NeverRefused'
           /\ verdict' = "Ok" =>
                /\ suite.mac_len # 0
                /\ frame.header.counter \in Counters
                /\ frame.tag.nonce = frame.header.counter
                /\ OpenedPacket(frame) = Packet(frame.header.counter)
                /\ last # None => frame.header.counter \in last + 1 .. last + JumpWindow
  <1> DEFINE opened == OpenedPacket(frame)
  <1>1. PICK number \in Counters : Sealable(number) /\ Stems(frame, number)
    BY DEF IInv, AllStem, Counters
  <1>2. /\ suite \in Suites /\ body \in Bodies /\ number \in Nat
        /\ last \in Int /\ sent \in Nat /\ suite.mac_len \in Nat
    BY ReceiverAssumption DEF IInv, Types, Counters, None, Suite
  <1>3. suite' = suite
    BY DEF Arrive
  <1>4. CASE OpensAs(frame) # "Ok"
    <2>1. verdict' = OpensAs(frame)
      BY <1>4 DEF Arrive
    <2>2. OpensAs(frame) \in {"UnexpectedLength", "UnknownKind", "MacLengthMismatch",
                              "AuthFailed", "Ok"}
      BY DEF OpensAs, OpenError, SplitError, AeadOpenError
    <2>3. QED
      BY <1>3, <1>4, <2>1, <2>2 DEF Verdicts, NeverRefused
  <1>5. CASE OpensAs(frame) = "Ok"
    <2>1. verdict' = Validate(opened, Expected, last)
      BY <1>5 DEF Arrive
    <2>2. frame.tail - frame.len = suite.mac_len
      BY <1>5 DEF OpensAs, OpenError, SplitError
    <2>3. opened.mac_len = suite.mac_len
      BY <2>2 DEF OpenedPacket
    <2>4. CASE suite.mac_len = 0
      <3>1. verdict' = "MissingMac"
        BY <2>1, <2>3, <2>4 DEF Validate, MacMissing
      <3>2. QED
        BY <1>3, <2>4, <3>1 DEF Verdicts, NeverRefused
    <2>5. CASE suite.mac_len # 0
      <3>1. frame.header.counter = number /\ frame.tag.nonce = number
            /\ opened = Packet(number)
        BY <1>1, <1>2, <1>5, <2>5, Authentic
      <3>2. opened.session_id = SessionId /\ opened.counter = number
        BY <3>1 DEF Packet
      <3>3. ~MacMissing(opened)
        BY <2>3, <2>5 DEF MacMissing
      <3>4. ~OtherSession(opened, Expected)
        BY <3>2 DEF OtherSession, Expected
      <3>5. ~TooLarge(opened)
        <4>1. SerializeError(Packet(number)) = "Ok"
          BY <1>1 DEF Sealable, SealError
        <4>2. ~(PayloadLen(Packet(number).payload) > PayloadLimit(Packet(number).kind))
          BY <4>1 DEF SerializeError
        <4>3. Packet(number).payload_len = PayloadLen(Packet(number).payload)
          BY DEF Packet
        <4>4. QED
          BY <3>1, <4>2, <4>3 DEF TooLarge
      <3>6. Validate(opened, Expected, last) =
              IF Replays(opened, last) THEN "ReplayDetected"
              ELSE IF Jumps(opened, last) THEN "CounterJump" ELSE "Ok"
        BY <3>3, <3>4, <3>5 DEF Validate
      <3>7. verdict' \in {"ReplayDetected", "CounterJump", "Ok"}
        BY <2>1, <3>6
      <3>8. verdict' = "Ok" => ~Replays(opened, last) /\ ~Jumps(opened, last)
        BY <2>1, <3>6
      <3>9. verdict' = "Ok" /\ last # None => number \in last + 1 .. last + JumpWindow
        BY <1>2, <3>2, <3>8, ReceiverAssumption DEF Replays, Jumps
      <3> HIDE DEF opened
      <3>10. QED
        BY <1>1, <1>3, <2>5, <3>1, <3>7, <3>9 DEF Verdicts, NeverRefused, opened
    <2>6. QED
      BY <2>4, <2>5
  <1>6. QED
    BY <1>4, <1>5

\* What a frame stems from does not change while the damage is the same.
LEMMA StemsStay ==
    ASSUME UNCHANGED <<suite, body, damage>>, NEW number, NEW frame
    PROVE  /\ Stems(frame, number)' <=> Stems(frame, number)
           /\ Sealable(number)' <=> Sealable(number)
           /\ Packet(number)' = Packet(number)
  BY DEF Stems, Text, Tag, HeaderOf, AssociatedData, Packet, Carried, Sealable, SealError,
         SerializeError, AeadSealError, PayloadLen, PayloadLimit

\* More damage leaves a frame that was not damaged one of its packet, and leaves a
\* packet one that can be sealed.
LEMMA StemsGrow ==
    ASSUME damage \in Nat, damage' = damage + 1, UNCHANGED <<suite, body>>,
           NEW number \in Nat, NEW frame, Stems(frame, number)
    PROVE  Stems(frame, number)'
  <1>1. Text(number)' = Text(number) /\ HeaderOf(Packet(number))' = HeaderOf(Packet(number))
        /\ Tag(number, HeaderOf(Packet(number)), Text(number))'
             = Tag(number, HeaderOf(Packet(number)), Text(number))
    BY DEF Text, Tag, HeaderOf, AssociatedData, Packet, Carried
  <1>2. frame.header.counter \in 0 .. number + damage + 1
    BY DEF Stems, WireHeader
  <1>3. QED
    BY <1>1, <1>2 DEF Stems

\* Whether a packet can be sealed is settled when the ends are configured.
LEMMA SealableStays ==
    ASSUME UNCHANGED <<suite, body>>, NEW number
    PROVE  Sealable(number)' <=> Sealable(number)
  BY DEF Sealable, SealError, SerializeError, AeadSealError, Packet, PayloadLen, PayloadLimit

\* The sender keeps the invariant: a packet that cannot be sealed costs a counter
\* and leaves no frame.
LEMMA SendKeeps ==
    ASSUME IInv, Send
    PROVE  IInv'
  <1>1. /\ sent \in Nat /\ damage \in Nat /\ sent' = sent + 1 /\ sent' \in 0 .. MaxSent
        /\ suite \in Suites /\ body \in Bodies
        /\ UNCHANGED <<suite, body, damage, last, verdict, accepted>>
    BY ReceiverAssumption DEF IInv, Types, Send
  <1>2. Counters \subseteq Counters' /\ sent \in Counters'
    BY <1>1 DEF Counters
  <1>3. Types'
    BY <1>1, <1>2 DEF IInv, Types
  <1>4. AllStem'
    <2>1. ASSUME NEW frame \in air'
          PROVE  \E number \in Counters' : Sealable(number)' /\ Stems(frame, number)'
      <3>1. CASE frame \in air
        <4>1. PICK number \in Counters : Sealable(number) /\ Stems(frame, number)
          BY <3>1 DEF IInv, AllStem, Counters
        <4>2. QED
          BY <1>1, <1>2, <4>1, StemsStay
      <3>2. CASE frame \notin air
        <4>1. SealError(Packet(sent)) = "Ok" /\ frame = Sealed(sent)
          BY <2>1, <3>2 DEF Send
        <4>2. Sealable(sent) /\ Stems(frame, sent)
          BY <1>1, <4>1, SealedStems DEF Sealable
        <4>3. QED
          BY <1>1, <1>2, <4>2, StemsStay
      <3>3. QED
        BY <3>1, <3>2
    <2>2. QED
      BY <2>1 DEF AllStem, Counters
  <1>5. Took'
    <2>1. {Packet(number) : number \in Counters} \subseteq {Packet(number)' : number \in Counters'}
      BY <1>1, <1>2, StemsStay
    <2>2. accepted \in Seq({Packet(number)' : number \in Counters'})
      BY <2>1 DEF IInv, Took
    <2>3. QED
      BY <1>1, <2>2 DEF IInv, Took
  <1>6. AcceptedInOrder' /\ NeverRefused'
    BY <1>1 DEF IInv, AcceptedInOrder, NeverRefused
  <1>7. QED
    BY <1>3, <1>4, <1>5, <1>6 DEF IInv

\* The receiver keeps it: a packet is accepted only when its counter is past all
\* that were accepted before.
LEMMA ArriveKeeps ==
    ASSUME IInv, NEW frame \in air, Arrive(frame)
    PROVE  IInv'
  <1> DEFINE c == frame.header.counter
             P == {Packet(number) : number \in Counters}
  <1>1. UNCHANGED <<suite, body, sent, damage>> /\ air' \subseteq air
    BY DEF Arrive
  <1>2. /\ sent \in Nat /\ accepted \in Seq(P) /\ (last = None <=> accepted = <<>>)
        /\ last \in Int /\ None \notin Counters
    BY ReceiverAssumption DEF IInv, Types, Took, Counters, None
  <1>3. Counters' = Counters /\ {Packet(number)' : number \in Counters'} = P
    BY <1>1, StemsStay DEF Counters
  <1>4. verdict' \in Verdicts /\ NeverRefused'
    BY ArriveVerdict
  <1>5. AllStem'
    BY <1>1, StemsStay DEF IInv, AllStem
  <1>6. CASE verdict' # "Ok"
    <2>1. UNCHANGED <<last, accepted>>
      BY <1>6 DEF Arrive
    <2>2. Types' /\ Took' /\ AcceptedInOrder'
      BY <1>1, <1>3, <1>4, <2>1 DEF IInv, Types, Took, AcceptedInOrder
    <2>3. QED
      BY <1>4, <1>5, <2>2 DEF IInv
  <1>7. CASE verdict' = "Ok"
    <2>1. c \in Counters /\ OpenedPacket(frame) = Packet(c)
          /\ (last # None => c \in last + 1 .. last + JumpWindow)
      BY <1>7, ArriveVerdict
    <2>2. last' = c /\ accepted' = Append(accepted, Packet(c))
      BY <1>7, <2>1 DEF Arrive
    <2>3. Types'
      BY <1>1, <1>3, <1>4, <2>1, <2>2 DEF IInv, Types
    <2>4. Packet(c) \in P /\ accepted' \in Seq(P) /\ accepted' # <<>>
          /\ Len(accepted') = Len(accepted) + 1
          /\ accepted'[Len(accepted) + 1] = Packet(c)
          /\ \A i \in 1 .. Len(accepted) : accepted'[i] = accepted[i]
      BY <1>2, <2>1, <2>2
    <2>5. Took'
      BY <1>2, <1>3, <2>1, <2>2, <2>4 DEF Took
    <2>6. Packet(c).counter = c
      BY DEF Packet
    <2>7. \A i \in 1 .. Len(accepted) : accepted[i].counter \in Nat
      <3>1. \A number \in Counters : Packet(number).counter = number /\ number \in Nat
        BY <1>2 DEF Packet, Counters
      <3>2. \A i \in 1 .. Len(accepted) : accepted[i] \in P
        BY <1>2
      <3> HIDE DEF P
      <3>3. \A packet \in P : packet.counter \in Nat
        BY <3>1 DEF P
      <3>4. QED
        BY <3>2, <3>3
    <2>8. \A i \in 1 .. Len(accepted) : accepted[i].counter <= last
      <3>1. accepted # <<>> => last = accepted[Len(accepted)].counter
            /\ \A i \in 1 .. Len(accepted) - 1 :
                  accepted[i].counter < accepted[Len(accepted)].counter
        BY <1>2 DEF IInv, AcceptedInOrder
      <3>2. Len(accepted) \in Nat /\ (accepted = <<>> <=> Len(accepted) = 0)
        BY <1>2
      <3>3. QED
        BY <1>2, <2>7, <3>1, <3>2
    <2>9. \A i \in 1 .. Len(accepted) : accepted[i].counter < c
      <3>1. \A i \in 1 .. Len(accepted) : last # None
        BY <1>2
      <3>2. QED
        BY <1>2, <2>1, <2>7, <2>8, <3>1
    <2>10. AcceptedInOrder'
      <3>1. DOMAIN accepted' = 1 .. Len(accepted) + 1 /\ Len(accepted) \in Nat
        BY <1>2, <2>4
      <3>2. ASSUME NEW i \in DOMAIN accepted', NEW j \in DOMAIN accepted', i < j
            PROVE  accepted'[i].counter < accepted'[j].counter
        <4>1. i \in 1 .. Len(accepted)
          BY <3>1, <3>2
        <4>2. CASE j = Len(accepted) + 1
          BY <2>4, <2>6, <2>9, <4>1, <4>2
        <4>3. CASE j # Len(accepted) + 1
          <5>1. j \in 1 .. Len(accepted)
            BY <3>1, <4>3
          <5>2. accepted[i].counter < accepted[j].counter
            BY <1>2, <3>2, <4>1, <5>1 DEF IInv, AcceptedInOrder
          <5>3. QED
            BY <2>4, <4>1, <5>1, <5>2
        <4>4. QED
          BY <4>2, <4>3
      <3>3. last' = accepted'[Len(accepted')].counter
        BY <2>2, <2>4, <2>6
      <3>4. QED
        BY <3>2, <3>3 DEF AcceptedInOrder
    <2>11. QED
      BY <1>4, <1>5, <2>3, <2>5, <2>10 DEF IInv
  <1>8. QED
    BY <1>6, <1>7

\* Noise keeps it: a damaged frame still stems from the packet that was sealed.
LEMMA DamageKeeps ==
    ASSUME IInv, Damage
    PROVE  IInv'
  <1>1. /\ damage \in Nat /\ damage' = damage + 1 /\ damage' \in 0 .. MaxDamage
        /\ sent \in Nat /\ suite \in Suites /\ body \in Bodies
        /\ UNCHANGED <<suite, body, sent, last, verdict, accepted>>
    BY ReceiverAssumption DEF IInv, Types, Damage
  <1>2. PICK frame \in air : \E form \in DamagedForms(frame) :
          air' \in {air \union {form}, (air \ {frame}) \union {form}}
    BY DEF Damage
  <1>3. PICK form \in DamagedForms(frame) :
          air' \in {air \union {form}, (air \ {frame}) \union {form}}
    BY <1>2
  <1>4. AllStem'
    <2>1. ASSUME NEW other \in air'
          PROVE  \E number \in Counters : Sealable(number)' /\ Stems(other, number)'
      <3>1. CASE other \in air
        <4>1. PICK number \in Counters : Sealable(number) /\ Stems(other, number)
          BY <3>1 DEF IInv, AllStem, Counters
        <4>2. number \in Nat
          BY <1>1 DEF Counters
        <4>3. QED
          BY <1>1, <4>1, <4>2, StemsGrow, SealableStays
      <3>2. CASE other = form
        <4>1. PICK number \in Counters : Sealable(number) /\ Stems(frame, number)
          BY <1>2 DEF IInv, AllStem, Counters
        <4>2. number \in Nat
          BY <1>1 DEF Counters
        <4>3. QED
          BY <1>1, <1>3, <3>2, <4>1, <4>2, DamagedStems, SealableStays
      <3>3. QED
        BY <1>3, <3>1, <3>2
    <2>2. QED
      BY <1>1, <2>1 DEF AllStem, Counters
  <1>5. {Packet(number)' : number \in Counters'} = {Packet(number) : number \in Counters}
    BY <1>1 DEF Counters, Packet
  <1>6. Types' /\ Took' /\ AcceptedInOrder' /\ NeverRefused'
    BY <1>1, <1>5 DEF IInv, Types, Took, AcceptedInOrder, NeverRefused, Counters
  <1>7. QED
    BY <1>4, <1>6 DEF IInv

\* A step that leaves all but the air alone, and adds nothing to that.
LEMMA LoseKeeps ==
    ASSUME IInv, air' \subseteq air,
           UNCHANGED <<suite, body, sent, damage, last, verdict, accepted>>
    PROVE  IInv'
  <1>1. AllStem'
    BY StemsStay DEF IInv, AllStem
  <1>2. Counters' = Counters
        /\ {Packet(number)' : number \in Counters'} = {Packet(number) : number \in Counters}
    BY StemsStay DEF Counters
  <1>3. Types' /\ Took' /\ AcceptedInOrder' /\ NeverRefused'
    BY <1>2 DEF IInv, Types, Took, AcceptedInOrder, NeverRefused
  <1>4. QED
    BY <1>1, <1>3 DEF IInv

\* The invariant holds of all that sender, receiver and radio do.
THEOREM ReceiverInvariant == Spec => []IInv
  <1>1. Init => IInv
    <2> SUFFICES ASSUME Init PROVE IInv
      OBVIOUS
    <2>1. Types
      BY ReceiverAssumption DEF Init, Types, Verdicts
    <2>2. AllStem /\ Took /\ AcceptedInOrder /\ NeverRefused
      BY DEF Init, AllStem, Took, AcceptedInOrder, NeverRefused
    <2>3. QED
      BY <2>1, <2>2 DEF IInv
  <1>2. IInv /\ [Next]_vars => IInv'
    <2> SUFFICES ASSUME IInv, [Next]_vars PROVE IInv'
      OBVIOUS
    <2>1. CASE Send
      BY <2>1, SendKeeps
    <2>2. CASE Receive
      BY <2>2, ArriveKeeps DEF Receive
    <2>3. CASE Lose
      BY <2>3, LoseKeeps DEF Lose
    <2>4. CASE Damage
      BY <2>4, DamageKeeps
    <2>5. CASE UNCHANGED vars
      BY <2>5, LoseKeeps DEF vars
    <2>6. QED
      BY <2>1, <2>2, <2>3, <2>4, <2>5 DEF Next
  <1>3. QED
    BY <1>1, <1>2, PTL DEF Spec

-----------------------------------------------------------------------------
(* What follows.                                                           *)

\* Every state has its types: what the radio damages stays a frame.
THEOREM ReceiverTypeOK == Spec => []TypeOK
  <1>1. IInv => TypeOK
    <2> SUFFICES ASSUME IInv PROVE TypeOK
      OBVIOUS
    <2>1. sent \in Nat /\ damage \in Nat
      BY ReceiverAssumption DEF IInv, Types
    <2>2. \A frame \in air :
            /\ frame.header.counter \in 0 .. sent - 1 + damage
            /\ frame.len \in Nat /\ frame.tail \in Nat
      <3> SUFFICES ASSUME NEW frame \in air
                   PROVE  /\ frame.header.counter \in 0 .. sent - 1 + damage
                          /\ frame.len \in Nat /\ frame.tail \in Nat
        OBVIOUS
      <3>1. PICK number \in 0 .. sent - 1 : Stems(frame, number)
        BY DEF IInv, AllStem
      <3>2. QED
        BY <2>1, <3>1 DEF Stems
    <2>3. \A i \in DOMAIN accepted : accepted[i].counter \in 0 .. sent - 1
      <3>1. \A number \in Counters : Packet(number).counter = number
        BY DEF Packet
      <3>2. accepted \in Seq({Packet(number) : number \in Counters})
        BY DEF IInv, Took
      <3> DEFINE P == {Packet(number) : number \in Counters}
      <3>3. \A packet \in P : packet.counter \in Counters
        BY <3>1
      <3> HIDE DEF P
      <3>4. \A i \in DOMAIN accepted : accepted[i] \in P
        BY <3>2 DEF P
      <3>5. QED
        BY <3>3, <3>4 DEF Counters
    <2>4. QED
      BY <2>2, <2>3 DEF IInv, Types, TypeOK, Counters
  <1>2. QED
    BY <1>1, ReceiverInvariant, PTL

\* However often and in whatever order the radio delivers, the counters that are
\* accepted strictly increase, for every window.
THEOREM NeverTwiceNorBack == Spec => []AcceptedInOrder
  <1>1. IInv => AcceptedInOrder
    BY DEF IInv
  <1>2. QED
    BY <1>1, ReceiverInvariant, PTL

\* However often the radio damages a frame, what is accepted is what was sent.
THEOREM OnlyWhatWasSent == Spec => []AcceptedAsSent
  <1>1. IInv => AcceptedAsSent
    <2> SUFFICES ASSUME IInv, NEW i \in DOMAIN accepted
                 PROVE  accepted[i] = Packet(accepted[i].counter)
      BY DEF AcceptedAsSent
    <2> DEFINE P == {Packet(number) : number \in Counters}
    <2>1. accepted \in Seq(P)
      BY DEF IInv, Took
    <2>2. \A number \in Counters : Packet(number).counter = number
      BY DEF Packet
    <2>3. \A packet \in P : packet = Packet(packet.counter)
      BY <2>2
    <2> HIDE DEF P
    <2>4. QED
      BY <2>1, <2>3
  <1>2. QED
    BY <1>1, ReceiverInvariant, PTL

\* What arrives whole opens to what was sealed, and the ends agree on every limit.
THEOREM IntactAlwaysOpens == Spec => []IntactOpens
  <1>1. IInv => IntactOpens
    <2> SUFFICES ASSUME IInv PROVE IntactOpens
      OBVIOUS
    <2>1. ASSUME NEW frame \in air, frame = Sealed(frame.header.counter)
          PROVE  /\ OpensAs(frame) = "Ok"
                 /\ OpenedPacket(frame) = Packet(frame.header.counter)
      <3> DEFINE c == frame.header.counter
      <3>1. PICK number \in Counters : Sealable(number) /\ Stems(frame, number)
        BY DEF IInv, AllStem, Counters
      <3>2. c \in Nat /\ number \in Nat /\ suite \in Suites /\ body \in Bodies
        BY <3>1, ReceiverAssumption DEF IInv, Types, Counters, Stems, WireHeader
      <3> HIDE DEF c
      <3>3. frame.header = HeaderOf(Packet(c))
        BY <2>1, <3>2, SealedFields DEF c
      <3>4. c = 0 <=> number = 0
        BY <3>1, <3>2, <3>3, SealedFields DEF Stems
      <3>5. Packet(c).payload = Packet(number).payload /\ Packet(c).kind = Packet(number).kind
            /\ Packet(c).mac_len = Packet(number).mac_len
        BY <3>4 DEF Packet
      <3>6. Sealable(c)
        BY <3>1, <3>5 DEF Sealable, SealError, SerializeError
      <3>7. QED
        BY <2>1, <3>2, <3>6, WholeOpens DEF c
    <2>2. QED
      BY <2>1 DEF IInv, NeverRefused, IntactOpens
  <1>2. QED
    BY <1>1, ReceiverInvariant, PTL

\* parse_framed and open_framed refuse the same frames, authenticity apart: any
\* frame at all, not only one of this radio.
THEOREM ParsersAgree == Spec => []ParseAgrees
  <1>1. ParseAgrees
    BY DEF ParseAgrees, ParseError, SplitError, TooShort
  <1>2. QED
    BY <1>1, PTL

\* Noise leaves a tag alone or takes it away.
LEMMA DamagedTags ==
    ASSUME NEW number, NEW frame, Stems(frame, number), NEW form \in DamagedForms(frame)
    PROVE  form.tag \in {frame.tag, NoTag}
  BY DEF Stems, DamagedForms

\* Past the window there is no way back, for every window and however many packets
\* follow: this is the counter being the only thing the receiver goes by.
THEOREM LockedOutStays == Spec => LockedOutForGood
  <1>1. IInv /\ [Next]_vars => (LockedOut => LockedOut' /\ accepted' = accepted)
    <2> SUFFICES ASSUME IInv, [Next]_vars, LockedOut
                 PROVE  LockedOut' /\ accepted' = accepted
      OBVIOUS
    <2> DEFINE Window == last + 1 .. last + JumpWindow
    <2>1. /\ last \in Nat /\ sent \in Nat /\ JumpWindow \in Nat /\ last # None
          /\ sent > last + JumpWindow /\ None \notin Window
          /\ suite \in Suites /\ body \in Bodies
      BY ReceiverAssumption DEF IInv, Types, Counters, LockedOut, None
    <2>2. \A frame \in air : frame.tag.nonce \notin Window
      BY DEF LockedOut
    <2>3. CASE Send
      <3>1. sent' = sent + 1 /\ last' = last /\ accepted' = accepted
        BY <2>3 DEF Send
      <3>2. air' \subseteq air \union {Sealed(sent)}
        BY <2>3 DEF Send
      <3>3. Sealed(sent).tag = Tag(sent, HeaderOf(Packet(sent)), Text(sent))
        BY <2>1, SealedFields
      <3>4. Sealed(sent).tag.nonce \in {sent, None}
        BY <3>3 DEF Tag, NoTag
      <3>5. Sealed(sent).tag.nonce \notin Window
        BY <2>1, <3>4
      <3>6. QED
        BY <2>1, <2>2, <3>1, <3>2, <3>5 DEF LockedOut
    <2>4. CASE Receive
      <3>1. PICK frame \in air : Arrive(frame)
        BY <2>4 DEF Receive
      <3>2. verdict' # "Ok"
        BY <2>1, <2>2, <3>1, ArriveVerdict
      <3>3. UNCHANGED <<sent, last, accepted>> /\ air' \subseteq air
        BY <3>1, <3>2 DEF Arrive
      <3>4. QED
        BY <2>1, <2>2, <3>3 DEF LockedOut
    <2>5. CASE Lose \/ UNCHANGED vars
      <3>1. UNCHANGED <<sent, last, accepted>> /\ air' \subseteq air
        BY <2>5 DEF Lose, vars
      <3>2. QED
        BY <2>1, <2>2, <3>1 DEF LockedOut
    <2>6. CASE Damage
      <3>1. PICK frame \in air : \E form \in DamagedForms(frame) : air' \subseteq air \union {form}
        BY <2>6 DEF Damage
      <3>2. PICK form \in DamagedForms(frame) : air' \subseteq air \union {form}
        BY <3>1
      <3>3. PICK number \in 0 .. sent - 1 : Stems(frame, number)
        BY <3>1 DEF IInv, AllStem
      <3>4. form.tag \in {frame.tag, NoTag}
        BY <3>3, DamagedTags
      <3>5. form.tag.nonce \notin Window
        BY <2>1, <2>2, <3>1, <3>4 DEF NoTag
      <3>6. UNCHANGED <<sent, last, accepted>>
        BY <2>6 DEF Damage
      <3>7. QED
        BY <2>1, <2>2, <3>2, <3>5, <3>6 DEF LockedOut
    <2>7. QED
      BY <2>3, <2>4, <2>5, <2>6 DEF Next
  <1>2. QED
    BY <1>1, ReceiverInvariant, PTL DEF Spec, LockedOutForGood
=============================================================================
