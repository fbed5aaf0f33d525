------------------------------ MODULE Receiver ------------------------------
(***************************************************************************)
(* The two ends of one session as proto/tests/flow_basic.rs puts them      *)
(* together.  The sender takes counters, builds packets and seals them.    *)
(* The receiver opens what arrives, validates it, and keeps the counter of *)
(* the last packet it accepted: it compares the handshake with nothing,    *)
(* and what follows with the session and the last counter.                 *)
(*                                                                         *)
(* The radio between them may lose, duplicate, reorder and damage frames.  *)
(***************************************************************************)
EXTENDS Integers, Sequences

CONSTANTS
    JumpWindow, MaxPayload, HandshakeLimit,   \* of Framing
    Suites,      \* the configured security: an AEAD and the length of its tag
    SessionId,   \* the session
    Bodies,      \* what the packets after the handshake may carry: see Body
    MaxSent,     \* bound: packets built
    MaxDamage    \* bound: frames damaged

VARIABLES
    suite,     \* the SecurityConfig of both ends, in this run
    body,      \* what the packets after the handshake carry in this run
    sent,      \* the packets built so far; their counters are 0, 1, 2, ...
    air,       \* the frames that may still arrive
    damage,    \* the frames damaged so far
    last,      \* the counter of the last packet accepted, or None
    verdict,   \* what open_framed or validate_packet said last
    accepted   \* history: the packets accepted, in order

vars == <<suite, body, sent, air, damage, last, verdict, accepted>>

INSTANCE Framing WITH Cipher <- suite.cipher, MacLen <- suite.mac_len

Suite == [cipher : {"real", "dummy"}, mac_len : Nat]

\* A kind with a payload of that kind; payloads of two kinds have a size.
Body ==
    {carried \in [kind : Kind, type : PayloadType, size : Nat] :
        /\ carried.kind = "Handshake" <=> carried.type \in {"HandshakeInit", "HandshakeAccept"}
        /\ carried.kind # "Handshake" => carried.type = carried.kind
        /\ carried.kind \notin {"Control", "KeyReport"} => carried.size = 0}

ASSUME ReceiverAssumption ==
    /\ JumpWindow \in Nat \ {0} /\ MaxPayload \in Nat
    /\ HandshakeLimit \in Nat /\ HandshakeLimit > 4
    /\ Suites \subseteq Suite /\ SessionId \in Nat
    /\ Bodies \subseteq Body
    /\ MaxSent \in Nat /\ MaxDamage \in Nat

Handshake == [kind |-> "Handshake", type |-> "HandshakeInit", size |-> 0]

Packet(number) ==
    LET carried == IF number = 0 THEN Handshake ELSE body
        payload == [type |-> carried.type, size |-> carried.size, data |-> "sent"]
    IN  [session_id |-> SessionId, counter |-> number, kind |-> carried.kind,
         flags |-> IF number = 0 THEN {"needs_ack"} ELSE {"encrypted", "needs_ack"},
         payload |-> payload, payload_len |-> PayloadLen(payload), mac_len |-> suite.mac_len]

\* The salt is the session's, so a nonce is told by its counter.
Sealed(number) == SealFramed(Packet(number), number)

OpensAs(frame) == OpenError(frame, frame.header.counter)

\* The session a receiver expects: none before it has accepted a packet.
Expected == IF last = None THEN None ELSE SessionId

\* What may become of a frame: one field or one length is changed, or the frame
\* is shortened together with its length field.
DamagedForms(frame) ==
    LET Lengths == {[frame EXCEPT !.len = @ + 1],
                    [frame EXCEPT !.tail = @ - 1],
                    [frame EXCEPT !.tail = 0],
                    [frame EXCEPT !.len = @ - 1, !.tail = @ - 1]}
    IN  {[frame EXCEPT !.header.session_id = @ + 1],
         [frame EXCEPT !.header.counter = @ + 1],
         [frame EXCEPT !.header.flags = @ \union {"retransmit"}],
         [frame EXCEPT !.header.flags = @ \union {"reserved"}],
         [frame EXCEPT !.text.data = Damaged],
         [frame EXCEPT !.tag = NoTag]}
        \union {[frame EXCEPT !.header.kind = kind] : kind \in Kind \union {"unknown"}}
        \union {form \in Lengths : form.len >= 0 /\ form.tail >= 0}

-----------------------------------------------------------------------------

Init ==
    /\ suite \in Suites /\ body \in Bodies
    /\ sent = 0 /\ air = {} /\ damage = 0
    /\ last = None /\ verdict = "Ok" /\ accepted = <<>>

\* A counter is taken whether or not the packet can be sealed.
Send ==
    /\ sent < MaxSent
    /\ sent' = sent + 1
    /\ air' = IF SealError(Packet(sent)) = "Ok"
              THEN air \union {Sealed(sent)} ELSE air
    /\ UNCHANGED <<suite, body, damage, last, verdict, accepted>>

\* Mutant of Arrive: keeps the counter it expects next.
ArriveAhead(frame) ==
    /\ verdict' = IF OpensAs(frame) # "Ok" THEN OpensAs(frame)
                  ELSE Validate(OpenedPacket(frame), Expected, last)
    /\ IF verdict' = "Ok"
       THEN /\ last' = frame.header.counter + 1
            /\ accepted' = Append(accepted, OpenedPacket(frame))
       ELSE UNCHANGED <<last, accepted>>
    /\ air' \in {air, air \ {frame}}
    /\ UNCHANGED <<suite, body, sent, damage>>

\* A frame arrives; a copy of it may stay behind.
Arrive(frame) ==
    /\ verdict' = IF OpensAs(frame) # "Ok" THEN OpensAs(frame)
                  ELSE Validate(OpenedPacket(frame), Expected, last)
    /\ IF verdict' = "Ok"
       THEN /\ last' = frame.header.counter
            /\ accepted' = Append(accepted, OpenedPacket(frame))
       ELSE UNCHANGED <<last, accepted>>
    /\ air' \in {air, air \ {frame}}
    /\ UNCHANGED <<suite, body, sent, damage>>

Receive == \E frame \in air : Arrive(frame)

Lose ==
    /\ \E frame \in air : air' = air \ {frame}
    /\ UNCHANGED <<suite, body, sent, damage, last, verdict, accepted>>

\* The damaged frame may arrive besides a good copy.
Damage ==
    /\ damage < MaxDamage
    /\ damage' = damage + 1
    /\ \E frame \in air : \E form \in DamagedForms(frame) :
          air' \in {air \union {form}, (air \ {frame}) \union {form}}
    /\ UNCHANGED <<suite, body, sent, last, verdict, accepted>>

Next == Send \/ Receive \/ Lose \/ Damage

Spec == Init /\ [][Next]_vars

-----------------------------------------------------------------------------
(* Properties.                                                             *)

Verdicts ==
    {"Ok", "UnexpectedLength", "UnknownKind", "MacLengthMismatch", "AuthFailed",
     "MissingMac", "SessionMismatch", "ReplayDetected", "CounterJump",
     "PayloadTooLarge"}

TypeOK ==
    /\ suite \in Suites
    /\ body \in Bodies
    /\ sent \in 0 .. MaxSent
    /\ \A frame \in air :
          /\ frame.header.counter \in 0 .. sent - 1 + damage
          /\ frame.len \in Nat /\ frame.tail \in Nat
    /\ damage \in 0 .. MaxDamage
    /\ last \in {None} \union 0 .. sent - 1
    /\ verdict \in Verdicts
    /\ \A i \in DOMAIN accepted : accepted[i].counter \in 0 .. sent - 1

\* Whatever the radio duplicates and reorders, the counters that are accepted
\* strictly increase: no packet is taken twice, and none after a later one
\* (docs/protocol.md, "Counters must not repeat; backward or large jumps are
\* rejected").
AcceptedInOrder ==
    /\ \A i, j \in DOMAIN accepted : i < j => accepted[i].counter < accepted[j].counter
    /\ accepted # <<>> => last = accepted[Len(accepted)].counter

\* What is accepted is what was sent, header and payload, whatever the radio
\* damages: every length and every field that the receiver acts upon is covered
\* by the tag, and without a tag nothing is accepted.
AcceptedAsSent == \A i \in DOMAIN accepted : accepted[i] = Packet(accepted[i].counter)

\* A frame that seal_framed agreed to build and that arrives undamaged opens to
\* the packet that was sealed, and what opens is never refused for its session or
\* its size, nor for its MAC unless both ends were told to do without: before the
\* session is established or after, the two ends agree on every limit.
IntactOpens ==
    /\ \A frame \in air :
        frame = Sealed(frame.header.counter) =>
            /\ OpensAs(frame) = "Ok"
            /\ OpenedPacket(frame) = Packet(frame.header.counter)
    /\ verdict \notin {"SessionMismatch", "PayloadTooLarge"}
    /\ verdict = "MissingMac" => suite.mac_len = 0

\* parse_framed and open_framed, which check a frame in different orders, refuse
\* the same frames, but for those that are not authentic.
ParseAgrees ==
    \A frame \in air :
        ParseError(frame) = "Ok" <=>
            /\ SplitError(frame) = "Ok"
            /\ DecodedType(frame.header.kind, frame.len) # "None"

\* The sender is past the window, and the packets in the window are gone, damaged
\* frames of them included: noise may undo what noise has done.
LockedOut ==
    /\ last # None
    /\ sent > last + JumpWindow
    /\ \A frame \in air : frame.tag.nonce \notin last + 1 .. last + JumpWindow

\* A receiver that has lost as many packets in a row as the window is wide never
\* accepts a packet of the session again, however many the sender sends.
LockedOutForGood == [][LockedOut => LockedOut' /\ accepted' = accepted]_vars
=============================================================================
