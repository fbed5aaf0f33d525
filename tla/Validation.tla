----------------------------- MODULE Validation -----------------------------
(***************************************************************************)
(* The receiver's checks on a packet (proto/src/lib.rs, validate_packet),  *)
(* as operators.  Of a packet they see the length of its MAC, the session, *)
(* the counter, the kind and the length of the payload.                    *)
(***************************************************************************)
EXTENDS Integers

CONSTANTS
    JumpWindow,      \* the largest step of the counter that is accepted, 50
    MacLen,          \* cfg.security.mac_len, 16 in demo_config
    MaxPayload,      \* cfg.max_payload_bytes, 32 in demo_config
    HandshakeLimit   \* KEY_BYTES + NONCE_BYTES, 56

ASSUME ValidationAssumption ==
    /\ JumpWindow \in Nat \ {0}
    /\ MacLen \in Nat /\ MaxPayload \in Nat /\ HandshakeLimit \in Nat

Kind == {"Handshake", "Control", "KeyReport", "Ack", "KeepAlive"}

\* An Option that is None; sessions and counters are never negative.
None == -1

PayloadLimit(kind) == IF kind = "Handshake" THEN HandshakeLimit ELSE MaxPayload

MacMissing(packet) == packet.mac_len = 0 \/ packet.mac_len # MacLen

OtherSession(packet, expected) == expected # None /\ packet.session_id # expected

\* Mutant of Replays: never.
ReplaysNever(packet, last) == FALSE

Replays(packet, last) == last # None /\ packet.counter = last

\* Mutants of Jumps: only back, only ahead.
JumpsBack(packet, last) == last # None /\ packet.counter < last

JumpsAhead(packet, last) == last # None /\ packet.counter - last > JumpWindow

Jumps(packet, last) ==
    last # None /\ (packet.counter < last \/ packet.counter - last > JumpWindow)

\* Mutant of TooLarge: the same limit for handshakes.
TooLargeData(packet) == packet.payload_len > MaxPayload

TooLarge(packet) == packet.payload_len > PayloadLimit(packet.kind)

\* The first check that fails names the error.
Validate(packet, expected, last) ==
    IF MacMissing(packet) THEN "MissingMac"
    ELSE IF OtherSession(packet, expected) THEN "SessionMismatch"
    ELSE IF Replays(packet, last) THEN "ReplayDetected"
    ELSE IF Jumps(packet, last) THEN "CounterJump"
    ELSE IF TooLarge(packet) THEN "PayloadTooLarge"
    ELSE "Ok"
=============================================================================
