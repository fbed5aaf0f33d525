------------------------------ MODULE SessionLink ------------------------------
(***************************************************************************)
(* A keyboard and its receiver over many sessions: SessionLifecycle, every *)
(* step of it with what it means to the other end.  The receiver is that   *)
(* of proto/tests/flow_basic.rs and warm_wake.rs: it takes the session and *)
(* the counter 0 from the handshake, opens frames under its session's      *)
(* salt, validates them against the last counter it accepted, and keeps    *)
(* both while the keyboard sleeps, wakes and reboots.                      *)
(*                                                                         *)
(* The radio between them loses, copies and reorders frames, over the      *)
(* border of a session too.  Damage to a frame is Receiver's subject.      *)
(***************************************************************************)
EXTENDS SessionLifecycle, Validation, Sequences, FiniteSets

CONSTANT MaxAir   \* bound: the frames on their way

\* There are tags, and packets with a payload.
ASSUME LinkAssumption ==
    /\ MaxAir \in Nat /\ None \notin Salts
    /\ MacLen > 0 /\ MaxPayload > 0

VARIABLES
    air,       \* the frames that may still arrive, each told by its nonce
    expected,  \* the salt of the receiver's session, or None
    last,      \* the counter of the last packet it accepted, or None
    accepted   \* history: the nonces of the packets accepted, in order

linkVars == <<caller, power, keys, cache, issued, reissued, spent, air, expected, last, accepted>>

Frame(nonce) ==
    [session_id |-> nonce[1], counter |-> nonce[2], mac_len |-> MacLen, payload_len |-> 1,
     kind |-> IF nonce[2] = HandshakeCounter THEN "Handshake" ELSE "KeyReport"]

\* A frame opens under the nonce that the receiver derives from its own salt and
\* the counter of the header, if that is the nonce it was sealed under.
ReceiverSays(nonce) ==
    IF nonce # DeriveNonce(expected, nonce[2]) THEN "AuthFailed"
    ELSE Validate(Frame(nonce), expected, last)

-----------------------------------------------------------------------------

LinkInit ==
    /\ Init
    /\ air = {} /\ accepted = <<>>
    /\ expected = None /\ last = None

\* Mutant of Pair: the receiver keeps the last counter of the session before.
PairKeepsLast ==
    /\ Handshake
    /\ expected' = keys'.salt
    /\ accepted' = Append(accepted, NonceFor(keys', HandshakeCounter))
    /\ UNCHANGED <<air, last>>

\* Both ends take up the new session; frames of the old one may still arrive.
Pair ==
    /\ Handshake
    /\ expected' = keys'.salt
    /\ last' = HandshakeCounter
    /\ accepted' = Append(accepted, NonceFor(keys', HandshakeCounter))
    /\ UNCHANGED air

Send ==
    /\ Cardinality(air) < MaxAir
    /\ NextCounter
    /\ air' = air \union {NonceFor(keys, keys.counter)}
    /\ UNCHANGED <<expected, last, accepted>>

\* What the receiver does not notice.
KeyboardAlone ==
    /\ CounterExhausted \/ ResetCounter \/ Sleep \/ WarmWake \/ Reboot
    /\ UNCHANGED <<air, expected, last, accepted>>

Accept(nonce) ==
    /\ ReceiverSays(nonce) = "Ok"
    /\ last' = nonce[2]
    /\ accepted' = Append(accepted, nonce)
    /\ UNCHANGED expected

Refuse(nonce) ==
    /\ ReceiverSays(nonce) # "Ok"
    /\ UNCHANGED <<expected, last, accepted>>

\* A frame arrives; a copy of it may stay behind.
Arrive ==
    /\ \E nonce \in air :
        /\ Accept(nonce) \/ Refuse(nonce)
        /\ air' \in {air, air \ {nonce}}
    /\ UNCHANGED vars

Lose ==
    /\ \E nonce \in air : air' = air \ {nonce}
    /\ UNCHANGED <<vars, expected, last, accepted>>

LinkNext == Pair \/ Send \/ KeyboardAlone \/ Arrive \/ Lose

LinkSpec == LinkInit /\ [][LinkNext]_linkVars

-----------------------------------------------------------------------------
(* Properties.                                                             *)

LinkTypeOK ==
    /\ TypeOK
    /\ air \subseteq issued
    /\ expected \in {None} \union Salts
    /\ last \in {None} \union Counter
    /\ expected = None <=> last = None
    /\ \A i \in DOMAIN accepted : accepted[i] \in issued

\* Over handshakes, sleeps, warm wakes and reboots, whatever callers resume from
\* and reset, and whatever the radio repeats: the receiver takes no nonce twice,
\* takes the counters of a session in increasing order, and never goes back to
\* a session it has left (lib.rs, validate_packet; docs/protocol.md, "Counters
\* must not repeat").
AcceptedOnce ==
    \A i, j \in DOMAIN accepted :
        i < j /\ accepted[i][1] = accepted[j][1] =>
            /\ accepted[i][2] < accepted[j][2]
            /\ \A k \in i .. j : accepted[k][1] = accepted[i][1]

\* The packets that the receiver has missed: those after the last one it accepted.
Missed == {nonce \in issued : nonce[1] = expected /\ nonce[2] > last}

\* Sleeps and warm wakes cost nothing of the receiver's window: unless a window's
\* width of packets was lost, the next packet that the keyboard seals, awake or
\* after its wake, is accepted when it arrives.  Of callers that keep to the rules.
NextGetsThrough ==
    RulesKept /\ power # "off" /\ ~ Exhausted(Current) /\ Cardinality(Missed) < JumpWindow =>
        ReceiverSays(NonceFor(Current, Current.counter)) = "Ok"
=============================================================================
