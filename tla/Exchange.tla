------------------------------ MODULE Exchange ------------------------------
(***************************************************************************)
(* The exchange of one key report: a sender that takes a counter, seals    *)
(* the report, sends it and retransmits it once; a receiver that validates *)
(* what it can open and answers with an ack; and the mock radio between    *)
(* them, which carries both directions.  The repository writes this loop   *)
(* out three times, in proto/tests/mock_rf.rs (twice) and warm_wake_rf.rs; *)
(* a flow is one such loop.  Sender and receiver run in one thread and     *)
(* take turns on the radio.                                                *)
(***************************************************************************)
EXTENDS Integers, FiniteSets, Sequences

CONSTANTS
    Flows,        \* the flows: see Flow
    MaxRetransmit,\* MAX_RETRANSMIT_ATTEMPTS
    SessionId,    \* the session both sides expect
    Salt,         \* its salt
    Threshold, CounterMod,                            \* of SessionKeys
    TimeMax, OverflowChecks,                          \* of MockRf
    JumpWindow, MacLen, MaxPayload, HandshakeLimit    \* of Validation

Keys == INSTANCE SessionKeys

Rf == INSTANCE MockRf

V == INSTANCE Validation

\* How the three loops differ: the radio; the counter resumed from; the time
\* that passes after the first transmission, and after a retransmission or an
\* answer; whether a keep-alive follows the ack; whether the ack of the first
\* attempt is withheld; whether the ack ends the draining of the radio.
Flow ==
    [radio : Rf!Config, resume : Keys!Counter, first_step : Rf!Time, step : Rf!Time,
     keepalive : BOOLEAN, mute_first : BOOLEAN, ack_breaks : BOOLEAN]

\* The two counters after the report's, for which the sender is not asked, lie
\* inside the counter's type; what the loops send has a MAC and fits; the first wait
\* of a loop is its shortest, and no loop runs into the end of the clock.
ASSUME ExchangeAssumption ==
    /\ MaxRetransmit \in Nat
    /\ SessionId \in Nat
    /\ Threshold \in Nat /\ CounterMod \in Nat /\ 1 < Threshold /\ Threshold + 1 < CounterMod
    /\ TimeMax \in Nat /\ OverflowChecks \in BOOLEAN
    /\ JumpWindow \in Nat \ {0} /\ MacLen \in Nat \ {0} /\ MaxPayload \in Nat \ {0}
    /\ \A loop \in Flows :
          /\ loop \in Flow
          /\ loop.resume < Threshold
          /\ loop.first_step <= loop.step
          /\ 2 * (MaxRetransmit + 1) * loop.step + loop.radio.jitter_ms <= TimeMax

VARIABLES
    flow,      \* which loop runs
    keys,      \* the sender's SessionKeys
    rf,        \* the radio
    pc,        \* "start", "send", "drain", "done", "failed" or "panicked"
    attempt,   \* retransmissions so far
    counter,   \* the counter of the report
    acked,     \* the sender has its ack
    accepted,  \* history: how often the receiver accepted the report
    sealed     \* history: the packets sealed

vars == <<flow, keys, rf, pc, attempt, counter, acked, accepted, sealed>>

-----------------------------------------------------------------------------
(* Packets.  Sealing stands for itself: a frame carries its packet and the *)
(* nonce, and opens under that nonce only.                                 *)

Packet(kind, number, flags, payload_len, ack_counter) ==
    [session_id |-> SessionId, counter |-> number, kind |-> kind, flags |-> flags,
     payload_len |-> payload_len, mac_len |-> MacLen, ack_counter |-> ack_counter]

\* Mutant of KeyReport: a retransmission says in its flags that it is one.
KeyReportMarked(number) ==
    Packet("KeyReport", number,
           {"encrypted", "needs_ack"} \union IF attempt > 0 THEN {"retransmit"} ELSE {},
           1, V!None)

KeyReport(number) == Packet("KeyReport", number, {"encrypted", "needs_ack"}, 1, V!None)

Ack(number, ack_counter) == Packet("Ack", number, {"encrypted"}, 4, ack_counter)

KeepAlive(number) == Packet("KeepAlive", number, {"encrypted"}, 0, V!None)

Seal(packet) ==
    [packet |-> packet, nonce |-> Keys!NonceFor(keys, packet.counter)]

Opens(frame, number) == frame.nonce = Keys!NonceFor(keys, number)

\* The frames that answer a report, in the order they are pushed.
Answer(report) ==
    LET ack == Ack(counter + 1, report.counter)
    IN  IF flow.mute_first /\ attempt = 0 THEN <<>>
        ELSE IF flow.keepalive THEN <<ack, KeepAlive(ack.counter + 1)>>
        ELSE <<ack>>

\* Pushing a list of packets of up to two.
PushAll(radio, packets) ==
    LET one == IF packets = <<>> THEN radio ELSE Rf!Push(radio, Seal(Head(packets)))
    IN  IF Len(packets) < 2 THEN one ELSE Rf!Push(one, Seal(packets[2]))

-----------------------------------------------------------------------------

Init ==
    /\ flow \in Flows
    /\ keys = Keys!Resumed(Keys!New(Salt), flow.resume)
    /\ rf = Rf!New(flow.radio)
    /\ pc = "start"
    /\ attempt = 0 /\ counter = 0 /\ acked = FALSE
    /\ accepted = 0 /\ sealed = {}

TakeCounter ==
    /\ pc = "start"
    /\ counter' = keys.counter
    /\ keys' = Keys!Incremented(keys)
    /\ pc' = "send"
    /\ UNCHANGED <<flow, rf, attempt, acked, accepted, sealed>>

\* Mutants of Pace: the retransmission backs off; it waits no longer than the first.
PaceBacksOff == IF attempt = 0 THEN flow.first_step ELSE 4 * flow.step

PaceFirst == flow.first_step

Pace == IF attempt = 0 THEN flow.first_step ELSE flow.step

\* The first transmission and the retransmission push the same frame.
Transmit ==
    /\ pc = "send"
    /\ rf' = Rf!Advance(Rf!Push(rf, Seal(KeyReport(counter))), Pace)
    /\ sealed' = sealed \union {KeyReport(counter)}
    /\ pc' = "drain"
    /\ UNCHANGED <<flow, keys, attempt, counter, acked, accepted>>

\* A frame that comes off the radio while it is drained.
Incoming(frame) ==
    /\ pc = "drain"
    /\ ~ (acked /\ flow.ack_breaks)
    /\ Rf!Deliverable(rf) # {}
    /\ frame = Rf!Popped(rf)

\* The last counter the receiver claims to have seen.
LastSeen == counter - 1

\* The receiver's side: whatever opens as the report is validated against the
\* counter before it, and a failure is fatal; else it is answered.
ReceiveReport ==
    LET frame == Rf!Popped(rf)
        answer == Answer(frame.packet)
    IN  /\ Incoming(frame)
        /\ Opens(frame, counter)
        /\ IF V!Validate(frame.packet, SessionId, LastSeen) = "Ok"
           THEN /\ rf' = Rf!Advance(PushAll(Rf!Pop(rf), answer), flow.step)
                /\ sealed' = sealed \union {answer[i] : i \in DOMAIN answer}
                /\ accepted' = accepted + 1
                /\ pc' = pc
           ELSE /\ rf' = Rf!Pop(rf)
                /\ pc' = "panicked"
                /\ UNCHANGED <<accepted, sealed>>
        /\ UNCHANGED <<flow, keys, attempt, counter, acked>>

IsAck(frame) ==
    /\ Opens(frame, counter + 1)
    /\ frame.packet.kind = "Ack"
    /\ frame.packet.ack_counter = counter

\* The sender's side.
ReceiveAck ==
    LET frame == Rf!Popped(rf)
    IN  /\ Incoming(frame)
        /\ ~ Opens(frame, counter)
        /\ IsAck(frame)
        /\ rf' = Rf!Pop(rf)
        /\ acked' = TRUE
        /\ UNCHANGED <<flow, keys, pc, attempt, counter, accepted, sealed>>

\* Whatever opens as neither is thrown away.
IgnoreFrame ==
    LET frame == Rf!Popped(rf)
    IN  /\ Incoming(frame)
        /\ ~ Opens(frame, counter)
        /\ ~ IsAck(frame)
        /\ rf' = Rf!Pop(rf)
        /\ UNCHANGED <<flow, keys, pc, attempt, counter, acked, accepted, sealed>>

\* Draining ends with the ack, or when pop returns None.
Drained ==
    /\ pc = "drain"
    /\ (acked /\ flow.ack_breaks) \/ Rf!Deliverable(rf) = {}

\* Mutant of Succeed: the drained radio is taken for an ack.
SucceedAnyway ==
    /\ Drained
    /\ pc' = "done"
    /\ UNCHANGED <<flow, keys, rf, attempt, counter, acked, accepted, sealed>>

Succeed ==
    /\ Drained
    /\ acked
    /\ pc' = "done"
    /\ UNCHANGED <<flow, keys, rf, attempt, counter, acked, accepted, sealed>>

\* Mutant of MayRetry: one retransmission more.
MayRetryMore == attempt <= MaxRetransmit

MayRetry == attempt < MaxRetransmit

Retry ==
    /\ Drained
    /\ ~ acked
    /\ MayRetry
    /\ attempt' = attempt + 1
    /\ pc' = "send"
    /\ UNCHANGED <<flow, keys, rf, counter, acked, accepted, sealed>>

GiveUp ==
    /\ Drained
    /\ ~ acked
    /\ ~ MayRetry
    /\ pc' = "failed"
    /\ UNCHANGED <<flow, keys, rf, attempt, counter, acked, accepted, sealed>>

Next ==
    \/ TakeCounter
    \/ Transmit
    \/ ReceiveReport
    \/ ReceiveAck
    \/ IgnoreFrame
    \/ Succeed
    \/ Retry
    \/ GiveUp

\* One thread runs the loop and waits for nothing.
Spec == Init /\ [][Next]_vars /\ WF_vars(Next)

-----------------------------------------------------------------------------
(* Properties.                                                             *)

Frame == [packet : sealed, nonce : {Salt} \X Keys!Counter]

TypeOK ==
    /\ flow \in Flows
    /\ keys \in [salt : {Salt}, counter : Keys!Counter]
    /\ rf.config = flow.radio /\ rf.now_ms \in Rf!Time
    /\ \A i \in DOMAIN rf.queue :
          rf.queue[i].deliver_at \in Rf!Time /\ rf.queue[i].frame \in Frame
    /\ pc \in {"start", "send", "drain", "done", "failed", "panicked"}
    /\ attempt \in 0 .. MaxRetransmit
    /\ counter \in Keys!Counter
    /\ acked \in BOOLEAN
    /\ accepted \in 0 .. MaxRetransmit + 1

\* The exchange keeps what DeliveryPromise promises: acked only after the
\* receiver accepted the report, accepted at most once for every transmission
\* (late copies that a retransmission crosses with included), nothing accepted
\* after the outcome is known, and an outcome always reached.  That the receiver's
\* expect fires, on a late or repeated frame that validation rejects, is no outcome
\* of the promise.
Promise ==
    INSTANCE DeliveryPromise
      WITH Copies <- MaxRetransmit + 1,
           deliveries <- accepted,
           outcome <- IF pc = "done" THEN "acked"
                      ELSE IF pc \in {"failed", "panicked"} THEN pc
                      ELSE "open"

ImplementsPromise == Promise!Spec

\* The loop waits long enough for jitter to pass before it drains, as the three
\* loops of the tests do once they have retransmitted.
Paced == flow.radio.jitter_ms <= flow.step

\* A loop that is paced never gives up, whatever the radio drops or reorders, though it
\* retransmits only once: when it has, all that is on the radio is due before it drains,
\* and the report or its ack is.  With the outcome of the promise, which is always
\* reached, it gets its ack: the assertion at the end of each test.
NeverFails == Paced => pc # "failed"

\* The latency of an exchange is bounded: by one step for every transmission
\* and one for every copy that is accepted, as the single retry without backoff
\* is meant to (lib.rs, MAX_RETRANSMIT_ATTEMPTS).  At the 2 ms of the tests that
\* is 8 ms, of the 10 that the latency budget allows.
LatencyBounded == rf.now_ms <= 2 * (MaxRetransmit + 1) * flow.step

\* Though a retransmission is sealed anew under the counter of the first
\* transmission, and every accepted copy is answered under counters taken by
\* hand: a nonce never seals two packets that differ, be it in a flag
\* (docs/protocol.md, "Counters must not repeat").
NonceBindsPacket ==
    \A one, other \in sealed : one.counter = other.counter => one = other
=============================================================================
