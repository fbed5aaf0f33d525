------------------------------- MODULE HostSim -------------------------------
(***************************************************************************)
(* The host simulator (host-sim/src/main.rs): it looks at the three        *)
(* sample packets of a session, seals them and sends them through the mock *)
(* radio, reports what the radio counted, wakes up warm in the same        *)
(* session and reports again.                                              *)
(*                                                                         *)
(* The metrics file is modelled, with writes that fail.  What the program  *)
(* prints is left out, but for the verdicts on the samples, and with it    *)
(* the panic of println! on a closed output.                               *)
(***************************************************************************)
EXTENDS Integers, Sequences, FiniteSets

CONSTANTS
    DefaultSalt,     \* 0xA5 * 16, of sample_packets and the warm wake
    OtherSalt,       \* another one given with --session-salt
    Jitters,         \* the values of --jitter-ms
    ResumeCounters,  \* the values of --resume-counter
    Threshold, CounterMod,     \* of SessionKeys
    TimeMax, OverflowChecks,   \* of MockRf
    JumpWindow, MacLen, MaxPayload, HandshakeLimit   \* of Framing

\* Where the program may panic: the expects on sealing, the sum in push, the expect
\* on next_counter, the expects on writing the file.
Panics == {"frame_panic", "push_panic", "counter_panic", "write_panic"}

Keys == INSTANCE SessionKeys

Rf == INSTANCE MockRf

VARIABLES
    args,          \* the command line
    pc,            \* "validate", "frame", "pop", "report", "wake", "rereport", "done" or a panic
    at,            \* the packet that is looked at
    last_counter,  \* of the packet validated last, or None
    rf,            \* the mock radio; not used without --mock-rf
    delivered,     \* delivered_frames
    csv,           \* the columns of the metrics this run has in the file, {} while there are none
    sealed,        \* history: the nonces of the packets sealed
    warm           \* history: the nonces of the packet after the warm wake

vars == <<args, pc, at, last_counter, rf, delivered, csv, sealed, warm>>

F == INSTANCE Framing WITH Cipher <- IF args.real_aead THEN "real" ELSE "dummy"

None == F!None

\* --drop-first and --reorder default to true, and a flag cannot turn them off.
Args ==
    [session_salt : {DefaultSalt, OtherSalt}, mock_rf : BOOLEAN, jitter_ms : Jitters,
     real_aead : BOOLEAN, drop_first : {TRUE}, reorder : {TRUE},
     resume_counter : {None} \union ResumeCounters, metrics_csv : BOOLEAN]

\* A session can give more than the samples take, and what is sealed fits demo_config
\* and has the MAC that it and either AEAD agree on.
ASSUME HostSimAssumption ==
    /\ DefaultSalt # OtherSalt
    /\ Jitters \subseteq Rf!Time
    /\ ResumeCounters \subseteq Keys!Counter
    /\ Threshold \in Nat /\ CounterMod \in Nat /\ 3 < Threshold /\ Threshold < CounterMod
    /\ TimeMax \in Nat /\ OverflowChecks \in BOOLEAN
    /\ JumpWindow \in Nat \ {0} /\ HandshakeLimit \in Nat
    /\ MaxPayload \in Nat /\ 4 <= MaxPayload /\ MacLen = 16

-----------------------------------------------------------------------------
(* The packets of sample_packets.                                          *)

SampleCounter(i) ==
    LET session == Keys!New(DefaultSalt)
    IN  CASE i = 1 -> Keys!HandshakeCounter
          [] i = 2 -> session.counter
          [] i = 3 -> Keys!Incremented(session).counter

Samples == 1 .. 3

SessionId == 1

\* A handshake, a key report and its ack, with a MAC of the configured length.
Sample(i) ==
    LET payload == [type |-> <<"HandshakeInit", "KeyReport", "Ack">>[i],
                    size |-> IF i = 2 THEN 1 ELSE 0]
    IN  [session_id |-> SessionId, counter |-> SampleCounter(i),
         kind |-> <<"Handshake", "KeyReport", "Ack">>[i],
         payload |-> payload, payload_len |-> F!PayloadLen(payload), mac_len |-> MacLen]

-----------------------------------------------------------------------------

Init ==
    /\ args \in Args
    /\ pc = "validate" /\ at = 1
    /\ last_counter = None
    /\ rf = Rf!New([drop_first |-> args.drop_first, reorder |-> args.reorder,
                    jitter_ms |-> args.jitter_ms])
    /\ delivered = <<>> /\ csv = {}
    /\ sealed = {} /\ warm = {}

\* The loop goes on with the next packet, or the program with what follows.
NextPacket(after) ==
    IF at < 3 THEN at' = at + 1 /\ pc' = pc ELSE at' = 1 /\ pc' = after

\* What is printed of a sample: its own session is the one expected.
Verdict(i) == F!Validate(Sample(i), SessionId, last_counter)

\* The counter is kept whatever the verdict.
ValidateSample ==
    /\ pc = "validate"
    /\ last_counter' = SampleCounter(at)
    /\ NextPacket("frame")
    /\ UNCHANGED <<args, rf, delivered, csv, sealed, warm>>

Sealed == Keys!DeriveNonce(args.session_salt, SampleCounter(at))

\* The expects on serialize_framed and seal_framed.
FramingPanics == F!SealError(Sample(at)) # "Ok"

\* Without a radio a packet is sealed and printed only.
FrameOnly ==
    /\ pc = "frame" /\ ~ args.mock_rf
    /\ IF FramingPanics
       THEN pc' = "frame_panic" /\ UNCHANGED <<at, sealed>>
       ELSE sealed' = sealed \union {Sealed} /\ NextPacket("wake")
    /\ UNCHANGED <<args, last_counter, rf, delivered, csv, warm>>

FrameAndPush ==
    /\ pc = "frame" /\ args.mock_rf
    /\ sealed' = IF FramingPanics THEN sealed ELSE sealed \union {Sealed}
    /\ IF FramingPanics THEN rf' = rf /\ pc' = "frame_panic"
       ELSE IF Rf!PushPanics(rf) THEN rf' = rf /\ pc' = "push_panic"
       ELSE rf' = Rf!Advance(Rf!Push(rf, Sealed), 2) /\ pc' = "pop"
    /\ UNCHANGED <<args, at, last_counter, delivered, csv, warm>>

PopDelivered ==
    /\ pc = "pop" /\ Rf!Deliverable(rf) # {}
    /\ rf' = Rf!Pop(rf)
    /\ delivered' = Append(delivered, Rf!Popped(rf))
    /\ UNCHANGED <<args, pc, at, last_counter, csv, sealed, warm>>

PopNone ==
    /\ pc = "pop" /\ Rf!Deliverable(rf) = {}
    /\ IF at < 3 THEN at' = at + 1 /\ pc' = "frame" ELSE at' = 1 /\ pc' = "report"
    /\ UNCHANGED <<args, last_counter, rf, delivered, csv, sealed, warm>>

Columns == {"delivered", "dropped", "latency_ms", "jitter_ms", "drop_first",
            "reorder", "mock_rf", "real_aead"}

Attempts == Len(delivered) + rf.dropped

\* std::fs::write empties the file and then fills it.  When it fails, the file cannot
\* be opened and is as it was, or is left without a whole row.
Written(columns, after) ==
    \/ ~ args.metrics_csv /\ csv' = csv /\ pc' = after
    \/ args.metrics_csv /\ csv' = columns /\ pc' = after
    \/ args.metrics_csv /\ csv' \in {csv, {}} /\ pc' = "write_panic"

Report ==
    /\ pc = "report"
    /\ Written(Columns \union {"attempts"}, "wake")
    /\ UNCHANGED <<args, at, last_counter, rf, delivered, sealed, warm>>

\* Mutant of WarmKeys: a warm wake that begins anew.
WarmKeysAnew == Keys!New(DefaultSalt)

\* The session after the warm wake: the counter asked for, or the next one.
WarmKeys ==
    Keys!Resumed(Keys!New(DefaultSalt),
                 IF args.resume_counter # None THEN args.resume_counter
                 ELSE last_counter + 1)

\* The expect on next_counter fires for a counter at the threshold.
WarmWake ==
    /\ pc = "wake"
    /\ IF Keys!Exhausted(WarmKeys)
       THEN pc' = "counter_panic" /\ UNCHANGED warm
       ELSE /\ pc' = IF args.mock_rf THEN "rereport" ELSE "done"
            /\ warm' = {Keys!NonceFor(WarmKeys, WarmKeys.counter)}
    /\ UNCHANGED <<args, at, last_counter, rf, delivered, csv, sealed>>

\* The file is written again, without the attempts.
ReportAgain ==
    /\ pc = "rereport"
    /\ Written(Columns, "done")
    /\ UNCHANGED <<args, at, last_counter, rf, delivered, sealed, warm>>

Next ==
    \/ ValidateSample
    \/ FrameOnly
    \/ FrameAndPush
    \/ PopDelivered
    \/ PopNone
    \/ Report
    \/ WarmWake
    \/ ReportAgain

Spec == Init /\ [][Next]_vars

-----------------------------------------------------------------------------
(* Properties.                                                             *)

TypeOK ==
    /\ args \in Args
    /\ pc \in {"validate", "frame", "pop", "report", "wake", "rereport", "done"} \union Panics
    /\ at \in Samples
    /\ last_counter \in {None} \union Keys!Counter
    /\ rf.now_ms \in Rf!Time /\ Len(rf.queue) <= 2
    /\ Len(delivered) <= 2
    /\ csv \in SUBSET (Columns \union {"attempts"})
    /\ sealed \subseteq {DefaultSalt, OtherSalt} \X Keys!Counter

\* The packet after a warm wake that goes on from the last counter seen has a
\* nonce under which nothing was sealed (main.rs, "default: next after last
\* seen").
WarmWakeFresh == args.resume_counter = None => warm \intersect sealed = {}

\* What the metrics report adds up: the attempts are the packets pushed, less those
\* that are still on the radio.  They are all of the samples if the jitter is no
\* longer than the 2 ms that pass after each push, and fall short of them if it is
\* longer, unless the sum of clock (4 at the last push) and jitter overflows.
AttemptsAccount ==
    args.mock_rf /\ pc \in {"report", "wake", "rereport", "done", "counter_panic", "write_panic"} =>
        /\ Attempts = Cardinality(Samples) - Len(rf.queue)
        /\ args.jitter_ms <= 2 => Attempts = Cardinality(Samples)
        /\ args.jitter_ms > 2 /\ args.jitter_ms + 4 <= TimeMax => Attempts < Cardinality(Samples)

\* The samples that show "the expected header/payload/MAC makeup" (lib.rs,
\* sample_packets) pass the checks of validate_packet, each after the one before it,
\* and those of sealing with either AEAD.  So the program panics for what it was told
\* on the command line only: a jitter that overflows the clock, a counter at the
\* threshold (the counter of a default wake never is), or a file that cannot be
\* written.
SamplesSound ==
    /\ pc = "validate" => Verdict(at) = "Ok"
    /\ pc # "frame_panic"
    /\ pc = "push_panic" => args.mock_rf /\ OverflowChecks /\ args.jitter_ms + 4 > TimeMax
    /\ pc = "counter_panic" => args.resume_counter >= Threshold
    /\ pc = "write_panic" => args.mock_rf /\ args.metrics_csv

\* The warm wake goes on in the session whose packets were sealed: its nonce has
\* the salt of theirs (docs/protocol.md, "Warm wake reuses the cached session").
WarmWakeSameSession == \A nonce \in warm : \A other \in sealed : nonce[1] = other[1]
=============================================================================
