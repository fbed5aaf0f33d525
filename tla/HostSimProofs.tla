---------------------------- MODULE HostSimProofs ----------------------------
(***************************************************************************)
(* Proofs about HostSim, for every jitter and every counter to resume      *)
(* from, every threshold, width and limit that the samples respect, and    *)
(* every clock, in builds with and without overflow checks.                *)
(***************************************************************************)
EXTENDS HostSim, FiniteSetTheorems, TLAPS

Radio == INSTANCE MockRfProofs

\* The frames are told by their nonces.
Nonces == {DefaultSalt, OtherSalt} \X Keys!Counter

\* What the assumptions say of the constants.
LEMMA Constants ==
    /\ DefaultSalt # OtherSalt
    /\ Threshold \in Nat /\ CounterMod \in Nat /\ 3 < Threshold /\ Threshold < CounterMod
    /\ TimeMax \in Nat /\ OverflowChecks \in BOOLEAN
    /\ JumpWindow \in Nat \ {0} /\ HandshakeLimit \in Nat
    /\ MaxPayload \in Nat /\ 4 <= MaxPayload /\ MacLen = 16
    /\ None = -1 /\ F!None = -1
  BY HostSimAssumption DEF None, F!None

\* What the mock radio assumes.
LEMMA Clock == TimeMax \in Nat /\ OverflowChecks \in BOOLEAN
  BY HostSimAssumption

\* The radio that the lemmas are about is the one that HostSim holds.
LEMMA SameRadio ==
    /\ Rf!Time = Radio!Time /\ Rf!Config = Radio!Config
    /\ \A config : Rf!New(config) = Radio!New(config)
    /\ \A radio : /\ Rf!Deliverable(radio) = Radio!Deliverable(radio)
                  /\ Rf!DropsNext(radio) = Radio!DropsNext(radio)
                  /\ Rf!Popped(radio) = Radio!Popped(radio)
                  /\ Rf!Pop(radio) = Radio!Pop(radio)
    /\ \A radio, frame : Rf!Push(radio, frame) = Radio!Push(radio, frame)
    /\ \A radio, delta : Rf!Advance(radio, delta) = Radio!Advance(radio, delta)
  <1>1. Rf!Time = Radio!Time /\ Rf!Config = Radio!Config
    BY DEF Rf!Time, Radio!Time, Rf!Config, Radio!Config
  <1>2. \A config : Rf!New(config) = Radio!New(config)
    BY DEF Rf!New, Radio!New
  <1>3. \A radio : Rf!Deliverable(radio) = Radio!Deliverable(radio)
    BY DEF Rf!Deliverable, Radio!Deliverable
  <1>4. \A radio : Rf!DropsNext(radio) = Radio!DropsNext(radio)
    BY DEF Rf!DropsNext, Radio!DropsNext
  <1>5. \A S : Rf!Min(S) = Radio!Min(S)
    BY DEF Rf!Min, Radio!Min
  <1>6. \A radio : Rf!Popped(radio) = Radio!Popped(radio)
    BY <1>3, <1>5 DEF Rf!Popped, Radio!Popped
  <1>7. \A radio : Rf!Pop(radio) = Radio!Pop(radio)
    BY <1>3, <1>5 DEF Rf!Pop, Radio!Pop, Rf!RemoveAt, Radio!RemoveAt
  <1>8. \A radio, frame : Rf!Push(radio, frame) = Radio!Push(radio, frame)
    BY DEF Rf!Push, Radio!Push, Rf!DropsNext, Radio!DropsNext, Rf!Enqueued, Radio!Enqueued,
           Rf!DeliverAt, Radio!DeliverAt, Rf!Front, Radio!Front, Rf!Last, Radio!Last
  <1>9. \A radio, delta : Rf!Advance(radio, delta) = Radio!Advance(radio, delta)
    BY DEF Rf!Advance, Radio!Advance
  <1>10. QED
    BY <1>1, <1>2, <1>3, <1>4, <1>6, <1>7, <1>8, <1>9

\* The samples are numbered from the handshake on.
LEMMA SampleCounters ==
    ASSUME NEW i \in Samples
    PROVE  SampleCounter(i) = i - 1 /\ SampleCounter(i) \in Keys!Counter
  <1>1. SampleCounter(1) = 0
    BY DEF SampleCounter, Keys!HandshakeCounter
  <1>2. SampleCounter(2) = 1
    BY DEF SampleCounter, Keys!New, Keys!FirstCounter
  <1>3. SampleCounter(3) = 2
    <2>1. SampleCounter(3) = (1 + 1) % CounterMod
      BY DEF SampleCounter, Keys!Incremented, Keys!New, Keys!FirstCounter
    <2>2. (1 + 1) % CounterMod = 2
      BY Constants
    <2>3. QED
      BY <2>1, <2>2
  <1>4. i = 1 \/ i = 2 \/ i = 3
    BY DEF Samples
  <1>5. QED
    BY <1>1, <1>2, <1>3, <1>4, Constants DEF Keys!Counter

\* Each sample is accepted after the one before it.
LEMMA SamplesPass ==
    ASSUME at \in Samples, last_counter = IF at = 1 THEN None ELSE at - 2
    PROVE  Verdict(at) = "Ok"
  <1> DEFINE sample == Sample(at)
  <1>1. /\ sample.session_id = SessionId /\ sample.counter = at - 1 /\ sample.mac_len = MacLen
        /\ sample.kind = <<"Handshake", "KeyReport", "Ack">>[at]
        /\ sample.payload_len = F!PayloadLen(sample.payload)
        /\ sample.payload.type = <<"HandshakeInit", "KeyReport", "Ack">>[at]
        /\ sample.payload.size = IF at = 2 THEN 1 ELSE 0
    BY SampleCounters DEF Sample
  <1>2. at = 1 \/ at = 2 \/ at = 3
    BY DEF Samples
  <1> HIDE DEF sample
  <1>3. F!PayloadLen(sample.payload) <= F!PayloadLimit(sample.kind)
    <2>1. CASE at = 1
      BY <1>1, <2>1, Constants DEF F!PayloadLen, F!PayloadLimit
    <2>2. CASE at = 2
      BY <1>1, <2>2, Constants DEF F!PayloadLen, F!PayloadLimit
    <2>3. CASE at = 3
      BY <1>1, <2>3, Constants DEF F!PayloadLen, F!PayloadLimit
    <2>4. QED
      BY <1>2, <2>1, <2>2, <2>3
  <1>4. F!PayloadLen(sample.payload) \in Nat /\ F!PayloadLimit(sample.kind) \in Nat
    <2>1. CASE at = 1
      BY <1>1, <2>1, Constants DEF F!PayloadLen, F!PayloadLimit
    <2>2. CASE at = 2
      BY <1>1, <2>2, Constants DEF F!PayloadLen, F!PayloadLimit
    <2>3. CASE at = 3
      BY <1>1, <2>3, Constants DEF F!PayloadLen, F!PayloadLimit
    <2>4. QED
      BY <1>2, <2>1, <2>2, <2>3
  <1>5. ~F!TooLarge(sample)
    BY <1>1, <1>3, <1>4 DEF F!TooLarge
  <1>6. ~F!MacMissing(sample) /\ ~F!OtherSession(sample, SessionId)
    BY <1>1, Constants DEF F!MacMissing, F!OtherSession
  <1>7. ~F!Replays(sample, last_counter) /\ ~F!Jumps(sample, last_counter)
    BY <1>1, <1>2, Constants DEF F!Replays, F!Jumps
  <1>8. QED
    BY <1>5, <1>6, <1>7 DEF Verdict, F!Validate, sample

\* Each sample can be sealed, with either AEAD.
LEMMA SamplesSeal ==
    ASSUME at \in Samples
    PROVE  ~FramingPanics
  <1> DEFINE sample == Sample(at)
  <1>1. /\ sample.mac_len = MacLen
        /\ sample.kind = <<"Handshake", "KeyReport", "Ack">>[at]
        /\ sample.payload.type = <<"HandshakeInit", "KeyReport", "Ack">>[at]
        /\ sample.payload.size = IF at = 2 THEN 1 ELSE 0
    BY DEF Sample
  <1>2. at = 1 \/ at = 2 \/ at = 3
    BY DEF Samples
  <1> HIDE DEF sample
  <1>3. ~(F!PayloadLen(sample.payload) > F!PayloadLimit(sample.kind))
    <2>1. CASE at = 1
      BY <1>1, <2>1, Constants DEF F!PayloadLen, F!PayloadLimit
    <2>2. CASE at = 2
      BY <1>1, <2>2, Constants DEF F!PayloadLen, F!PayloadLimit
    <2>3. CASE at = 3
      BY <1>1, <2>3, Constants DEF F!PayloadLen, F!PayloadLimit
    <2>4. QED
      BY <1>2, <2>1, <2>2, <2>3
  <1>4. F!SerializeError(sample) = "Ok"
    BY <1>1, <1>3 DEF F!SerializeError
  <1>5. F!AeadSealError = "Ok"
    BY Constants DEF F!AeadSealError, F!MaxMac
  <1>6. QED
    BY <1>4, <1>5 DEF FramingPanics, F!SealError, sample

-----------------------------------------------------------------------------
(* The invariant.                                                          *)

Types ==
    /\ args \in Args
    /\ pc \in {"validate", "frame", "pop", "report", "wake", "rereport", "done"} \union Panics
    /\ at \in Samples
    /\ rf \in Radio!Radios(Nonces)
    /\ rf.config.drop_first = TRUE /\ rf.config.jitter_ms = args.jitter_ms
    /\ delivered \in Seq(Nonces)
    /\ csv \subseteq Columns \union {"attempts"}
    /\ sealed \subseteq {DefaultSalt, OtherSalt} \X (0 .. 2)

\* The last counter is that of the sample before, and in the end of the last one.
Numbered ==
    last_counter = IF pc # "validate" THEN 2 ELSE IF at = 1 THEN None ELSE at - 2

\* Where the first report has been written, or is being.
Reported == {"report", "wake", "rereport", "done", "counter_panic", "write_panic"}

\* The packets that the radio was given.
Handled == Len(delivered) + Len(rf.queue) + rf.dropped

\* The first is dropped, and the rest is on the radio or delivered.
Accounted ==
    /\ Handled \in 0 .. 3
    /\ rf.first_frame_seen <=> Handled > 0
    /\ rf.dropped = IF Handled > 0 THEN 1 ELSE 0
    /\ pc = "validate" \/ ~args.mock_rf => Handled = 0
    /\ pc = "frame" /\ args.mock_rf => Handled = at - 1
    /\ pc \in {"pop", "report", "rereport"} => args.mock_rf
    /\ pc = "pop" => Handled = at
    /\ pc \in Reported /\ args.mock_rf => Handled = 3

\* The clock moves by 2 ms at most with each packet.
Timed ==
    /\ pc = "validate" => rf.now_ms = 0
    /\ pc = "frame" /\ args.mock_rf => rf.now_ms <= 2 * (at - 1)
    /\ pc = "pop" => rf.now_ms <= 2 * at

\* With a jitter no longer than that, all that is pushed is popped before the next push.
Drained ==
    args.jitter_ms <= 2 =>
        IF pc = "pop" THEN Radio!DueBy(rf.queue, rf.now_ms) ELSE rf.queue = <<>>

\* With a longer one, the last packet stays on the radio.
Kept ==
    args.jitter_ms > 2 /\ args.jitter_ms + 4 <= TimeMax =>
        /\ pc = "pop" /\ at = 3 => ~Radio!DueBy(rf.queue, rf.now_ms)
        /\ pc \in Reported /\ args.mock_rf => rf.queue # <<>>

\* The warm wake goes on past the samples.
Woken == args.resume_counter = None => \A nonce \in warm : nonce[2] = 3

\* What the program was told when it panics.
Told ==
    /\ pc # "frame_panic"
    /\ pc = "push_panic" => args.mock_rf /\ OverflowChecks /\ args.jitter_ms + 4 > TimeMax
    /\ pc = "counter_panic" => args.resume_counter >= Threshold
    /\ pc = "write_panic" => args.mock_rf /\ args.metrics_csv

IInv == Types /\ Numbered /\ Accounted /\ Timed /\ Drained /\ Kept /\ Woken /\ Told

\* The lengths that the steps count with.
LEMMA Facts ==
    ASSUME IInv
    PROVE  /\ at \in 1 .. 3 /\ Len(delivered) \in Nat /\ Len(rf.queue) \in Nat
           /\ rf.dropped \in Nat /\ rf.first_frame_seen \in BOOLEAN
           /\ rf.now_ms \in Nat /\ args.mock_rf \in BOOLEAN /\ args.metrics_csv \in BOOLEAN
           /\ args.session_salt \in {DefaultSalt, OtherSalt}
           /\ args.jitter_ms \in Rf!Time /\ args.jitter_ms \in Nat
           /\ args.resume_counter \in {None} \union Keys!Counter
           /\ (Radio!DropsNext(rf) <=> Handled = 0)
  <1>1. /\ at \in 1 .. 3 /\ Len(delivered) \in Nat /\ Len(rf.queue) \in Nat
        /\ rf.dropped \in Nat /\ rf.first_frame_seen \in BOOLEAN
        /\ rf.now_ms \in Nat
    BY Clock DEF IInv, Types, Samples, Radio!Radios, Radio!Time
  <1>2. /\ args.mock_rf \in BOOLEAN /\ args.metrics_csv \in BOOLEAN
        /\ args.session_salt \in {DefaultSalt, OtherSalt}
        /\ args.jitter_ms \in Jitters /\ args.resume_counter \in {None} \union ResumeCounters
    BY DEF IInv, Types, Args
  <1>3. Handled \in 0 .. 3 /\ (rf.first_frame_seen <=> Handled > 0) /\ rf.config.drop_first = TRUE
    BY DEF IInv, Types, Accounted
  <1>4. Radio!DropsNext(rf) <=> ~rf.first_frame_seen
    BY <1>3 DEF Radio!DropsNext
  <1>5. Handled > 0 \/ Handled = 0
    BY <1>3
  <1>6. Radio!DropsNext(rf) <=> Handled = 0
    BY <1>3, <1>4, <1>5
  <1>7. args.jitter_ms \in Rf!Time /\ args.jitter_ms \in Nat
    <2>1. args.jitter_ms \in Rf!Time
      BY <1>2, HostSimAssumption
    <2>2. QED
      BY <2>1, Clock DEF Rf!Time
  <1>8. QED
    BY <1>1, <1>2, <1>6, <1>7, HostSimAssumption

-----------------------------------------------------------------------------
(* The steps.                                                              *)

\* Looking at a sample keeps its counter.
LEMMA ValidateKeeps ==
    ASSUME IInv, ValidateSample
    PROVE  IInv'
  <1>1. /\ pc = "validate" /\ last_counter' = at - 1
        /\ UNCHANGED <<args, rf, delivered, csv, sealed, warm>>
        /\ \/ at < 3 /\ at' = at + 1 /\ pc' = "validate"
           \/ at = 3 /\ at' = 1 /\ pc' = "frame"
    <2>1. SampleCounter(at) = at - 1
      <3>1. at \in Samples
        BY DEF IInv, Types
      <3>2. QED
        BY <3>1, SampleCounters, Zenon
    <2>2. at < 3 \/ at = 3
      BY Facts
    <2>3. QED
      BY <2>1, <2>2 DEF ValidateSample, NextPacket
  <1>2. at' \in Samples
    BY <1>1, Facts DEF Samples
  <1>3. Types'
    BY <1>1, <1>2 DEF IInv, Types
  <1>4. Numbered'
    BY <1>1, Facts DEF Numbered
  <1>5. Handled' = Handled /\ Handled = 0
    BY <1>1 DEF Handled, IInv, Accounted
  <1>6. Accounted'
    BY <1>1, <1>5, Facts DEF IInv, Accounted, Reported
  <1>7. Timed'
    BY <1>1 DEF IInv, Timed
  <1>8. Drained' /\ Kept'
    BY <1>1 DEF IInv, Drained, Kept, Reported
  <1>9. Woken' /\ Told'
    BY <1>1 DEF IInv, Woken, Told
  <1>10. QED
    BY <1>3, <1>4, <1>6, <1>7, <1>8, <1>9 DEF IInv

\* The nonce of a sample is one of the salt's first three.
LEMMA SealedSmall ==
    ASSUME IInv
    PROVE  Sealed \in {DefaultSalt, OtherSalt} \X (0 .. 2) /\ Sealed \in Nonces
  <1>1. SampleCounter(at) = at - 1 /\ SampleCounter(at) \in Keys!Counter
    <2>1. at \in Samples
      BY DEF IInv, Types
    <2>2. QED
      BY <2>1, SampleCounters, Zenon
  <1>2. SampleCounter(at) \in 0 .. 2
    BY <1>1, Facts
  <1>3. QED
    BY <1>1, <1>2, Facts DEF Sealed, Keys!DeriveNonce, Nonces

\* Without a radio the packets are sealed and no more.
LEMMA FrameOnlyKeeps ==
    ASSUME IInv, FrameOnly
    PROVE  IInv'
  <1>1. /\ pc = "frame" /\ ~args.mock_rf
        /\ sealed' = sealed \union {Sealed}
        /\ UNCHANGED <<args, last_counter, rf, delivered, csv, warm>>
        /\ \/ at < 3 /\ at' = at + 1 /\ pc' = "frame"
           \/ at = 3 /\ at' = 1 /\ pc' = "wake"
    <2>1. ~FramingPanics
      BY SamplesSeal DEF IInv, Types
    <2>2. at < 3 \/ at = 3
      BY Facts
    <2>3. QED
      BY <2>1, <2>2 DEF FrameOnly, NextPacket
  <1>2. at' \in Samples
    BY <1>1, Facts DEF Samples
  <1>3. Types'
    BY <1>1, <1>2, SealedSmall DEF IInv, Types
  <1>4. Numbered'
    BY <1>1 DEF IInv, Numbered
  <1>5. Handled' = Handled
    BY <1>1 DEF Handled
  <1>6. Accounted'
    BY <1>1, <1>5 DEF IInv, Accounted, Reported
  <1>7. Timed' /\ Drained' /\ Kept'
    BY <1>1 DEF IInv, Timed, Drained, Kept
  <1>8. Woken' /\ Told'
    BY <1>1 DEF IInv, Woken, Told
  <1>9. QED
    BY <1>3, <1>4, <1>6, <1>7, <1>8 DEF IInv

\* With a radio the packet is pushed, and dropped if it is the first; or the push
\* overflows.
LEMMA FrameAndPushKeeps ==
    ASSUME IInv, FrameAndPush
    PROVE  IInv'
  <1> DEFINE pushed == Rf!Push(rf, Sealed)
  <1>1. /\ pc = "frame" /\ args.mock_rf
        /\ sealed' = sealed \union {Sealed}
        /\ UNCHANGED <<args, at, last_counter, delivered, csv, warm>>
        /\ \/ Rf!PushPanics(rf) /\ rf' = rf /\ pc' = "push_panic"
           \/ rf' = Rf!Advance(pushed, 2) /\ pc' = "pop"
    BY SamplesSeal DEF FrameAndPush, IInv, Types
  <1>2. Handled = at - 1 /\ sealed' \subseteq {DefaultSalt, OtherSalt} \X (0 .. 2)
    BY <1>1, SealedSmall DEF IInv, Types, Accounted
  <1>3. Numbered'
    BY <1>1 DEF IInv, Numbered
  <1>4. CASE Rf!PushPanics(rf) /\ rf' = rf /\ pc' = "push_panic"
    <2>1. OverflowChecks /\ args.jitter_ms + 4 > TimeMax
      <3>1. OverflowChecks /\ rf.now_ms + args.jitter_ms > TimeMax
        BY <1>4 DEF Rf!PushPanics, IInv, Types
      <3>2. rf.now_ms <= 2 * (at - 1) /\ at \in 1 .. 3 /\ rf.now_ms \in Nat /\ args.jitter_ms \in Nat
        BY <1>1, Facts DEF IInv, Timed
      <3>3. QED
        BY <3>1, <3>2, Clock
    <2>2. Types'
      BY <1>1, <1>2, <1>4 DEF IInv, Types, Panics
    <2>3. Handled' = Handled
      BY <1>1, <1>4 DEF Handled
    <2>4. Accounted'
      BY <1>1, <1>4, <2>3 DEF IInv, Accounted, Reported
    <2>5. Timed' /\ Drained' /\ Kept'
      BY <1>1, <1>4 DEF IInv, Timed, Drained, Kept, Reported
    <2>6. Woken' /\ Told'
      BY <1>1, <1>4, <2>1 DEF IInv, Woken, Told
    <2>7. QED
      BY <1>3, <2>2, <2>4, <2>5, <2>6 DEF IInv
  <1>5. CASE rf' = Rf!Advance(pushed, 2) /\ pc' = "pop"
    <2>1. rf \in Radio!Radios(Nonces) /\ Sealed \in Nonces
      BY SealedSmall DEF IInv, Types
    <2>2. pushed = Radio!Push(rf, Sealed)
      BY SameRadio
    <2> HIDE DEF pushed
    <2>3. pushed \in Radio!Radios(Nonces) /\ pushed.config = rf.config
      BY <2>1, <2>2, Clock, Radio!PushOutcome
    <2>4. /\ pushed.first_frame_seen = TRUE
          /\ Radio!DropsNext(rf) => /\ Len(pushed.queue) = Len(rf.queue)
                                    /\ pushed.dropped = rf.dropped + 1
          /\ ~Radio!DropsNext(rf) => /\ Len(pushed.queue) = Len(rf.queue) + 1
                                     /\ pushed.dropped = rf.dropped
      BY <2>1, <2>2, Clock, Radio!PushLength
    <2>5. /\ rf' \in Radio!Radios(Nonces) /\ rf'.config = rf.config
          /\ rf'.queue = pushed.queue /\ rf'.dropped = pushed.dropped
          /\ rf'.first_frame_seen = TRUE
      <3>1. rf' = Radio!Advance(pushed, 2)
        BY <1>5, SameRadio
      <3>2. QED
        BY <2>3, <2>4, <3>1, Clock, Radio!AdvanceOutcome, SMTT(20)
    <2>6. Handled' = Handled + 1 /\ rf'.dropped = 1
      <3>1. Handled' = Len(delivered) + Len(pushed.queue) + pushed.dropped
        BY <1>1, <2>5 DEF Handled
      <3>2. Len(delivered) \in Nat /\ Len(rf.queue) \in Nat /\ rf.dropped \in Nat
        BY Facts
      <3>3. CASE Handled = 0
        <4>1. rf.dropped = 0
          BY <3>3 DEF IInv, Accounted
        <4>2. Len(pushed.queue) = Len(rf.queue) /\ pushed.dropped = rf.dropped + 1
          BY <2>4, <3>3, Facts
        <4>3. QED
          BY <2>5, <3>1, <3>2, <4>1, <4>2 DEF Handled
      <3>4. CASE Handled # 0
        <4>1. rf.dropped = 1
          BY <3>4 DEF IInv, Accounted
        <4>2. Len(pushed.queue) = Len(rf.queue) + 1 /\ pushed.dropped = rf.dropped
          BY <2>4, <3>4, Facts
        <4>3. QED
          BY <2>5, <3>1, <3>2, <4>1, <4>2 DEF Handled
      <3>5. QED
        BY <3>3, <3>4
    <2>7. Types'
      BY <1>1, <1>2, <1>5, <2>5 DEF IInv, Types
    <2>8. Handled' = at /\ at \in 1 .. 3 /\ at' = at
      BY <1>1, <1>2, <2>6, Facts
    <2>9. Accounted'
      BY <1>1, <1>5, <2>5, <2>6, <2>8 DEF Accounted, Reported
    <2>10. /\ rf.now_ms <= 2 * (at - 1) /\ rf'.now_ms <= rf.now_ms + 2
           /\ rf.now_ms \in Nat /\ rf'.now_ms \in Nat /\ args.jitter_ms \in Nat
           /\ rf.config.jitter_ms = args.jitter_ms /\ at \in 1 .. 3
      <3>1. rf' = Radio!Advance(pushed, 2) /\ pushed.now_ms = rf.now_ms
        BY <1>5, <2>1, <2>2, SameRadio, Clock, Radio!PushOutcome
      <3>2. rf'.now_ms <= rf.now_ms + 2
        BY <2>3, <3>1, Clock, Radio!AdvanceOutcome, SMTT(20)
      <3>3. rf'.now_ms \in Nat
        BY <2>5, Clock DEF Radio!Radios, Radio!Time
      <3>4. QED
        BY <1>1, <3>2, <3>3, Facts DEF IInv, Types, Timed
    <2>11. Timed'
      <3>1. rf'.now_ms <= 2 * at /\ at' = at
        BY <1>1, <2>10
      <3>2. QED
        BY <1>5, <3>1 DEF Timed
    <2>12. Drained'
      <3> SUFFICES ASSUME args.jitter_ms <= 2
                   PROVE  Radio!DueBy(rf'.queue, rf'.now_ms)
        BY <1>1, <1>5 DEF Drained
      <3>1. rf.queue = <<>>
        BY <1>1 DEF IInv, Drained
      <3>2. Radio!DueBy(rf.queue, rf.now_ms + args.jitter_ms)
        BY <3>1 DEF Radio!DueBy
      <3>3. Radio!DueBy(pushed.queue, rf.now_ms + args.jitter_ms)
        <4>1. rf.now_ms + args.jitter_ms \in Nat
          BY <2>10
        <4>2. QED
          BY <2>1, <2>2, <2>10, <3>2, <4>1, Clock, Radio!PushEntries
      <3>4. pushed.now_ms = rf.now_ms /\ rf' = Radio!Advance(pushed, 2)
        BY <1>5, <2>1, <2>2, SameRadio, Clock, Radio!PushOutcome
      <3>5. QED
        BY <2>3, <2>10, <3>3, <3>4, Clock, Radio!AdvanceDue
    <2>13. Kept'
      <3> SUFFICES ASSUME args.jitter_ms > 2, args.jitter_ms + 4 <= TimeMax, at = 3
                   PROVE  ~Radio!DueBy(rf'.queue, rf'.now_ms)
        BY <1>1, <1>5 DEF Kept, Reported
      <3>1. ~Radio!DropsNext(rf)
        BY <1>2, Facts
      <3>2. rf.now_ms + rf.config.jitter_ms <= TimeMax /\ rf'.now_ms < rf.now_ms + rf.config.jitter_ms
        BY <2>10, Clock
      <3>3. ~Radio!DueBy(pushed.queue, rf'.now_ms)
        BY <2>1, <2>2, <2>10, <3>1, <3>2, Clock, Radio!PushNotDue
      <3>4. QED
        BY <2>5, <3>3
    <2>14. Woken' /\ Told'
      BY <1>1, <1>5 DEF IInv, Woken, Told
    <2>15. QED
      BY <1>3, <2>7, <2>9, <2>11, <2>12, <2>13, <2>14 DEF IInv
  <1>6. QED
    BY <1>1, <1>4, <1>5

\* A pop moves a frame from the radio to the delivered ones.
LEMMA PopDeliveredKeeps ==
    ASSUME IInv, PopDelivered
    PROVE  IInv'
  <1>1. /\ pc = "pop" /\ Radio!Deliverable(rf) # {}
        /\ rf' = Radio!Pop(rf) /\ delivered' = Append(delivered, Radio!Popped(rf))
        /\ UNCHANGED <<args, pc, at, last_counter, csv, sealed, warm>>
    BY SameRadio DEF PopDelivered
  <1>2. rf \in Radio!Radios(Nonces) /\ delivered \in Seq(Nonces)
    BY DEF IInv, Types
  <1>3. /\ rf' \in Radio!Radios(Nonces) /\ rf'.config = rf.config
        /\ rf'.now_ms = rf.now_ms /\ Radio!Popped(rf) \in Nonces
    BY <1>1, <1>2, Clock, Radio!PopOutcome
  <1>4. /\ Len(rf'.queue) = Len(rf.queue) - 1
        /\ rf'.dropped = rf.dropped /\ rf'.first_frame_seen = rf.first_frame_seen
    BY <1>1, <1>2, Clock, Radio!PopLength
  <1>5. delivered' \in Seq(Nonces) /\ Len(delivered') = Len(delivered) + 1
    BY <1>1, <1>2, <1>3
  <1>6. Handled' = Handled
    <2>1. /\ Handled = Len(delivered) + Len(rf.queue) + rf.dropped
          /\ Handled' = Len(delivered') + Len(rf'.queue) + rf'.dropped
      BY DEF Handled
    <2>2. Len(delivered) \in Nat /\ Len(rf.queue) \in Nat /\ rf.dropped \in Nat
      BY Facts
    <2>3. Handled' = (Len(delivered) + 1) + (Len(rf.queue) - 1) + rf.dropped
      BY <1>4, <1>5, <2>1, Zenon
    <2>4. (Len(delivered) + 1) + (Len(rf.queue) - 1) + rf.dropped
          = Len(delivered) + Len(rf.queue) + rf.dropped
      <3>1. \A i, j, k \in Nat : (i + 1) + (j - 1) + k = i + j + k
        OBVIOUS
      <3>2. QED
        BY <2>2, <3>1, Zenon
    <2>5. QED
      BY <2>1, <2>3, <2>4, Zenon
  <1>7. Types'
    BY <1>1, <1>3, <1>5 DEF IInv, Types
  <1>8. Numbered'
    BY <1>1 DEF IInv, Numbered
  <1>9. Accounted'
    BY <1>1, <1>4, <1>6 DEF IInv, Accounted, Reported
  <1>10. Timed'
    BY <1>1, <1>3 DEF IInv, Timed
  <1>11. Drained'
    <2> SUFFICES ASSUME args.jitter_ms <= 2
                 PROVE  Radio!DueBy(rf'.queue, rf'.now_ms)
      BY <1>1 DEF Drained
    <2>1. Radio!DueBy(rf.queue, rf.now_ms) /\ rf.now_ms \in Nat
      BY <1>1, Facts DEF IInv, Drained
    <2>2. QED
      BY <1>1, <1>2, <1>3, <2>1, Clock, Radio!PopEntries
  <1>12. Kept'
    <2> SUFFICES ASSUME args.jitter_ms > 2, args.jitter_ms + 4 <= TimeMax, at = 3
                 PROVE  ~Radio!DueBy(rf'.queue, rf'.now_ms)
      BY <1>1 DEF Kept, Reported
    <2>1. ~Radio!DueBy(rf.queue, rf.now_ms)
      BY <1>1 DEF IInv, Kept
    <2>2. QED
      BY <1>1, <1>2, <1>3, <2>1, Clock, Radio!PopLeavesLate
  <1>13. Woken' /\ Told'
    BY <1>1 DEF IInv, Woken, Told
  <1>14. QED
    BY <1>7, <1>8, <1>9, <1>10, <1>11, <1>12, <1>13 DEF IInv

\* When nothing more can be popped the next packet is due, or the report.
LEMMA PopNoneKeeps ==
    ASSUME IInv, PopNone
    PROVE  IInv'
  <1>1. /\ pc = "pop" /\ Radio!Deliverable(rf) = {}
        /\ UNCHANGED <<args, last_counter, rf, delivered, csv, sealed, warm>>
        /\ \/ at < 3 /\ at' = at + 1 /\ pc' = "frame"
           \/ at = 3 /\ at' = 1 /\ pc' = "report"
    BY Facts, SameRadio DEF PopNone
  <1>2. at' \in Samples
    BY <1>1, Facts DEF Samples
  <1>3. Types'
    BY <1>1, <1>2 DEF IInv, Types
  <1>4. Numbered'
    BY <1>1 DEF IInv, Numbered
  <1>5. Handled' = Handled /\ Handled = at /\ args.mock_rf
    BY <1>1 DEF Handled, IInv, Accounted
  <1>6. Accounted'
    BY <1>1, <1>5, Facts DEF IInv, Accounted, Reported
  <1>7. Timed'
    BY <1>1, Facts DEF IInv, Timed
  <1>8. Drained'
    <2> SUFFICES ASSUME args.jitter_ms <= 2
                 PROVE  rf.queue = <<>>
      BY <1>1 DEF Drained
    <2>1. Radio!DueBy(rf.queue, rf.now_ms) /\ rf \in Radio!Radios(Nonces)
      BY <1>1 DEF IInv, Types, Drained
    <2>2. QED
      BY <1>1, <2>1, Clock, Radio!AllDeliveredEmpty
  <1>9. Kept'
    <2> SUFFICES ASSUME args.jitter_ms > 2, args.jitter_ms + 4 <= TimeMax, at = 3
                 PROVE  rf.queue # <<>>
      BY <1>1 DEF Kept, Reported
    <2>1. ~Radio!DueBy(rf.queue, rf.now_ms)
      BY <1>1 DEF IInv, Kept
    <2>2. QED
      BY <2>1 DEF Radio!DueBy
  <1>10. Woken' /\ Told'
    BY <1>1 DEF IInv, Woken, Told
  <1>11. QED
    BY <1>3, <1>4, <1>6, <1>7, <1>8, <1>9, <1>10 DEF IInv

\* The reports write their columns, or panic.
LEMMA ReportKeeps ==
    ASSUME IInv, Report \/ ReportAgain
    PROVE  IInv'
  <1>1. /\ UNCHANGED <<args, at, last_counter, rf, delivered, sealed, warm>>
        /\ pc \in {"report", "rereport"} /\ pc' \in {"wake", "done", "write_panic"}
        /\ csv' \in {csv, {}, Columns, Columns \union {"attempts"}}
        /\ pc' = "write_panic" => args.metrics_csv
    BY DEF Report, ReportAgain, Written
  <1>2. Types'
    BY <1>1 DEF IInv, Types, Panics
  <1>3. Numbered'
    BY <1>1 DEF IInv, Numbered
  <1>4. Handled' = Handled
    BY <1>1 DEF Handled
  <1>5. Accounted'
    BY <1>1, <1>4 DEF IInv, Accounted, Reported
  <1>6. Timed' /\ Drained' /\ Kept'
    BY <1>1 DEF IInv, Timed, Drained, Kept, Reported
  <1>7. Woken'
    BY <1>1 DEF IInv, Woken
  <1>8. Told'
    BY <1>1 DEF IInv, Accounted, Told
  <1>9. QED
    BY <1>2, <1>3, <1>5, <1>6, <1>7, <1>8 DEF IInv

\* The counter after the warm wake: past the samples unless another is asked for.
LEMMA WarmCounter ==
    ASSUME IInv, last_counter = 2
    PROVE  /\ args.resume_counter = None => WarmKeys.counter = 3
           /\ Keys!Exhausted(WarmKeys) => args.resume_counter >= Threshold
  <1> DEFINE next == IF args.resume_counter # None THEN args.resume_counter ELSE 3
  <1>1. next \in Nat /\ (args.resume_counter # None => args.resume_counter \in Nat)
    BY Facts, Constants DEF Keys!Counter
  <1>2. WarmKeys = [salt |-> DefaultSalt, counter |-> IF next < 1 THEN 1 ELSE next]
    BY DEF WarmKeys, Keys!Resumed, Keys!New, Keys!FirstCounter
  <1>3. WarmKeys.counter = IF next < 1 THEN 1 ELSE next
    BY <1>2
  <1>4. args.resume_counter = None => WarmKeys.counter = 3
    BY <1>3
  <1>5. Keys!Exhausted(WarmKeys) => args.resume_counter >= Threshold
    <2> SUFFICES ASSUME WarmKeys.counter >= Threshold
                 PROVE  args.resume_counter >= Threshold
      BY DEF Keys!Exhausted
    <2>1. args.resume_counter # None
      BY <1>4, Constants
    <2>2. next = args.resume_counter /\ args.resume_counter \in Nat
      BY <1>1, <2>1
    <2> HIDE DEF next
    <2>3. QED
      BY <1>3, <2>2, Constants
  <1>6. QED
    BY <1>4, <1>5

\* The warm wake takes a nonce past the samples, or panics at the threshold.
LEMMA WarmWakeKeeps ==
    ASSUME IInv, WarmWake
    PROVE  IInv'
  <1>1. /\ pc = "wake" /\ UNCHANGED <<args, at, last_counter, rf, delivered, csv, sealed>>
        /\ \/ /\ Keys!Exhausted(WarmKeys) /\ pc' = "counter_panic" /\ warm' = warm
           \/ /\ pc' = IF args.mock_rf THEN "rereport" ELSE "done"
              /\ warm' = {Keys!NonceFor(WarmKeys, WarmKeys.counter)}
    BY DEF WarmWake
  <1>2. last_counter = 2
    BY <1>1 DEF IInv, Numbered
  <1>3. Types'
    BY <1>1, Facts DEF IInv, Types, Panics
  <1>4. Numbered'
    BY <1>1 DEF IInv, Numbered
  <1>5. Handled' = Handled
    BY <1>1 DEF Handled
  <1>6. Accounted'
    BY <1>1, <1>5 DEF IInv, Accounted, Reported
  <1>7. Woken' /\ Told'
    <2>1. CASE Keys!Exhausted(WarmKeys) /\ pc' = "counter_panic" /\ warm' = warm
      BY <1>1, <1>2, <2>1, WarmCounter DEF IInv, Woken, Told
    <2>2. CASE /\ pc' = IF args.mock_rf THEN "rereport" ELSE "done"
               /\ warm' = {Keys!NonceFor(WarmKeys, WarmKeys.counter)}
      <3>1. Keys!NonceFor(WarmKeys, WarmKeys.counter)[2] = WarmKeys.counter
        BY DEF Keys!NonceFor, Keys!DeriveNonce
      <3>2. pc' \notin Panics /\ args' = args
        BY <1>1, <2>2 DEF Panics
      <3>3. Told'
        BY <3>2 DEF Told, Panics
      <3>4. QED
        BY <1>2, <2>2, <3>1, <3>2, <3>3, WarmCounter DEF Woken
    <2>3. QED
      BY <1>1, <2>1, <2>2
  <1>8. Timed' /\ Drained' /\ Kept'
    BY <1>1 DEF IInv, Timed, Drained, Kept, Reported
  <1>9. QED
    BY <1>3, <1>4, <1>6, <1>7, <1>8 DEF IInv

-----------------------------------------------------------------------------
(* What follows.                                                           *)

\* A program begins with nothing handled.
LEMMA BeginsWell ==
    ASSUME Init
    PROVE  IInv
  <1> DEFINE config == [drop_first |-> args.drop_first, reorder |-> args.reorder,
                        jitter_ms |-> args.jitter_ms]
  <1>1. /\ args \in Args /\ pc = "validate" /\ at = 1 /\ last_counter = None
        /\ rf = Rf!New(config) /\ delivered = <<>> /\ csv = {} /\ sealed = {} /\ warm = {}
    BY DEF Init
  <1>2. config \in Radio!Config /\ config.drop_first = TRUE /\ config.jitter_ms = args.jitter_ms
    <2>1. args.drop_first = TRUE /\ args.reorder = TRUE /\ args.jitter_ms \in Radio!Time
      BY <1>1, HostSimAssumption, SameRadio DEF Args
    <2>2. QED
      BY <2>1 DEF Radio!Config
  <1> HIDE DEF config
  <1>3. /\ rf \in Radio!Radios(Nonces) /\ rf.config = config /\ rf.queue = <<>>
        /\ rf.now_ms = 0
        /\ rf.dropped = 0 /\ rf.first_frame_seen = FALSE
    BY <1>1, <1>2, SameRadio, Clock, Radio!NewOutcome
  <1>4. Types
    BY <1>1, <1>2, <1>3 DEF Types, Samples
  <1>5. Numbered
    BY <1>1 DEF Numbered
  <1>6. Handled = 0
    BY <1>1, <1>3 DEF Handled
  <1>7. Accounted
    BY <1>1, <1>3, <1>6 DEF Accounted, Reported
  <1>8. Timed /\ Drained /\ Kept
    BY <1>1, <1>3 DEF Timed, Drained, Kept, Reported
  <1>9. Woken /\ Told
    BY <1>1 DEF Woken, Told
  <1>10. QED
    BY <1>4, <1>5, <1>7, <1>8, <1>9 DEF IInv

\* The invariant holds for every command line.
THEOREM HostSimInvariant == Spec => []IInv
  <1>1. Init => IInv
    BY BeginsWell
  <1>2. IInv /\ [Next]_vars => IInv'
    <2> SUFFICES ASSUME IInv, [Next]_vars PROVE IInv'
      OBVIOUS
    <2>1. CASE ValidateSample
      BY <2>1, ValidateKeeps
    <2>2. CASE FrameOnly
      BY <2>2, FrameOnlyKeeps
    <2>3. CASE FrameAndPush
      BY <2>3, FrameAndPushKeeps
    <2>4. CASE PopDelivered
      BY <2>4, PopDeliveredKeeps
    <2>5. CASE PopNone
      BY <2>5, PopNoneKeeps
    <2>6. CASE Report \/ ReportAgain
      BY <2>6, ReportKeeps
    <2>7. CASE WarmWake
      BY <2>7, WarmWakeKeeps
    <2>8. CASE UNCHANGED vars
      <3>1. UNCHANGED <<args, pc, at, last_counter, rf, delivered, csv, sealed, warm>>
        BY <2>8 DEF vars
      <3>2. Types'
        BY <3>1 DEF IInv, Types
      <3>3. Handled' = Handled
        BY <3>1 DEF Handled
      <3>4. Numbered' /\ Timed' /\ Drained' /\ Kept' /\ Woken' /\ Told'
        BY <3>1 DEF IInv, Numbered, Timed, Drained, Kept, Woken, Told
      <3>5. Accounted'
        BY <3>1, <3>3 DEF IInv, Accounted
      <3>6. QED
        BY <3>2, <3>4, <3>5 DEF IInv
    <2>9. QED
      BY <2>1, <2>2, <2>3, <2>4, <2>5, <2>6, <2>7, <2>8 DEF Next
  <1>3. QED
    BY <1>1, <1>2, PTL DEF Spec

\* Every state has its types: no more than two frames are ever on the radio, or
\* delivered.
THEOREM HostSimTypeOK == Spec => []TypeOK
  <1>1. IInv => TypeOK
    <2> SUFFICES ASSUME IInv PROVE TypeOK
      OBVIOUS
    <2>1. Len(rf.queue) <= 2 /\ Len(delivered) <= 2
      BY Facts DEF IInv, Accounted, Handled
    <2>2. rf.now_ms \in Rf!Time
      BY SameRadio DEF IInv, Types, Radio!Radios
    <2>3. last_counter \in {None} \union Keys!Counter
      BY Facts, Constants DEF IInv, Numbered, Keys!Counter
    <2>4. 0 .. 2 \subseteq Keys!Counter
      BY Constants DEF Keys!Counter
    <2>5. sealed \subseteq {DefaultSalt, OtherSalt} \X Keys!Counter
      BY <2>4 DEF IInv, Types
    <2>6. QED
      BY <2>1, <2>2, <2>3, <2>5 DEF IInv, Types, TypeOK
  <1>2. QED
    BY <1>1, HostSimInvariant, PTL

\* The nonce after a default warm wake was not sealed under, whatever the width of the
\* counter and whatever the radio still holds.
THEOREM WarmWakeAlwaysFresh == Spec => []WarmWakeFresh
  <1>1. IInv => WarmWakeFresh
    <2> SUFFICES ASSUME IInv, args.resume_counter = None, NEW nonce \in warm
                 PROVE  nonce \notin sealed
      BY DEF WarmWakeFresh
    <2>1. nonce[2] = 3
      BY DEF IInv, Woken
    <2>2. \A other \in sealed : other[2] \in 0 .. 2
      BY DEF IInv, Types
    <2>3. QED
      BY <2>1, <2>2
  <1>2. QED
    BY <1>1, HostSimInvariant, PTL

\* The report accounts for each of the packets when the jitter is within the step of the
\* clock, and for fewer when it is not, whatever the clock and the jitter are.
THEOREM AttemptsAlwaysAccount == Spec => []AttemptsAccount
  <1>1. IInv => AttemptsAccount
    <2> SUFFICES ASSUME IInv, pc \in Reported, args.mock_rf
                 PROVE  /\ Attempts = Cardinality(Samples) - Len(rf.queue)
                        /\ args.jitter_ms <= 2 => Attempts = Cardinality(Samples)
                        /\ args.jitter_ms > 2 /\ args.jitter_ms + 4 <= TimeMax
                              => Attempts < Cardinality(Samples)
      BY DEF AttemptsAccount, Reported
    <2>1. Attempts = 3 - Len(rf.queue) /\ Len(rf.queue) \in Nat
      BY Facts DEF IInv, Accounted, Handled, Attempts
    <2>2. Cardinality(Samples) = 3
      <3>1. \A i, j \in Int : ~(i > j) => Cardinality(i .. j) = j - i + 1
        BY FS_Interval
      <3>2. /\ 1 \in Int /\ 3 \in Int /\ ~(1 > 3) /\ 3 - 1 + 1 = 3
        OBVIOUS
      <3>3. Cardinality(1 .. 3) = 3 - 1 + 1
        BY <3>1, <3>2, Zenon
      <3>4. QED
        BY <3>2, <3>3 DEF Samples
    <2>3. pc # "pop"
      BY DEF Reported
    <2>4. ASSUME args.jitter_ms <= 2
          PROVE  Attempts = 3
      <3>1. rf.queue = <<>>
        BY <2>3, <2>4 DEF IInv, Drained
      <3>2. QED
        BY <2>1, <3>1
    <2>5. ASSUME args.jitter_ms > 2, args.jitter_ms + 4 <= TimeMax
          PROVE  Attempts < 3
      <3>1. rf.queue # <<>>
        BY <2>5 DEF IInv, Kept
      <3>2. rf.queue \in Seq(Radio!Entries(Nonces))
        BY DEF IInv, Types, Radio!Radios
      <3>3. Len(rf.queue) # 0
        BY <3>1, <3>2
      <3>4. QED
        BY <2>1, <3>3
    <2>6. QED
      BY <2>1, <2>2, <2>4, <2>5
  <1>2. QED
    BY <1>1, HostSimInvariant, PTL

\* The samples pass validation and sealing for every limit that demo_config's is one of,
\* and the program panics only if the command line names a jitter that overflows the
\* clock, a counter at the threshold, or a file that cannot be written.
THEOREM SamplesAlwaysSound == Spec => []SamplesSound
  <1>1. IInv => SamplesSound
    <2> SUFFICES ASSUME IInv PROVE SamplesSound
      OBVIOUS
    <2>1. ASSUME pc = "validate"
          PROVE  Verdict(at) = "Ok"
      <3>1. at \in Samples /\ last_counter = IF at = 1 THEN None ELSE at - 2
        BY <2>1 DEF IInv, Types, Numbered
      <3>2. QED
        BY <3>1, SamplesPass
    <2>2. QED
      BY <2>1 DEF IInv, Told, SamplesSound
  <1>2. QED
    BY <1>1, HostSimInvariant, PTL
=============================================================================
