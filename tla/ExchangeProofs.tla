--------------------------- MODULE ExchangeProofs ---------------------------
(***************************************************************************)
(* Proofs about Exchange, for every set of loops, every number of          *)
(* retransmissions, every clock and every width of the counter.            *)
(***************************************************************************)
EXTENDS Exchange, TLAPS

Radio == INSTANCE MockRfProofs

\* The radio that the lemmas are about is the one that Exchange holds.
LEMMA SameRadio ==
    /\ Rf!Time = Radio!Time /\ Rf!Config = Radio!Config
    /\ \A config : Rf!New(config) = Radio!New(config)
    /\ \A radio : /\ Rf!DropsNext(radio) = Radio!DropsNext(radio)
                  /\ Rf!Deliverable(radio) = Radio!Deliverable(radio)
                  /\ Rf!Popped(radio) = Radio!Popped(radio)
                  /\ Rf!Pop(radio) = Radio!Pop(radio)
    /\ \A radio, frame : Rf!Push(radio, frame) = Radio!Push(radio, frame)
    /\ \A radio, delta : Rf!Advance(radio, delta) = Radio!Advance(radio, delta)
  <1>1. Rf!Time = Radio!Time /\ Rf!Config = Radio!Config
    BY DEF Rf!Time, Radio!Time, Rf!Config, Radio!Config
  <1>2. \A config : Rf!New(config) = Radio!New(config)
    BY DEF Rf!New, Radio!New
  <1>3. \A radio : Rf!Deliverable(radio) = Radio!Deliverable(radio)
    BY DEF Rf!Deliverable, Radio!Deliverable
  <1>4. \A S : Rf!Min(S) = Radio!Min(S)
    BY DEF Rf!Min, Radio!Min
  <1>5. \A radio : Rf!Popped(radio) = Radio!Popped(radio)
    BY <1>3, <1>4 DEF Rf!Popped, Radio!Popped
  <1>6. \A radio : Rf!Pop(radio) = Radio!Pop(radio)
    BY <1>3, <1>4 DEF Rf!Pop, Radio!Pop, Rf!RemoveAt, Radio!RemoveAt
  <1>7. \A radio, frame : Rf!Push(radio, frame) = Radio!Push(radio, frame)
    BY DEF Rf!Push, Radio!Push, Rf!DropsNext, Radio!DropsNext, Rf!Enqueued, Radio!Enqueued,
           Rf!DeliverAt, Radio!DeliverAt, Rf!Front, Radio!Front, Rf!Last, Radio!Last
  <1>8. \A radio, delta : Rf!Advance(radio, delta) = Radio!Advance(radio, delta)
    BY DEF Rf!Advance, Radio!Advance
  <1>9. \A radio : Rf!DropsNext(radio) = Radio!DropsNext(radio)
    BY DEF Rf!DropsNext, Radio!DropsNext
  <1>10. QED
    BY <1>1, <1>2, <1>3, <1>5, <1>6, <1>7, <1>8, <1>9

-----------------------------------------------------------------------------
(* The invariant.                                                          *)

\* The frame of a packet, sealed in the session.
FrameOf(packet) == [packet |-> packet, nonce |-> <<Salt, packet.counter>>]

\* All frames that were sealed so far.
Carried == {FrameOf(packet) : packet \in sealed}

\* How often the report was transmitted.
Sent == attempt + IF pc \in {"start", "send"} THEN 0 ELSE 1

\* The packets that the loop may have sealed: answers only once it has accepted.
Sealable ==
    IF accepted > 0
    THEN {KeyReport(counter), Ack(counter + 1, counter), KeepAlive(counter + 2)}
    ELSE {KeyReport(counter)}

\* How much the report may still be accepted, by the copies on the radio.
InFlight == Radio!Copies(rf.queue, FrameOf(KeyReport(counter)))

Types ==
    /\ flow \in Flows
    /\ keys \in [salt : {Salt}, counter : Keys!Counter]
    /\ rf \in Radio!Radios(Carried) /\ rf.config = flow.radio
    /\ pc \in {"start", "send", "drain", "done", "failed"}
    /\ attempt \in 0 .. MaxRetransmit
    /\ counter \in 0 .. Threshold - 1
    /\ acked \in BOOLEAN
    /\ accepted \in Nat

\* Before the counter is taken nothing has happened; after that there is one.
Started ==
    /\ pc = "start" =>
          /\ keys.counter \in 1 .. Threshold - 1
          /\ attempt = 0 /\ accepted = 0 /\ sealed = {} /\ rf.queue = <<>>
    /\ pc # "start" => counter > 0

\* Each transmission is accepted, on the radio or lost, and costs one step, as each
\* copy accepted does.
Counted ==
    /\ InFlight \in Nat /\ accepted + InFlight <= Sent
    /\ rf.now_ms <= (Sent + accepted) * flow.step

\* An ack is made of an acceptance.
Answered ==
    /\ sealed \subseteq Sealable
    /\ acked => accepted > 0
    /\ pc = "done" => acked

IInv == Types /\ Started /\ Counted /\ Answered

\* What the mock radio assumes.
LEMMA Clock == TimeMax \in Nat /\ OverflowChecks \in BOOLEAN
  BY ExchangeAssumption

\* What the assumptions say of the constants and of a loop.
LEMMA Loops ==
    /\ MaxRetransmit \in Nat /\ SessionId \in Nat /\ TimeMax \in Nat
    /\ Threshold \in Nat /\ CounterMod \in Nat /\ 1 < Threshold /\ Threshold + 1 < CounterMod
    /\ JumpWindow \in Nat \ {0} /\ MacLen \in Nat \ {0} /\ MaxPayload \in Nat \ {0}
    /\ \A loop \in Flows :
          /\ loop.radio \in Radio!Config /\ loop.radio.jitter_ms \in Nat
          /\ loop.resume \in Nat /\ loop.resume < Threshold
          /\ loop.first_step \in Nat /\ loop.step \in Nat /\ loop.first_step <= loop.step
          /\ 2 * (MaxRetransmit + 1) * loop.step + loop.radio.jitter_ms <= TimeMax
          /\ loop.keepalive \in BOOLEAN /\ loop.mute_first \in BOOLEAN
  <1>1. ASSUME NEW loop \in Flows
        PROVE  /\ loop.radio \in Radio!Config /\ loop.radio.jitter_ms \in Nat
               /\ loop.resume \in Nat /\ loop.resume < Threshold
               /\ loop.first_step \in Nat /\ loop.step \in Nat
               /\ loop.first_step <= loop.step
               /\ 2 * (MaxRetransmit + 1) * loop.step + loop.radio.jitter_ms <= TimeMax
               /\ loop.keepalive \in BOOLEAN /\ loop.mute_first \in BOOLEAN
    <2>1. loop \in Flow /\ loop.resume < Threshold /\ loop.first_step <= loop.step
          /\ 2 * (MaxRetransmit + 1) * loop.step + loop.radio.jitter_ms <= TimeMax
      BY ExchangeAssumption
    <2>2. /\ loop.radio \in Rf!Config /\ loop.resume \in Keys!Counter
          /\ loop.first_step \in Rf!Time /\ loop.step \in Rf!Time
          /\ loop.keepalive \in BOOLEAN /\ loop.mute_first \in BOOLEAN
      BY <2>1 DEF Flow
    <2>3. loop.radio.jitter_ms \in Rf!Time
      BY <2>2 DEF Rf!Config
    <2>4. QED
      BY <2>1, <2>2, <2>3, SameRadio, ExchangeAssumption DEF Rf!Time, Keys!Counter
  <1>2. QED
    BY <1>1, ExchangeAssumption

\* Sealing in the session gives the packet its frame.
LEMMA SealIsFrameOf ==
    ASSUME Types, NEW packet
    PROVE  Seal(packet) = FrameOf(packet)
  BY DEF Types, Seal, FrameOf, Keys!NonceFor, Keys!DeriveNonce

\* The three packets have counters of their own.
LEMMA CountersDiffer ==
    ASSUME NEW n \in Nat
    PROVE  /\ KeyReport(n).counter = n /\ Ack(n + 1, n).counter = n + 1
           /\ KeepAlive(n + 2).counter = n + 2
           /\ KeyReport(n).kind = "KeyReport"
           /\ FrameOf(Ack(n + 1, n)) # FrameOf(KeyReport(n))
           /\ FrameOf(KeepAlive(n + 2)) # FrameOf(KeyReport(n))
  <1>1. /\ KeyReport(n).counter = n /\ Ack(n + 1, n).counter = n + 1
        /\ KeepAlive(n + 2).counter = n + 2 /\ KeyReport(n).kind = "KeyReport"
    BY DEF KeyReport, Ack, KeepAlive, Packet
  <1>2. /\ FrameOf(KeyReport(n)).nonce = <<Salt, n>>
        /\ FrameOf(Ack(n + 1, n)).nonce = <<Salt, n + 1>>
        /\ FrameOf(KeepAlive(n + 2)).nonce = <<Salt, n + 2>>
    BY <1>1 DEF FrameOf
  <1>3. <<Salt, n>> # <<Salt, n + 1>> /\ <<Salt, n>> # <<Salt, n + 2>>
    OBVIOUS
  <1>4. QED
    BY <1>1, <1>2, <1>3

\* A frame on the radio that opens under the report's counter is the report's, and
\* one that opens under the next is an answer.
LEMMA WhatOpens ==
    ASSUME IInv, NEW frame \in Carried
    PROVE  /\ frame.packet \in sealed /\ frame = FrameOf(frame.packet)
           /\ Opens(frame, counter) => frame = FrameOf(KeyReport(counter))
           /\ Opens(frame, counter + 1) => accepted > 0
  <1>1. PICK packet \in sealed : frame = FrameOf(packet)
    BY DEF Carried
  <1>2. frame.packet = packet /\ frame.nonce = <<Salt, packet.counter>>
    BY <1>1 DEF FrameOf
  <1>3. counter \in Nat /\ accepted \in Nat
    BY Loops DEF IInv, Types
  <1>4. packet \in Sealable
    BY DEF IInv, Answered
  <1>5. \A number : Opens(frame, number) <=> packet.counter = number
    <2>1. keys.salt = Salt
      BY DEF IInv, Types
    <2>2. QED
      BY <1>2, <2>1 DEF Opens, Keys!NonceFor, Keys!DeriveNonce
  <1>6. packet.counter = counter => packet = KeyReport(counter)
    BY <1>3, <1>4, CountersDiffer DEF Sealable
  <1>7. packet.counter = counter + 1 => accepted > 0
    BY <1>3, <1>4, CountersDiffer DEF Sealable
  <1>8. QED
    BY <1>1, <1>2, <1>5, <1>6, <1>7

\* The receiver's claim about the last counter is always right for the report.
LEMMA ReportIsValid ==
    ASSUME NEW n \in Nat
    PROVE  V!Validate(KeyReport(n), SessionId, n - 1) = "Ok"
  <1>1. KeyReport(n) = [session_id |-> SessionId, counter |-> n, kind |-> "KeyReport",
                        flags |-> {"encrypted", "needs_ack"}, payload_len |-> 1,
                        mac_len |-> MacLen, ack_counter |-> V!None]
    BY DEF KeyReport, Packet
  <1>2. ~V!MacMissing(KeyReport(n)) /\ ~V!OtherSession(KeyReport(n), SessionId)
    BY <1>1, Loops DEF V!MacMissing, V!OtherSession
  <1>3. ~V!Replays(KeyReport(n), n - 1) /\ ~V!Jumps(KeyReport(n), n - 1)
    BY <1>1, Loops DEF V!Replays, V!Jumps
  <1>4. ~V!TooLarge(KeyReport(n))
    BY <1>1, Loops DEF V!TooLarge, V!PayloadLimit
  <1>5. QED
    BY <1>2, <1>3, <1>4 DEF V!Validate

\* The time allowed grows by a step with each transmission and each acceptance.
LEMMA OneStepMore ==
    ASSUME NEW k \in Nat, NEW step \in Nat, NEW now \in Nat, now <= k * step,
           NEW pace \in Nat, pace <= step, NEW next \in Nat, next <= now + pace
    PROVE  next <= (k + 1) * step
  <1>1. (k + 1) * step = k * step + step /\ k * step \in Nat
    OBVIOUS
  <1>2. QED
    BY <1>1

\* The types that the steps begin with.
LEMMA Facts ==
    ASSUME IInv
    PROVE  /\ flow \in Flows /\ flow.step \in Nat /\ flow.first_step \in Nat
           /\ flow.first_step <= flow.step
           /\ rf \in Radio!Radios(Carried) /\ rf.config = flow.radio /\ rf.now_ms \in Nat
           /\ attempt \in Nat /\ attempt <= MaxRetransmit /\ MaxRetransmit \in Nat
           /\ Sent \in Nat /\ accepted \in Nat /\ InFlight \in Nat /\ counter \in Nat
           /\ TimeMax \in Nat
  <1>1. rf.now_ms \in Nat
    BY Loops DEF IInv, Types, Radio!Radios, Radio!Time
  <1>2. QED
    BY <1>1, Loops DEF IInv, Types, Counted, Sent

-----------------------------------------------------------------------------
(* The steps.                                                              *)

\* Taking the counter transmits nothing.
LEMMA TakeKeeps ==
    ASSUME IInv, TakeCounter
    PROVE  IInv' /\ InFlight' = 0
  <1>1. /\ counter' = keys.counter /\ keys' = Keys!Incremented(keys) /\ pc' = "send"
        /\ UNCHANGED <<flow, rf, attempt, acked, accepted, sealed>> /\ pc = "start"
    BY DEF TakeCounter
  <1>2. /\ keys.counter \in 1 .. Threshold - 1 /\ keys.salt = Salt
        /\ attempt = 0 /\ accepted = 0 /\ sealed = {} /\ rf.queue = <<>>
    BY <1>1 DEF IInv, Types, Started
  <1>3. keys' \in [salt : {Salt}, counter : Keys!Counter]
    <2> DEFINE next == (keys.counter + 1) % CounterMod
    <2>1. next \in Keys!Counter
      <3>1. \A n \in Nat, m \in Nat \ {0} : n % m \in 0 .. m - 1
        OBVIOUS
      <3>2. keys.counter + 1 \in Nat /\ CounterMod \in Nat \ {0}
        BY <1>2, Loops
      <3>3. QED
        BY <3>1, <3>2 DEF Keys!Counter
    <2>2. keys' = [keys EXCEPT !.counter = next]
      BY <1>1 DEF Keys!Incremented
    <2> HIDE DEF next
    <2>3. QED
      BY <2>1, <2>2 DEF IInv, Types
  <1>4. Types'
    <2>1. Carried' = Carried
      BY <1>1 DEF Carried
    <2>2. counter' \in 0 .. Threshold - 1
      BY <1>1, <1>2, Loops
    <2>3. QED
      BY <1>1, <1>3, <2>1, <2>2 DEF IInv, Types
  <1>5. Started'
    BY <1>1, <1>2, Loops DEF Started
  <1>6. InFlight' = 0
    BY <1>1, <1>2, Clock, Radio!NoCopies DEF InFlight
  <1>7. Counted'
    <2>1. Sent' = Sent /\ Sent = 0
      BY <1>1, <1>2 DEF Sent
    <2>2. QED
      BY <1>1, <1>2, <1>6, <2>1 DEF IInv, Counted
  <1>8. Answered'
    BY <1>1, <1>2 DEF IInv, Answered
  <1>9. QED
    BY <1>4, <1>5, <1>6, <1>7, <1>8 DEF IInv

\* A transmission puts one copy more on the radio at most, and waits a step at most.
LEMMA TransmitKeeps ==
    ASSUME IInv, Transmit
    PROVE  IInv' /\ InFlight' <= InFlight + 1
  <1> DEFINE report == KeyReport(counter)
             frame  == FrameOf(report)
             pushed == Rf!Push(rf, frame)
  <1>1. /\ sealed' = sealed \union {report} /\ pc = "send" /\ pc' = "drain"
        /\ UNCHANGED <<flow, keys, attempt, counter, acked, accepted>>
        /\ rf' = Rf!Advance(pushed, Pace)
    BY SealIsFrameOf DEF Transmit, IInv
  <1>2. Carried \subseteq Carried' /\ frame \in Carried'
    BY <1>1 DEF Carried
  <1>3. rf \in Radio!Radios(Carried') /\ TimeMax \in Nat
    BY <1>2, Facts, Clock, Radio!RadiosGrow
  <1>4. /\ pushed \in Radio!Radios(Carried') /\ pushed.config = rf.config
        /\ pushed.now_ms = rf.now_ms
        /\ Radio!Copies(pushed.queue, frame) \in Nat
        /\ Radio!Copies(pushed.queue, frame) <= InFlight + 1
    <2>1. pushed = Radio!Push(rf, frame)
      BY SameRadio
    <2> HIDE DEF pushed, frame
    <2>2. /\ pushed \in Radio!Radios(Carried') /\ pushed.config = rf.config
          /\ pushed.now_ms = rf.now_ms
          /\ Radio!Copies(pushed.queue, frame) \in Nat
          /\ Radio!Copies(pushed.queue, frame) <=
                Radio!Copies(rf.queue, frame) + IF frame = frame THEN 1 ELSE 0
      BY <1>2, <1>3, <2>1, Clock, Radio!PushOutcome
    <2>3. QED
      BY <2>2 DEF InFlight, frame
  <1>5. Pace \in Nat /\ Pace <= flow.step
    BY Facts DEF Pace
  <1> HIDE DEF pushed
  <1>6. /\ rf' \in Radio!Radios(Carried') /\ rf'.config = rf.config
        /\ rf'.queue = pushed.queue /\ rf'.now_ms <= rf.now_ms + Pace
    <2>1. rf' = Radio!Advance(pushed, Pace)
      BY <1>1, SameRadio
    <2>2. QED
      BY <1>3, <1>4, <1>5, <2>1, Clock, Radio!AdvanceOutcome
  <1>7. rf'.now_ms \in Nat
    BY <1>3, <1>6 DEF Radio!Radios, Radio!Time
  <1>8. Sent' = Sent + 1 /\ accepted' = accepted /\ flow' = flow
    BY <1>1, Facts DEF Sent
  <1>9. Types'
    BY <1>1, <1>6 DEF IInv, Types
  <1>10. Started'
    BY <1>1 DEF IInv, Started
  <1>11. InFlight' \in Nat /\ InFlight' <= InFlight + 1
    BY <1>1, <1>4, <1>6 DEF InFlight
  <1>12. Counted'
    <2>1. rf'.now_ms <= (Sent + accepted + 1) * flow.step
      BY <1>5, <1>6, <1>7, Facts, OneStepMore DEF IInv, Counted
    <2>2. (Sent + 1 + accepted) = Sent + accepted + 1
      BY Facts
    <2>3. accepted + InFlight <= Sent
      BY DEF IInv, Counted
    <2>4. QED
      BY <1>8, <1>11, <2>1, <2>2, <2>3, Facts DEF Counted
  <1>13. Answered'
    <2>1. Sealable' = Sealable /\ report \in Sealable
      BY <1>1 DEF Sealable, KeyReport, Ack, KeepAlive, Packet
    <2>2. QED
      BY <1>1, <2>1 DEF IInv, Answered
  <1>14. QED
    BY <1>9, <1>10, <1>11, <1>12, <1>13 DEF IInv

\* What comes off the radio was sealed, and is gone from it.
LEMMA PopKeeps ==
    ASSUME IInv, Rf!Deliverable(rf) # {}
    PROVE  /\ Rf!Popped(rf) \in Carried
           /\ Rf!Pop(rf) \in Radio!Radios(Carried)
           /\ Rf!Pop(rf).config = rf.config /\ Rf!Pop(rf).now_ms = rf.now_ms
           /\ \A other :
                /\ Radio!Copies(Rf!Pop(rf).queue, other) \in Nat
                /\ Radio!Copies(rf.queue, other) =
                     IF other = Rf!Popped(rf) THEN Radio!Copies(Rf!Pop(rf).queue, other) + 1
                     ELSE Radio!Copies(Rf!Pop(rf).queue, other)
  <1>1. rf \in Radio!Radios(Carried) /\ Radio!Deliverable(rf) # {}
    BY SameRadio DEF IInv, Types
  <1>2. Rf!Pop(rf) = Radio!Pop(rf) /\ Rf!Popped(rf) = Radio!Popped(rf)
    BY SameRadio
  <1>3. QED
    BY <1>1, <1>2, Clock, Radio!PopOutcome

\* The answers that the receiver may push.
Answers ==
    {<<>>, <<Ack(counter + 1, counter)>>,
     <<Ack(counter + 1, counter), KeepAlive(counter + 2)>>}

\* What is answered to a report.
LEMMA AnswerIs ==
    ASSUME IInv
    PROVE  Answer(KeyReport(counter)) \in Answers
  <1>1. KeyReport(counter).counter = counter /\ Ack(counter + 1, counter).counter = counter + 1
        /\ counter \in Nat
    BY CountersDiffer, Facts
  <1>2. Ack(counter + 1, counter).counter + 1 = counter + 2
    BY <1>1
  <1>3. QED
    BY <1>1, <1>2 DEF Answer, Answers

\* Pushing one answer adds no copy of the report.
LEMMA PushOneAnswer ==
    ASSUME IInv, NEW Frames, NEW radio \in Radio!Radios(Frames),
           NEW packet \in {Ack(counter + 1, counter), KeepAlive(counter + 2)},
           FrameOf(packet) \in Frames
    PROVE  /\ Rf!Push(radio, Seal(packet)) \in Radio!Radios(Frames)
           /\ Rf!Push(radio, Seal(packet)).config = radio.config
           /\ Rf!Push(radio, Seal(packet)).now_ms = radio.now_ms
           /\ Radio!Copies(Rf!Push(radio, Seal(packet)).queue, FrameOf(KeyReport(counter))) <=
                Radio!Copies(radio.queue, FrameOf(KeyReport(counter)))
           /\ Radio!Copies(Rf!Push(radio, Seal(packet)).queue, FrameOf(KeyReport(counter))) \in Nat
           /\ Radio!Copies(radio.queue, FrameOf(KeyReport(counter))) \in Nat
  <1> DEFINE frame  == FrameOf(packet)
             report == FrameOf(KeyReport(counter))
             after  == Radio!Push(radio, frame)
  <1>1. Rf!Push(radio, Seal(packet)) = after
    BY SameRadio, SealIsFrameOf DEF IInv
  <1>2. report # frame
    BY Facts, CountersDiffer
  <1> HIDE DEF frame, report, after
  <1>3. /\ after \in Radio!Radios(Frames) /\ after.config = radio.config
        /\ after.now_ms = radio.now_ms
        /\ Radio!Copies(radio.queue, report) \in Nat
        /\ Radio!Copies(after.queue, report) \in Nat
        /\ Radio!Copies(after.queue, report) <=
              Radio!Copies(radio.queue, report) + IF report = frame THEN 1 ELSE 0
    BY Clock, Radio!PushOutcome DEF after, frame
  <1>4. QED
    BY <1>1, <1>2, <1>3 DEF report

\* Nor does pushing all of them.
LEMMA PushAnswers ==
    ASSUME IInv, NEW Frames, NEW radio \in Radio!Radios(Frames), NEW answer \in Answers,
           \A i \in DOMAIN answer : FrameOf(answer[i]) \in Frames,
           Radio!Copies(radio.queue, FrameOf(KeyReport(counter))) \in Nat
    PROVE  /\ PushAll(radio, answer) \in Radio!Radios(Frames)
           /\ PushAll(radio, answer).config = radio.config
           /\ PushAll(radio, answer).now_ms = radio.now_ms
           /\ Radio!Copies(PushAll(radio, answer).queue, FrameOf(KeyReport(counter))) <=
                Radio!Copies(radio.queue, FrameOf(KeyReport(counter)))
           /\ Radio!Copies(PushAll(radio, answer).queue, FrameOf(KeyReport(counter))) \in Nat
  <1> DEFINE ack    == Ack(counter + 1, counter)
             keep   == KeepAlive(counter + 2)
             report == FrameOf(KeyReport(counter))
             one    == Rf!Push(radio, Seal(ack))
             two    == Rf!Push(one, Seal(keep))
  <1>1. CASE answer = <<>>
    <2>1. PushAll(radio, answer) = radio
      BY <1>1 DEF PushAll
    <2>2. QED
      BY <2>1
  <1>2. ASSUME FrameOf(ack) \in Frames
        PROVE  /\ one \in Radio!Radios(Frames) /\ one.config = radio.config
               /\ one.now_ms = radio.now_ms
               /\ Radio!Copies(one.queue, report) <= Radio!Copies(radio.queue, report)
               /\ Radio!Copies(one.queue, report) \in Nat
    BY <1>2, PushOneAnswer
  <1>3. ASSUME FrameOf(ack) \in Frames, FrameOf(keep) \in Frames
        PROVE  /\ two \in Radio!Radios(Frames) /\ two.config = one.config
               /\ two.now_ms = one.now_ms
               /\ Radio!Copies(two.queue, report) <= Radio!Copies(one.queue, report)
               /\ Radio!Copies(two.queue, report) \in Nat
    <2>1. one \in Radio!Radios(Frames)
      BY <1>2, <1>3
    <2> HIDE DEF one
    <2>2. QED
      BY <1>3, <2>1, PushOneAnswer
  <1>4. CASE answer = <<ack>>
    <2>1. PushAll(radio, answer) = one
      BY <1>4 DEF PushAll
    <2>2. FrameOf(ack) \in Frames
      BY <1>4
    <2> HIDE DEF one, ack, report
    <2>3. QED
      BY <1>2, <2>1, <2>2 DEF report
  <1>5. CASE answer = <<ack, keep>>
    <2>1. PushAll(radio, answer) = two
      BY <1>5 DEF PushAll
    <2>2. FrameOf(ack) \in Frames /\ FrameOf(keep) \in Frames
      BY <1>5
    <2> HIDE DEF one, two, ack, keep, report
    <2>3. QED
      BY <1>2, <1>3, <2>1, <2>2 DEF report
  <1>6. QED
    BY <1>1, <1>4, <1>5 DEF Answers

\* A copy of the report that comes in is always accepted, and answered.
LEMMA ReportAnswered ==
    ASSUME IInv, ReceiveReport
    PROVE  LET report == KeyReport(counter)
               answer == Answer(report)
           IN  /\ pc = "drain" /\ Rf!Deliverable(rf) # {}
               /\ Rf!Popped(rf) = FrameOf(report) /\ report \in sealed
               /\ rf' = Rf!Advance(PushAll(Rf!Pop(rf), answer), flow.step)
               /\ sealed' = sealed \union {answer[i] : i \in DOMAIN answer}
               /\ accepted' = accepted + 1
               /\ UNCHANGED <<flow, keys, pc, attempt, counter, acked>>
               /\ answer \in Answers /\ Rf!Pop(rf) \in Radio!Radios(Carried')
               /\ \A i \in DOMAIN answer : FrameOf(answer[i]) \in Carried'
  <1> DEFINE report == KeyReport(counter)
             frame  == Rf!Popped(rf)
             popped == Rf!Pop(rf)
             answer == Answer(report)
  <1>1. pc = "drain" /\ Rf!Deliverable(rf) # {} /\ Opens(frame, counter)
    BY DEF ReceiveReport, Incoming
  <1>2. frame \in Carried /\ popped \in Radio!Radios(Carried)
    BY <1>1, PopKeeps
  <1>3. frame = FrameOf(report) /\ frame.packet = report /\ report \in sealed
    <2>1. frame = FrameOf(report)
      BY <1>1, <1>2, WhatOpens
    <2>2. frame.packet = report
      BY <2>1 DEF FrameOf
    <2>3. QED
      BY <1>2, <2>1, <2>2, WhatOpens
  <1> HIDE DEF frame
  <1>4. V!Validate(frame.packet, SessionId, LastSeen) = "Ok"
    BY <1>3, Facts, ReportIsValid DEF LastSeen
  <1>5. /\ rf' = Rf!Advance(PushAll(popped, answer), flow.step)
        /\ sealed' = sealed \union {answer[i] : i \in DOMAIN answer}
        /\ accepted' = accepted + 1
        /\ UNCHANGED <<flow, keys, pc, attempt, counter, acked>>
    BY <1>3, <1>4 DEF ReceiveReport, frame
  <1>6. answer \in Answers
    BY AnswerIs
  <1> HIDE DEF answer, popped
  <1>7. Carried \subseteq Carried' /\ \A i \in DOMAIN answer : FrameOf(answer[i]) \in Carried'
    BY <1>5 DEF Carried
  <1>8. popped \in Radio!Radios(Carried')
    BY <1>2, <1>7, Clock, Radio!RadiosGrow
  <1>9. QED
    BY <1>1, <1>3, <1>5, <1>6, <1>7, <1>8 DEF frame, popped, answer

\* With a copy accepted there is one less to come.
LEMMA ReceiveReportKeeps ==
    ASSUME IInv, ReceiveReport
    PROVE  IInv' /\ pc = "drain" /\ pc' = pc /\ accepted' = accepted + 1
           /\ accepted' <= MaxRetransmit + 1 /\ InFlight' + 1 <= InFlight
  <1> DEFINE report == KeyReport(counter)
             popped == Rf!Pop(rf)
             answer == Answer(report)
             pushed == PushAll(popped, answer)
             copies(radio) == Radio!Copies(radio.queue, FrameOf(report))
  <1>1. /\ pc = "drain" /\ Rf!Deliverable(rf) # {}
        /\ Rf!Popped(rf) = FrameOf(report) /\ report \in sealed
        /\ rf' = Rf!Advance(pushed, flow.step)
        /\ sealed' = sealed \union {answer[i] : i \in DOMAIN answer}
        /\ accepted' = accepted + 1
        /\ UNCHANGED <<flow, keys, pc, attempt, counter, acked>>
        /\ answer \in Answers /\ popped \in Radio!Radios(Carried')
        /\ \A i \in DOMAIN answer : FrameOf(answer[i]) \in Carried'
    BY ReportAnswered
  <1>2. popped.config = rf.config /\ popped.now_ms = rf.now_ms
    BY <1>1, PopKeeps
  <1>3. copies(popped) \in Nat /\ copies(popped) + 1 = InFlight
    BY <1>1, PopKeeps DEF InFlight
  <1> HIDE DEF answer, popped
  <1>4. /\ pushed \in Radio!Radios(Carried') /\ pushed.config = rf.config
        /\ pushed.now_ms = rf.now_ms
        /\ copies(pushed) \in Nat /\ copies(pushed) <= copies(popped)
    BY <1>1, <1>2, <1>3, PushAnswers
  <1> HIDE DEF pushed
  <1>5. /\ rf' \in Radio!Radios(Carried') /\ rf'.config = rf.config
        /\ rf'.queue = pushed.queue /\ rf'.now_ms <= rf.now_ms + flow.step
    <2>1. rf' = Radio!Advance(pushed, flow.step)
      BY <1>1, SameRadio
    <2>2. flow.step \in Nat
      BY Facts
    <2>3. QED
      BY <1>4, <2>1, <2>2, Clock, Radio!AdvanceOutcome
  <1>6. rf'.now_ms \in Nat
    BY <1>5, Clock DEF Radio!Radios, Radio!Time
  <1>7. Sent' = Sent /\ Sent = attempt + 1
    BY <1>1 DEF Sent
  <1>8. accepted + InFlight <= Sent /\ rf.now_ms <= (Sent + accepted) * flow.step
    BY DEF IInv, Counted
  <1>9. Types'
    BY <1>1, <1>5, Facts DEF IInv, Types
  <1>10. Started'
    BY <1>1 DEF IInv, Started
  <1>11. InFlight' \in Nat /\ InFlight' + 1 <= InFlight
    <2>1. InFlight' = copies(pushed)
      BY <1>1, <1>5 DEF InFlight, KeyReport, Packet
    <2>2. QED
      BY <1>3, <1>4, <2>1, Facts
  <1>12. Counted'
    <2>1. rf'.now_ms <= (Sent + accepted + 1) * flow.step
      BY <1>5, <1>6, <1>8, Facts, OneStepMore
    <2>2. Sent + (accepted + 1) = Sent + accepted + 1
      BY Facts
    <2>3. accepted + 1 + InFlight' <= Sent
      BY <1>8, <1>11, Facts
    <2>4. QED
      BY <1>1, <1>7, <1>11, <2>1, <2>2, <2>3 DEF Counted
  <1>13. Answered'
    <2>1. accepted' > 0
      BY <1>1, Facts
    <2>2. Sealable' = {report, Ack(counter + 1, counter), KeepAlive(counter + 2)}
      BY <1>1, <2>1 DEF Sealable, KeyReport, Ack, KeepAlive, Packet
    <2>3. sealed \subseteq Sealable'
      BY <2>2 DEF IInv, Answered, Sealable
    <2>4. \A i \in DOMAIN answer : answer[i] \in Sealable'
      BY <1>1, <2>2 DEF Answers
    <2>5. sealed' \subseteq Sealable'
      BY <1>1, <2>3, <2>4
    <2>6. QED
      BY <1>1, <2>1, <2>5 DEF Answered
  <1>14. accepted' <= MaxRetransmit + 1
    BY <1>1, <1>3, <1>7, <1>8, Facts
  <1>15. QED
    BY <1>1, <1>9, <1>10, <1>11, <1>12, <1>13, <1>14 DEF IInv

\* Any other frame that is taken off the radio.
LEMMA OtherFrameKeeps ==
    ASSUME IInv, pc = "drain", Rf!Deliverable(rf) # {}, rf' = Rf!Pop(rf), acked' \in BOOLEAN,
           acked' => accepted > 0,
           UNCHANGED <<flow, keys, pc, attempt, counter, accepted, sealed>>
    PROVE  IInv' /\ InFlight' <= InFlight
  <1>1. /\ rf' \in Radio!Radios(Carried) /\ rf'.config = rf.config
        /\ rf'.now_ms = rf.now_ms
        /\ InFlight' \in Nat /\ InFlight' <= InFlight
    <2> DEFINE report == FrameOf(KeyReport(counter))
    <2>1. /\ Radio!Copies(rf'.queue, report) \in Nat
          /\ Radio!Copies(rf.queue, report) =
                IF report = Rf!Popped(rf) THEN Radio!Copies(rf'.queue, report) + 1
                ELSE Radio!Copies(rf'.queue, report)
      BY PopKeeps
    <2>2. InFlight' = Radio!Copies(rf'.queue, report)
      BY DEF InFlight, FrameOf, KeyReport, Packet
    <2> HIDE DEF report
    <2>3. InFlight = Radio!Copies(rf.queue, report)
      BY DEF InFlight, report
    <2>4. InFlight' \in Nat /\ InFlight' <= InFlight
      BY <2>1, <2>2, <2>3
    <2>5. QED
      BY <2>4, PopKeeps
  <1>2. Carried' = Carried /\ Sent' = Sent
    BY DEF Carried, Sent
  <1>3. Sealable' = Sealable
    BY DEF Sealable, KeyReport, Ack, KeepAlive, Packet
  <1>4. Types'
    BY <1>1, <1>2 DEF IInv, Types
  <1>5. Counted'
    BY <1>1, <1>2, Facts DEF IInv, Counted
  <1>6. Started' /\ Answered'
    BY <1>3 DEF IInv, Started, Answered
  <1>7. QED
    BY <1>1, <1>4, <1>5, <1>6 DEF IInv

\* The loop goes on, or ends, with what it has.
LEMMA OutcomeKeeps ==
    ASSUME IInv, Succeed \/ Retry \/ GiveUp
    PROVE  IInv' /\ InFlight' = InFlight
  <1>1. /\ UNCHANGED <<flow, keys, rf, counter, acked, accepted, sealed>>
        /\ pc = "drain"
        /\ \/ pc' = "done" /\ acked /\ attempt' = attempt
           \/ pc' = "send" /\ attempt' = attempt + 1 /\ attempt < MaxRetransmit
           \/ pc' = "failed" /\ attempt' = attempt
    BY DEF Succeed, Retry, GiveUp, Drained, MayRetry
  <1>2. Sent' = Sent
    BY <1>1, Facts DEF Sent
  <1>3. Carried' = Carried /\ Sealable' = Sealable /\ InFlight' = InFlight
    BY <1>1 DEF Carried, Sealable, InFlight, FrameOf, KeyReport, Ack, KeepAlive, Packet
  <1>4. attempt' \in 0 .. MaxRetransmit
    BY <1>1, Facts
  <1>5. Types'
    BY <1>1, <1>3, <1>4 DEF IInv, Types
  <1>6. Started' /\ Answered'
    BY <1>1, <1>3 DEF IInv, Started, Answered
  <1>7. Counted'
    BY <1>1, <1>2, <1>3 DEF IInv, Counted
  <1>8. QED
    BY <1>3, <1>5, <1>6, <1>7 DEF IInv

\* An ack that comes in was made of an acceptance.
LEMMA ReceiveAckKeeps ==
    ASSUME IInv, ReceiveAck
    PROVE  IInv' /\ InFlight' <= InFlight
  <1>1. /\ pc = "drain" /\ Rf!Deliverable(rf) # {} /\ rf' = Rf!Pop(rf) /\ acked' = TRUE
        /\ UNCHANGED <<flow, keys, pc, attempt, counter, accepted, sealed>>
        /\ Opens(Rf!Popped(rf), counter + 1)
    BY DEF ReceiveAck, Incoming, IsAck
  <1>2. accepted > 0
    BY <1>1, PopKeeps, WhatOpens
  <1>3. QED
    BY <1>1, <1>2, OtherFrameKeeps

\* A frame that is thrown away changes nothing else.
LEMMA IgnoreKeeps ==
    ASSUME IInv, IgnoreFrame
    PROVE  IInv' /\ InFlight' <= InFlight
  <1>1. /\ pc = "drain" /\ Rf!Deliverable(rf) # {} /\ rf' = Rf!Pop(rf)
        /\ UNCHANGED <<flow, keys, pc, attempt, counter, acked, accepted, sealed>>
    BY DEF IgnoreFrame, Incoming
  <1>2. acked' \in BOOLEAN /\ (acked' => accepted > 0)
    BY <1>1 DEF IInv, Types, Answered
  <1>3. QED
    BY <1>1, <1>2, OtherFrameKeeps

-----------------------------------------------------------------------------
(* What the exchange promises.                                             *)

\* A loop begins with a counter to give and an empty radio.
LEMMA BeginsWell ==
    ASSUME Init
    PROVE  IInv
  <1>1. /\ flow \in Flows /\ pc = "start" /\ attempt = 0 /\ counter = 0 /\ acked = FALSE
        /\ accepted = 0 /\ sealed = {}
    BY DEF Init
  <1>2. keys.counter \in 1 .. Threshold - 1 /\ keys \in [salt : {Salt}, counter : Keys!Counter]
    <2> DEFINE first == IF flow.resume < 1 THEN 1 ELSE flow.resume
    <2>1. first \in 1 .. Threshold - 1 /\ first \in Keys!Counter
      BY <1>1, Loops DEF Keys!Counter
    <2>2. keys = [salt |-> Salt, counter |-> first]
      BY DEF Init, Keys!Resumed, Keys!New, Keys!FirstCounter
    <2> HIDE DEF first
    <2>3. QED
      BY <2>1, <2>2
  <1>3. /\ rf \in Radio!Radios(Carried) /\ rf.config = flow.radio /\ rf.now_ms = 0
        /\ rf.queue = <<>>
    <2>1. rf = Radio!New(flow.radio) /\ flow.radio \in Radio!Config
      BY <1>1, SameRadio, Loops DEF Init
    <2>2. QED
      BY <2>1, Clock, Radio!NewOutcome
  <1>4. InFlight = 0
    BY <1>3, Clock, Radio!NoCopies DEF InFlight
  <1>5. Sent = 0 /\ flow.step \in Nat
    BY <1>1, Loops DEF Sent
  <1>6. 0 \in 0 .. MaxRetransmit /\ 0 \in 0 .. Threshold - 1
    BY Loops
  <1>7. Types
    BY <1>1, <1>2, <1>3, <1>6 DEF Types
  <1>8. Started
    BY <1>1, <1>2, <1>3 DEF Started
  <1>9. Counted
    BY <1>1, <1>3, <1>4, <1>5 DEF Counted
  <1>10. Answered
    BY <1>1 DEF Answered
  <1>11. QED
    BY <1>7, <1>8, <1>9, <1>10 DEF IInv

\* Every step of the loop keeps the invariant.
LEMMA StepKeeps ==
    ASSUME IInv, [Next]_vars
    PROVE  IInv'
  <1>1. CASE TakeCounter
    BY <1>1, TakeKeeps
  <1>2. CASE Transmit
    BY <1>2, TransmitKeeps
  <1>3. CASE ReceiveReport
    BY <1>3, ReceiveReportKeeps
  <1>4. CASE ReceiveAck
    BY <1>4, ReceiveAckKeeps
  <1>5. CASE IgnoreFrame
    BY <1>5, IgnoreKeeps
  <1>6. CASE Succeed \/ Retry \/ GiveUp
    BY <1>6, OutcomeKeeps
  <1>7. CASE UNCHANGED vars
    <2>1. UNCHANGED <<flow, keys, rf, pc, attempt, counter, acked, accepted, sealed>>
      BY <1>7 DEF vars
    <2>2. Carried' = Carried /\ Sealable' = Sealable /\ InFlight' = InFlight /\ Sent' = Sent
      BY <2>1 DEF Carried, Sealable, InFlight, Sent, FrameOf, KeyReport, Ack, KeepAlive, Packet
    <2>3. Types'
      BY <2>1, <2>2 DEF IInv, Types
    <2>4. Started' /\ Answered'
      BY <2>1, <2>2 DEF IInv, Started, Answered
    <2>5. Counted'
      BY <2>1, <2>2 DEF IInv, Counted
    <2>6. QED
      BY <2>3, <2>4, <2>5 DEF IInv
  <1>8. QED
    BY <1>1, <1>2, <1>3, <1>4, <1>5, <1>6, <1>7 DEF Next

\* The invariant holds whatever the radio drops, delays and reorders.
THEOREM ExchangeInvariant == Spec => []IInv
  <1>1. Init => IInv
    BY BeginsWell
  <1>2. IInv /\ [Next]_vars => IInv'
    BY StepKeeps
  <1>3. QED
    BY <1>1, <1>2, PTL DEF Spec

\* Every transmission and every acceptance is one of the few allowed.
LEMMA StepsAllowed ==
    ASSUME IInv
    PROVE  /\ accepted <= MaxRetransmit + 1
           /\ rf.now_ms <= 2 * (MaxRetransmit + 1) * flow.step
  <1>1. Sent <= MaxRetransmit + 1 /\ accepted <= Sent
    BY Facts DEF Sent, IInv, Counted
  <1>2. Sent + accepted \in Nat /\ 2 * (MaxRetransmit + 1) \in Nat
        /\ Sent + accepted <= 2 * (MaxRetransmit + 1)
    BY <1>1, Facts
  <1>3. \A m, n, step \in Nat : m <= n => m * step <= n * step
    <2> SUFFICES ASSUME NEW m \in Nat, NEW n \in Nat, NEW step \in Nat, m <= n
                 PROVE  m * step <= n * step
      OBVIOUS
    <2>1. PICK more \in Nat : n = m + more
      <3>1. n - m \in Nat /\ n = m + (n - m)
        OBVIOUS
      <3>2. QED
        BY <3>1
    <2>2. (m + more) * step = m * step + more * step
          /\ more * step \in Nat /\ m * step \in Nat
      OBVIOUS
    <2>3. QED
      BY <2>1, <2>2
  <1>4. (Sent + accepted) * flow.step <= (2 * (MaxRetransmit + 1)) * flow.step
    BY <1>2, <1>3, Facts
  <1>5. /\ rf.now_ms <= (Sent + accepted) * flow.step /\ rf.now_ms \in Nat
        /\ (Sent + accepted) * flow.step \in Nat /\ (2 * (MaxRetransmit + 1)) * flow.step \in Nat
    BY <1>2, Facts DEF IInv, Counted
  <1>6. QED
    BY <1>1, <1>4, <1>5, Facts

\* Every state has its types: the frames on the radio are of packets that were
\* sealed, under counters that their type holds.
THEOREM ExchangeTypeOK == Spec => []TypeOK
  <1>1. IInv => TypeOK
    <2> SUFFICES ASSUME IInv PROVE TypeOK
      OBVIOUS
    <2>1. \A packet \in sealed : FrameOf(packet) \in Frame
      <3> SUFFICES ASSUME NEW packet \in sealed
                   PROVE  FrameOf(packet) \in Frame
        OBVIOUS
      <3>1. packet \in Sealable /\ counter \in 0 .. Threshold - 1
        BY DEF IInv, Types, Answered
      <3>2. packet.counter \in {counter, counter + 1, counter + 2}
        BY <3>1, Facts, CountersDiffer DEF Sealable
      <3>3. packet.counter \in Keys!Counter
        BY <3>1, <3>2, Loops DEF Keys!Counter
      <3>4. QED
        BY <3>3 DEF FrameOf, Frame
    <2>2. rf.config = flow.radio /\ rf.now_ms \in Rf!Time /\ rf.queue \in Seq(Radio!Entries(Carried))
      BY SameRadio DEF IInv, Types, Radio!Radios
    <2>3. ASSUME NEW i \in DOMAIN rf.queue
          PROVE  rf.queue[i].deliver_at \in Rf!Time /\ rf.queue[i].frame \in Frame
      <3>1. rf.queue[i] \in Radio!Entries(Carried)
        BY <2>2
      <3>2. rf.queue[i].deliver_at \in Rf!Time /\ rf.queue[i].frame \in Carried
        BY <3>1, SameRadio DEF Radio!Entries
      <3>3. QED
        BY <2>1, <3>2 DEF Carried
    <2>4. counter \in Keys!Counter /\ accepted \in 0 .. MaxRetransmit + 1
      BY StepsAllowed, Facts, Loops DEF IInv, Types, Keys!Counter
    <2>5. QED
      BY <2>2, <2>3, <2>4 DEF IInv, Types, TypeOK
  <1>2. QED
    BY <1>1, ExchangeInvariant, PTL

\* The single retry without backoff keeps the latency within one step for every
\* transmission and one for every copy accepted, whatever the radio does.
THEOREM LatencyAlwaysBounded == Spec => []LatencyBounded
  <1>1. IInv => LatencyBounded
    BY StepsAllowed DEF LatencyBounded
  <1>2. QED
    BY <1>1, ExchangeInvariant, PTL

\* No push of a loop ever overflows, so that the loop's pushes need no panic.
THEOREM PushNeverPanics == Spec => []~Rf!PushPanics(rf)
  <1>1. IInv => ~Rf!PushPanics(rf)
    <2> SUFFICES ASSUME IInv PROVE ~(rf.now_ms + rf.config.jitter_ms > TimeMax)
      BY DEF Rf!PushPanics
    <2> DEFINE limit == 2 * (MaxRetransmit + 1) * flow.step
    <2>1. rf.now_ms <= limit /\ limit + flow.radio.jitter_ms <= TimeMax
      BY StepsAllowed, Facts, Loops
    <2>2. limit \in Nat /\ flow.radio.jitter_ms \in Nat /\ rf.config = flow.radio
      BY Facts, Loops
    <2> HIDE DEF limit
    <2>3. QED
      BY <2>1, <2>2, Facts
  <1>2. QED
    BY <1>1, ExchangeInvariant, PTL

\* The packets that share a nonce are one: the retransmission is the same packet, and
\* each answer has a counter of its own.
THEOREM NonceAlwaysBinds == Spec => []NonceBindsPacket
  <1>1. IInv => NonceBindsPacket
    <2> SUFFICES ASSUME IInv, NEW one \in sealed, NEW other \in sealed,
                        one.counter = other.counter
                 PROVE  one = other
      BY DEF NonceBindsPacket
    <2>1. {one, other} \subseteq
             {KeyReport(counter), Ack(counter + 1, counter), KeepAlive(counter + 2)}
      BY DEF IInv, Answered, Sealable
    <2>2. counter \in Nat
      BY Facts
    <2>3. QED
      BY <2>1, <2>2, CountersDiffer
  <1>2. QED
    BY <1>1, ExchangeInvariant, PTL

\* Every step of the loop is one that DeliveryPromise allows, or none: delivered at
\* most once for every transmission, acked only after a delivery, and nothing after
\* the outcome.  In particular the receiver's expect never fires.
THEOREM ExchangeKeepsPromise ==
    Spec => Promise!Init /\ [][Promise!Next]_(Promise!promiseVars)
  <1> DEFINE result == IF pc = "done" THEN "acked"
                       ELSE IF pc \in {"failed", "panicked"} THEN pc ELSE "open"
  <1>1. Init => Promise!Init
    BY DEF Init, Promise!Init
  <1>2. IInv /\ [Next]_vars => [Promise!Next]_(Promise!promiseVars)
    <2> SUFFICES ASSUME IInv, [Next]_vars
                 PROVE  Promise!Next \/ UNCHANGED <<accepted, result>>
      BY DEF Promise!promiseVars
    <2>1. CASE TakeCounter \/ Transmit
      BY <2>1 DEF TakeCounter, Transmit
    <2>2. CASE ReceiveReport
      <3>1. pc = "drain" /\ pc' = pc /\ accepted' = accepted + 1
            /\ accepted' <= MaxRetransmit + 1
        BY <2>2, ReceiveReportKeeps
      <3>2. accepted < MaxRetransmit + 1
        BY <3>1, Facts
      <3>3. Promise!Deliver
        BY <3>1, <3>2 DEF Promise!Deliver
      <3>4. QED
        BY <3>3 DEF Promise!Next
    <2>3. CASE ReceiveAck \/ IgnoreFrame
      BY <2>3 DEF ReceiveAck, IgnoreFrame
    <2>4. CASE Succeed
      <3>1. accepted > 0 /\ pc = "drain" /\ pc' = "done" /\ accepted' = accepted
        BY <2>4 DEF Succeed, Drained, IInv, Answered
      <3>2. Promise!Acknowledge
        BY <3>1 DEF Promise!Acknowledge
      <3>3. QED
        BY <3>2 DEF Promise!Next
    <2>5. CASE Retry
      BY <2>5 DEF Retry, Drained
    <2>6. CASE GiveUp
      <3>1. pc = "drain" /\ pc' = "failed" /\ accepted' = accepted
        BY <2>6 DEF GiveUp, Drained
      <3>2. Promise!Fail
        BY <3>1 DEF Promise!Fail
      <3>3. QED
        BY <3>2 DEF Promise!Next
    <2>7. CASE UNCHANGED vars
      BY <2>7 DEF vars
    <2>8. QED
      BY <2>1, <2>2, <2>3, <2>4, <2>5, <2>6, <2>7 DEF Next
  <1>3. QED
    BY <1>1, <1>2, ExchangeInvariant, PTL DEF Spec

-----------------------------------------------------------------------------
(* The ack.  When the report has been retransmitted, whatever is on the    *)
(* radio is due before it is drained, and one thing on it is owed.         *)

ReportFrame == FrameOf(KeyReport(counter))

AckFrame == FrameOf(Ack(counter + 1, counter))

\* All that is on the radio is due within the jitter; after a retransmission, which
\* waits out the jitter, it is due.
Due ==
    /\ Radio!DueBy(rf.queue, rf.now_ms + flow.radio.jitter_ms)
    /\ Paced /\ attempt > 0 /\ pc = "drain" => Radio!DueBy(rf.queue, rf.now_ms)

\* The one frame that a radio drops is the first; so a retransmitted report is on the
\* radio until it is answered, and its ack until the sender has it.
Owed ==
    /\ Sent > 0 => rf.first_frame_seen
    /\ attempt > 0 /\ pc = "drain" =>
          acked \/ Radio!On(rf.queue, ReportFrame) \/ Radio!On(rf.queue, AckFrame)

\* A loop that lets jitter pass can only give up if it may not retransmit at all.
GaveUp == pc = "failed" => attempt = MaxRetransmit /\ ~(Paced /\ attempt > 0)

OInv == Due /\ Owed /\ GaveUp

\* What becomes of a radio when frames are pushed on it.
Grown(radio, after, Frames) ==
    /\ after \in Radio!Radios(Frames)
    /\ after.config = radio.config /\ after.now_ms = radio.now_ms
    /\ radio.first_frame_seen => after.first_frame_seen
    /\ \A other : Radio!On(radio.queue, other) => Radio!On(after.queue, other)
    /\ \A t \in Nat :
          Radio!DueBy(radio.queue, t) /\ radio.now_ms + radio.config.jitter_ms <= t
             => Radio!DueBy(after.queue, t)

\* Pushing a packet: the frame is on the radio, unless it is the first.
LEMMA PushGrows ==
    ASSUME Types, NEW Frames, NEW radio \in Radio!Radios(Frames), NEW packet,
           FrameOf(packet) \in Frames
    PROVE  LET after == Rf!Push(radio, Seal(packet))
           IN  /\ Grown(radio, after, Frames) /\ after.first_frame_seen
               /\ radio.first_frame_seen => Radio!On(after.queue, FrameOf(packet))
               /\ Len(after.queue) <= Len(radio.queue) + 1
  <1> DEFINE frame == FrameOf(packet)
             after == Radio!Push(radio, frame)
  <1>1. Rf!Push(radio, Seal(packet)) = after
    BY SameRadio, SealIsFrameOf
  <1> HIDE DEF frame, after
  <1>2. /\ after \in Radio!Radios(Frames)
        /\ after.config = radio.config /\ after.now_ms = radio.now_ms
    BY Clock, Radio!PushOutcome DEF frame, after
  <1>3. /\ \A other : Radio!On(radio.queue, other) => Radio!On(after.queue, other)
        /\ ~Radio!DropsNext(radio) => Radio!On(after.queue, frame)
        /\ \A t \in Nat :
              Radio!DueBy(radio.queue, t) /\ radio.now_ms + radio.config.jitter_ms <= t
                 => Radio!DueBy(after.queue, t)
    BY Clock, Radio!PushEntries DEF frame, after
  <1>4. /\ after.first_frame_seen = TRUE
        /\ Radio!DropsNext(radio) => Len(after.queue) = Len(radio.queue)
        /\ ~Radio!DropsNext(radio) => Len(after.queue) = Len(radio.queue) + 1
    BY Clock, Radio!PushLength DEF frame, after
  <1>5. Len(after.queue) <= Len(radio.queue) + 1
    <2>1. Len(radio.queue) \in Nat
      BY DEF Radio!Radios
    <2>2. QED
      BY <1>4, <2>1
  <1>6. radio.first_frame_seen => ~Radio!DropsNext(radio)
    BY DEF Radio!DropsNext
  <1>7. Grown(radio, after, Frames)
    BY <1>2, <1>3, <1>4 DEF Grown
  <1>8. QED
    BY <1>1, <1>3, <1>4, <1>5, <1>6, <1>7 DEF frame

\* Pushing twice.
LEMMA GrownTwice ==
    ASSUME NEW radio, NEW one, NEW two, NEW Frames,
           Grown(radio, one, Frames), Grown(one, two, Frames)
    PROVE  Grown(radio, two, Frames)
  BY DEF Grown

\* Pushing an answer: its ack comes first.
LEMMA AnswersGrow ==
    ASSUME IInv, NEW Frames, NEW radio \in Radio!Radios(Frames), NEW answer \in Answers,
           \A i \in DOMAIN answer : FrameOf(answer[i]) \in Frames
    PROVE  LET after == PushAll(radio, answer)
           IN  /\ Grown(radio, after, Frames)
               /\ answer # <<>> /\ radio.first_frame_seen => Radio!On(after.queue, AckFrame)
               /\ Len(after.queue) <= Len(radio.queue) + 2
  <1> DEFINE ack  == Ack(counter + 1, counter)
             keep == KeepAlive(counter + 2)
             one  == Rf!Push(radio, Seal(ack))
             two  == Rf!Push(one, Seal(keep))
  <1>1. Len(radio.queue) \in Nat
    BY DEF Radio!Radios
  <1>2. CASE answer = <<>>
    <2>1. PushAll(radio, answer) = radio
      BY <1>2 DEF PushAll
    <2>2. Grown(radio, radio, Frames)
      BY DEF Grown
    <2>3. QED
      BY <1>1, <1>2, <2>1, <2>2
  <1>3. ASSUME FrameOf(ack) \in Frames
        PROVE  /\ Grown(radio, one, Frames) /\ one \in Radio!Radios(Frames)
               /\ radio.first_frame_seen => Radio!On(one.queue, AckFrame)
               /\ Len(one.queue) <= Len(radio.queue) + 1 /\ Len(one.queue) \in Nat
    <2>1. /\ Grown(radio, one, Frames)
          /\ radio.first_frame_seen => Radio!On(one.queue, FrameOf(ack))
          /\ Len(one.queue) <= Len(radio.queue) + 1
      BY <1>3, PushGrows DEF IInv
    <2>2. one \in Radio!Radios(Frames)
      BY <2>1 DEF Grown
    <2>3. Len(one.queue) \in Nat
      BY <2>2 DEF Radio!Radios
    <2>4. QED
      BY <2>1, <2>2, <2>3 DEF AckFrame
  <1>4. CASE answer = <<ack>>
    <2>1. PushAll(radio, answer) = one
      BY <1>4 DEF PushAll
    <2>2. FrameOf(ack) \in Frames
      BY <1>4
    <2> HIDE DEF one, ack
    <2>3. QED
      BY <1>1, <1>3, <2>1, <2>2
  <1>5. CASE answer = <<ack, keep>>
    <2>1. PushAll(radio, answer) = two
      BY <1>5 DEF PushAll
    <2>2. FrameOf(ack) \in Frames /\ FrameOf(keep) \in Frames
      BY <1>5
    <2>3. /\ Grown(radio, one, Frames) /\ one \in Radio!Radios(Frames)
          /\ radio.first_frame_seen => Radio!On(one.queue, AckFrame)
          /\ Len(one.queue) <= Len(radio.queue) + 1 /\ Len(one.queue) \in Nat
      BY <1>3, <2>2
    <2> HIDE DEF one
    <2>4. Grown(one, two, Frames) /\ Len(two.queue) <= Len(one.queue) + 1
      BY <2>2, <2>3, PushGrows DEF IInv
    <2> HIDE DEF two, ack, keep
    <2>5. Grown(radio, two, Frames)
      BY <2>3, <2>4, GrownTwice
    <2>6. two \in Radio!Radios(Frames) /\ \A other : Radio!On(one.queue, other) => Radio!On(two.queue, other)
      BY <2>4 DEF Grown
    <2>7. Len(two.queue) \in Nat
      BY <2>6 DEF Radio!Radios
    <2>8. Len(two.queue) <= Len(radio.queue) + 2
      BY <1>1, <2>3, <2>4, <2>7
    <2>9. QED
      BY <2>1, <2>3, <2>5, <2>6, <2>8
  <1>6. QED
    BY <1>2, <1>4, <1>5 DEF Answers

\* What was within the jitter of the clock is so when frames have been pushed and the
\* clock has moved, and is due if the clock has moved by the jitter.
LEMMA WaitedDue ==
    ASSUME IInv, NEW Frames, NEW radio \in Radio!Radios(Frames), NEW after, NEW delta \in Nat,
           radio.config = flow.radio, Grown(radio, after, Frames),
           Radio!DueBy(radio.queue, radio.now_ms + flow.radio.jitter_ms)
    PROVE  LET then == Rf!Advance(after, delta)
           IN  /\ then.queue = after.queue /\ then.first_frame_seen = after.first_frame_seen
               /\ Radio!DueBy(then.queue, then.now_ms + flow.radio.jitter_ms)
               /\ flow.radio.jitter_ms <= delta => Radio!DueBy(then.queue, then.now_ms)
  <1> DEFINE jitter == flow.radio.jitter_ms
             then   == Radio!Advance(after, delta)
  <1>1. Rf!Advance(after, delta) = then
    BY SameRadio
  <1>2. jitter \in Nat /\ radio.now_ms \in Nat
    BY Facts, Loops DEF Radio!Radios, Radio!Time
  <1>3. after \in Radio!Radios(Frames) /\ after.now_ms = radio.now_ms
    BY DEF Grown
  <1>4. Radio!DueBy(after.queue, after.now_ms + jitter)
    <2>1. radio.now_ms + jitter \in Nat
      BY <1>2
    <2>2. QED
      BY <1>2, <1>3, <2>1 DEF Grown
  <1> HIDE DEF jitter
  <1>5. /\ Radio!DueBy(then.queue, then.now_ms + jitter)
        /\ jitter <= delta => Radio!DueBy(then.queue, then.now_ms)
    BY <1>2, <1>3, <1>4, Clock, Radio!AdvanceDue
  <1>6. then.queue = after.queue /\ then.first_frame_seen = after.first_frame_seen
    BY <1>3, Clock, Radio!AdvanceOutcome
  <1> HIDE DEF then
  <1>7. QED
    BY <1>1, <1>5, <1>6 DEF jitter

\* A retransmission is not dropped, and all is due when its step is over.
LEMMA TransmitOwes ==
    ASSUME IInv, OInv, Transmit
    PROVE  OInv' /\ Len(rf'.queue) <= Len(rf.queue) + 1
  <1> DEFINE report == KeyReport(counter)
             pushed == Rf!Push(rf, Seal(report))
  <1>1. /\ rf' = Rf!Advance(pushed, Pace)
        /\ sealed' = sealed \union {report} /\ pc = "send" /\ pc' = "drain"
        /\ UNCHANGED <<flow, keys, attempt, counter, acked, accepted>>
    BY DEF Transmit
  <1>2. FrameOf(report) \in Carried' /\ Carried \subseteq Carried'
    BY <1>1 DEF Carried
  <1>3. rf \in Radio!Radios(Carried') /\ rf.config = flow.radio
    BY <1>2, Facts, Clock, Radio!RadiosGrow
  <1>4. /\ Grown(rf, pushed, Carried') /\ pushed.first_frame_seen
        /\ rf.first_frame_seen => Radio!On(pushed.queue, FrameOf(report))
        /\ Len(pushed.queue) <= Len(rf.queue) + 1
    BY <1>2, <1>3, PushGrows DEF IInv
  <1> HIDE DEF pushed
  <1>5. Pace \in Nat /\ (attempt > 0 => Pace = flow.step)
    BY Facts DEF Pace
  <1>6. /\ rf'.queue = pushed.queue /\ rf'.first_frame_seen = pushed.first_frame_seen
        /\ Radio!DueBy(rf'.queue, rf'.now_ms + flow.radio.jitter_ms)
        /\ flow.radio.jitter_ms <= Pace => Radio!DueBy(rf'.queue, rf'.now_ms)
    <2>1. /\ Grown(rf, pushed, Carried') /\ Pace \in Nat
          /\ Radio!DueBy(rf.queue, rf.now_ms + flow.radio.jitter_ms)
      BY <1>4, <1>5 DEF OInv, Due
    <2>2. rf' = Rf!Advance(pushed, Pace)
      BY <1>1
    <2>3. QED
      BY <1>3, <2>1, <2>2, WaitedDue, SMTT(30)
  <1>7. Due'
    BY <1>1, <1>5, <1>6 DEF Due, Paced
  <1>8. attempt > 0 => Radio!On(rf'.queue, ReportFrame)
    BY <1>1, <1>4, <1>6, Facts DEF OInv, Owed, Sent, ReportFrame
  <1>9. ReportFrame' = ReportFrame
    BY <1>1 DEF ReportFrame, FrameOf, KeyReport, Packet
  <1>10. Owed'
    BY <1>1, <1>4, <1>6, <1>8, <1>9 DEF Owed
  <1>11. GaveUp'
    BY <1>1 DEF GaveUp
  <1>12. QED
    BY <1>4, <1>6, <1>7, <1>10, <1>11 DEF OInv

\* A report that is taken off the radio is answered, but for the first attempt, and
\* the answer is due when its step is over.
LEMMA ReceiveReportOwes ==
    ASSUME IInv, OInv, ReceiveReport
    PROVE  OInv' /\ Len(rf'.queue) <= Len(rf.queue) + 1
  <1> DEFINE report == KeyReport(counter)
             popped == Rf!Pop(rf)
             answer == Answer(report)
             pushed == PushAll(popped, answer)
  <1>1. /\ pc = "drain" /\ Rf!Deliverable(rf) # {}
        /\ rf' = Rf!Advance(pushed, flow.step)
        /\ UNCHANGED <<flow, keys, pc, attempt, counter, acked>>
        /\ answer \in Answers /\ popped \in Radio!Radios(Carried')
        /\ \A i \in DOMAIN answer : FrameOf(answer[i]) \in Carried'
    BY ReportAnswered
  <1>2. attempt > 0 => answer # <<>>
    BY Facts DEF Answer
  <1>3. /\ popped.config = flow.radio /\ popped.now_ms = rf.now_ms
        /\ Radio!DueBy(popped.queue, rf.now_ms + flow.radio.jitter_ms)
        /\ Len(popped.queue) = Len(rf.queue) - 1
        /\ popped.first_frame_seen
    <2>1. popped = Radio!Pop(rf) /\ Radio!Deliverable(rf) # {}
      BY <1>1, SameRadio
    <2> HIDE DEF popped
    <2>2. /\ Len(popped.queue) = Len(rf.queue) - 1
          /\ popped.first_frame_seen = rf.first_frame_seen
      BY <2>1, Facts, Clock, Radio!PopLength
    <2>3. \A t \in Nat : Radio!DueBy(rf.queue, t) => Radio!DueBy(popped.queue, t)
      BY <2>1, Facts, Clock, Radio!PopEntries
    <2>4. rf.now_ms + flow.radio.jitter_ms \in Nat
      BY Facts, Loops
    <2>5. popped.config = rf.config /\ popped.now_ms = rf.now_ms
      BY <1>1, PopKeeps DEF popped
    <2>6. Sent > 0
      BY <1>1, Facts DEF Sent
    <2>7. QED
      BY <2>2, <2>3, <2>4, <2>5, <2>6, Facts DEF OInv, Due, Owed
  <1> HIDE DEF answer, popped
  <1>4. /\ Grown(popped, pushed, Carried')
        /\ answer # <<>> /\ popped.first_frame_seen => Radio!On(pushed.queue, AckFrame)
        /\ Len(pushed.queue) <= Len(popped.queue) + 2
    BY <1>1, AnswersGrow
  <1> HIDE DEF pushed
  <1>5. pushed.first_frame_seen /\ pushed \in Radio!Radios(Carried')
    BY <1>3, <1>4 DEF Grown
  <1>6. /\ rf'.queue = pushed.queue /\ rf'.first_frame_seen = pushed.first_frame_seen
        /\ Radio!DueBy(rf'.queue, rf'.now_ms + flow.radio.jitter_ms)
        /\ flow.radio.jitter_ms <= flow.step => Radio!DueBy(rf'.queue, rf'.now_ms)
    BY <1>1, <1>3, <1>4, Facts, WaitedDue
  <1>7. Due'
    BY <1>1, <1>6 DEF Due, Paced
  <1>8. AckFrame' = AckFrame
    BY <1>1 DEF AckFrame, FrameOf, Ack, Packet
  <1>9. Owed'
    BY <1>1, <1>2, <1>3, <1>4, <1>5, <1>6, <1>8 DEF Owed
  <1>10. GaveUp'
    BY <1>1 DEF GaveUp
  <1>11. Len(rf'.queue) <= Len(rf.queue) + 1
    <2>1. Len(rf.queue) \in Nat /\ Len(pushed.queue) \in Nat /\ Len(popped.queue) \in Nat
      BY <1>1, <1>5, Facts, SMTT(30) DEF Radio!Radios
    <2>2. QED
      BY <1>3, <1>4, <1>6, <2>1
  <1>12. QED
    BY <1>7, <1>9, <1>10, <1>11 DEF OInv

\* Nothing else is taken off the radio but the ack, which the sender then has.
LEMMA OtherFrameOwes ==
    ASSUME IInv, OInv, ReceiveAck \/ IgnoreFrame
    PROVE  OInv' /\ Len(rf'.queue) = Len(rf.queue) - 1
  <1>1. /\ pc = "drain" /\ Rf!Deliverable(rf) # {} /\ rf' = Rf!Pop(rf)
        /\ UNCHANGED <<flow, keys, pc, attempt, counter, accepted, sealed>>
        /\ ~Opens(Rf!Popped(rf), counter)
        /\ (acked' = TRUE \/ (acked' = acked /\ ~IsAck(Rf!Popped(rf))))
    <2>1. CASE ReceiveAck
      <3>1. ReceiveAck
        BY <2>1
      <3>2. Incoming(Rf!Popped(rf)) /\ ~Opens(Rf!Popped(rf), counter)
            /\ rf' = Rf!Pop(rf) /\ acked' = TRUE
            /\ UNCHANGED <<flow, keys, pc, attempt, counter, accepted, sealed>>
        BY <3>1 DEF ReceiveAck
      <3>3. pc = "drain" /\ Rf!Deliverable(rf) # {}
        BY <3>2 DEF Incoming
      <3>4. QED
        BY <3>2, <3>3
    <2>2. CASE IgnoreFrame
      BY <2>2 DEF IgnoreFrame, Incoming
    <2>3. QED
      BY <2>1, <2>2
  <1>2. rf' = Radio!Pop(rf) /\ Radio!Deliverable(rf) # {} /\ Rf!Popped(rf) = Radio!Popped(rf)
    BY <1>1, SameRadio
  <1>3. /\ Len(rf'.queue) = Len(rf.queue) - 1 /\ rf'.first_frame_seen = rf.first_frame_seen
    BY <1>2, Facts, Clock, Radio!PopLength
  <1>4. /\ \A other : Radio!On(rf.queue, other) /\ other # Rf!Popped(rf)
              => Radio!On(rf'.queue, other)
        /\ \A t \in Nat : Radio!DueBy(rf.queue, t) => Radio!DueBy(rf'.queue, t)
    BY <1>2, Facts, Clock, Radio!PopEntries
  <1>5. rf'.now_ms = rf.now_ms
    BY <1>1, PopKeeps
  <1>6. Due'
    <2>1. rf.now_ms \in Nat /\ rf.now_ms + flow.radio.jitter_ms \in Nat
      BY Facts, Loops
    <2>2. QED
      BY <1>1, <1>4, <1>5, <2>1 DEF OInv, Due, Paced
  <1>7. /\ Opens(ReportFrame, counter) /\ IsAck(AckFrame)
        /\ ReportFrame' = ReportFrame /\ AckFrame' = AckFrame
    <2>1. keys.salt = Salt
      BY DEF IInv, Types
    <2>2. Opens(ReportFrame, counter)
      BY <2>1, Facts, CountersDiffer DEF Opens, ReportFrame, FrameOf, Keys!NonceFor, Keys!DeriveNonce
    <2>3. /\ AckFrame.packet.kind = "Ack" /\ AckFrame.packet.ack_counter = counter
          /\ AckFrame.nonce = <<Salt, counter + 1>>
      BY DEF AckFrame, FrameOf, Ack, Packet
    <2>4. IsAck(AckFrame)
      BY <2>1, <2>3 DEF IsAck, Opens, Keys!NonceFor, Keys!DeriveNonce
    <2>5. QED
      BY <1>1, <2>2, <2>4 DEF ReportFrame, AckFrame, FrameOf, KeyReport, Ack, Packet
  <1>8. Owed'
    <2>1. Sent' = Sent
      BY <1>1 DEF Sent
    <2>2. ASSUME attempt > 0
          PROVE  acked' \/ Radio!On(rf'.queue, ReportFrame) \/ Radio!On(rf'.queue, AckFrame)
      <3>1. acked \/ Radio!On(rf.queue, ReportFrame) \/ Radio!On(rf.queue, AckFrame)
        BY <1>1, <2>2 DEF OInv, Owed
      <3>2. QED
        BY <1>1, <1>4, <1>7, <3>1
    <2>3. QED
      BY <1>1, <1>3, <1>7, <2>1, <2>2 DEF OInv, Owed
  <1>9. GaveUp'
    BY <1>1 DEF GaveUp
  <1>10. QED
    BY <1>3, <1>6, <1>8, <1>9 DEF OInv

\* A loop that has retransmitted, and that waits out the jitter, does not give up: what
\* is owed would still be on a radio that has been drained.
LEMMA OutcomeOwes ==
    ASSUME IInv, OInv, Succeed \/ Retry \/ GiveUp
    PROVE  OInv'
  <1>1. /\ UNCHANGED <<flow, keys, rf, counter, acked, accepted, sealed>> /\ pc = "drain"
        /\ pc' \in {"done", "send", "failed"}
        /\ pc' = "send" => attempt' = attempt + 1
        /\ pc' = "failed" => GiveUp
    BY DEF Succeed, Retry, GiveUp, Drained
  <1>2. Due'
    BY <1>1 DEF OInv, Due, Paced
  <1>3. Owed'
    <2>1. Sent > 0
      BY <1>1, Facts DEF Sent
    <2>2. QED
      BY <1>1, <2>1 DEF OInv, Owed
  <1>4. ASSUME pc' = "failed"
        PROVE  attempt' = MaxRetransmit /\ ~(Paced /\ attempt > 0) /\ attempt' = attempt
    <2>1. ~acked /\ Rf!Deliverable(rf) = {} /\ attempt = MaxRetransmit /\ attempt' = attempt
      BY <1>1, <1>4, Facts DEF GiveUp, Drained, MayRetry
    <2>2. ASSUME Paced, attempt > 0
          PROVE  FALSE
      <3>1. Radio!DueBy(rf.queue, rf.now_ms) /\ Radio!Deliverable(rf) = {}
        BY <1>1, <2>1, <2>2, SameRadio DEF OInv, Due
      <3>2. ~Radio!On(rf.queue, ReportFrame) /\ ~Radio!On(rf.queue, AckFrame)
        BY <3>1, Clock, Radio!AllDelivered
      <3>3. QED
        BY <1>1, <2>1, <2>2, <3>2 DEF OInv, Owed
    <2>3. QED
      BY <2>1, <2>2
  <1>5. GaveUp'
    BY <1>1, <1>4 DEF GaveUp, Paced
  <1>6. QED
    BY <1>2, <1>3, <1>5 DEF OInv

\* The invariant behind the ack, whatever the radio drops or reorders.
THEOREM OwedInvariant == Spec => []OInv
  <1>1. Init => OInv
    <2> SUFFICES ASSUME Init PROVE OInv
      OBVIOUS
    <2>1. pc = "start" /\ attempt = 0 /\ rf.queue = <<>>
      BY DEF Init, Rf!New
    <2>2. QED
      BY <2>1 DEF OInv, Due, Owed, Sent, GaveUp, Radio!DueBy
  <1>2. IInv /\ OInv /\ [Next]_vars => OInv'
    <2> SUFFICES ASSUME IInv, OInv, [Next]_vars PROVE OInv'
      OBVIOUS
    <2>1. CASE TakeCounter
      <3>1. /\ pc = "start" /\ pc' = "send" /\ UNCHANGED <<flow, rf, attempt, acked>>
            /\ attempt = 0
        BY <2>1 DEF TakeCounter, IInv, Started
      <3>2. QED
        BY <3>1 DEF OInv, Due, Owed, Sent, GaveUp, Paced
    <2>2. CASE Transmit
      BY <2>2, TransmitOwes
    <2>3. CASE ReceiveReport
      BY <2>3, ReceiveReportOwes
    <2>4. CASE ReceiveAck \/ IgnoreFrame
      BY <2>4, OtherFrameOwes
    <2>5. CASE Succeed \/ Retry \/ GiveUp
      BY <2>5, OutcomeOwes
    <2>6. CASE UNCHANGED vars
      <3>1. UNCHANGED <<flow, rf, pc, attempt, counter, acked>>
        BY <2>6 DEF vars
      <3>2. QED
        BY <3>1 DEF OInv, Due, Owed, Sent, GaveUp, Paced, ReportFrame, AckFrame, FrameOf,
                    KeyReport, Ack, Packet
    <2>7. QED
      BY <2>1, <2>2, <2>3, <2>4, <2>5, <2>6 DEF Next
  <1>3. QED
    BY <1>1, <1>2, ExchangeInvariant, PTL DEF Spec

\* A loop that lets jitter pass never gives up, whatever its radio drops or reorders and
\* whichever answer is withheld, if it may retransmit once at least.
THEOREM PacedNeverFails ==
    ASSUME MaxRetransmit > 0
    PROVE  Spec => []NeverFails
  <1>1. OInv => NeverFails
    BY Loops DEF OInv, GaveUp, NeverFails
  <1>2. QED
    BY <1>1, OwedInvariant, PTL

-----------------------------------------------------------------------------
(* The end of the loop.                                                    *)

\* The steps that are left to the loop: each transmission to come takes one, draining
\* after it another, and its report, two answers at most and the outcome of the attempt
\* the rest.
Left ==
    LET transmissions == MaxRetransmit - attempt + IF pc \in {"start", "send"} THEN 1 ELSE 0
        reports == {i \in DOMAIN rf.queue : Opens(rf.queue[i].frame, counter)}
    IN  5 * transmissions + 2 * Cardinality(reports) + Len(rf.queue)
          + IF pc \in {"start", "drain"} THEN 1 ELSE 0

\* Draining, answering and retransmitting never go in a circle, whatever the radio does:
\* every step leaves fewer, so an exchange is over after 5 * (MaxRetransmit + 1) + 1.
AlwaysNearer == [][0 <= Left' /\ Left' < Left]_vars

\* The reports in flight are the copies of the one report's frame.
Tallied ==
    Left = 5 * (MaxRetransmit - attempt + IF pc \in {"start", "send"} THEN 1 ELSE 0)
             + 2 * InFlight + Len(rf.queue) + IF pc \in {"start", "drain"} THEN 1 ELSE 0

\* Nothing else on the radio opens as the report.
LEMMA LeftIsTallied == IInv => Tallied
  <1> SUFFICES ASSUME IInv PROVE Tallied
    OBVIOUS
  <1>1. {i \in DOMAIN rf.queue : Opens(rf.queue[i].frame, counter)}
           = Radio!Holds(rf.queue, FrameOf(KeyReport(counter)))
    <2>1. Opens(FrameOf(KeyReport(counter)), counter)
      <3>1. keys.salt = Salt
        BY DEF IInv, Types
      <3>2. QED
        BY <3>1, Facts, CountersDiffer DEF Opens, FrameOf, Keys!NonceFor, Keys!DeriveNonce
    <2>2. ASSUME NEW i \in DOMAIN rf.queue
          PROVE  Opens(rf.queue[i].frame, counter)
                    <=> rf.queue[i].frame = FrameOf(KeyReport(counter))
      <3>1. rf.queue[i] \in Radio!Entries(Carried)
        BY Facts DEF Radio!Radios
      <3>2. rf.queue[i].frame \in Carried
        BY <3>1 DEF Radio!Entries
      <3>3. QED
        BY <2>1, <3>2, WhatOpens
    <2>3. QED
      BY <2>2 DEF Radio!Holds
  <1>2. Cardinality(Radio!Holds(rf.queue, FrameOf(KeyReport(counter)))) = InFlight
    <2>1. \A S : Cardinality(S) = Radio!Cardinality(S)
      BY DEF Cardinality, Radio!Cardinality
    <2>2. QED
      BY <2>1 DEF InFlight, Radio!Copies
  <1>3. QED
    BY <1>1, <1>2 DEF Left, Tallied

\* A step costs one of the steps that are left, at least.
LEMMA StepCosts ==
    ASSUME IInv, IInv', OInv, Tallied, Tallied', Next
    PROVE  0 <= Left' /\ Left' < Left
  <1>1. /\ Len(rf.queue) \in Nat /\ Len(rf'.queue) \in Nat
        /\ InFlight \in Nat /\ InFlight' \in Nat
        /\ attempt \in 0 .. MaxRetransmit /\ attempt' \in 0 .. MaxRetransmit
        /\ MaxRetransmit \in Nat
    <2>1. rf \in Radio!Radios(Carried) /\ rf' \in Radio!Radios(Carried')
      BY DEF IInv, Types, Radio!Radios, Radio!Entries
    <2>2. Len(rf.queue) \in Nat /\ Len(rf'.queue) \in Nat
      BY <2>1 DEF Radio!Radios
    <2>3. QED
      BY <2>2, Loops DEF IInv, Types, Counted
  <1> DEFINE s  == IF pc \in {"start", "send"} THEN 1 ELSE 0
             s1 == IF pc' \in {"start", "send"} THEN 1 ELSE 0
             t  == MaxRetransmit - attempt + s
             t1 == MaxRetransmit - attempt' + s1
             e  == IF pc \in {"start", "drain"} THEN 1 ELSE 0
             e1 == IF pc' \in {"start", "drain"} THEN 1 ELSE 0
             n  == Len(rf.queue)
             n1 == Len(rf'.queue)
             f  == InFlight
             f1 == InFlight'
  <1>2. Left = 5 * t + 2 * f + n + e /\ Left' = 5 * t1 + 2 * f1 + n1 + e1
    BY DEF Tallied
  <1>3. /\ t \in Nat /\ t1 \in Nat /\ e \in Nat /\ e1 \in Nat
        /\ n \in Nat /\ n1 \in Nat /\ f \in Nat /\ f1 \in Nat
    <2>1. s \in Nat /\ s1 \in Nat /\ e \in Nat /\ e1 \in Nat
      OBVIOUS
    <2> HIDE DEF s, s1, e, e1
    <2>2. t \in Nat /\ t1 \in Nat
      <3>1. \A m \in Nat : \A a \in 0 .. m : m - a \in Nat
        OBVIOUS
      <3>2. MaxRetransmit - attempt \in Nat /\ MaxRetransmit - attempt' \in Nat
        BY <1>1, <3>1, Zenon
      <3>3. \A i, j \in Nat : i + j \in Nat
        OBVIOUS
      <3>4. QED
        BY <2>1, <3>2, <3>3
    <2>3. QED
      BY <1>1, <2>1, <2>2
  <1>4. CASE TakeCounter
    <2>1. /\ InFlight' = 0 /\ pc = "start" /\ pc' = "send" /\ attempt' = attempt
          /\ Len(rf'.queue) = Len(rf.queue)
      BY <1>4, TakeKeeps DEF TakeCounter
    <2>2. f1 = 0 /\ t1 = t /\ e = 1 /\ e1 = 0 /\ n1 = n
      BY <1>1, <2>1
    <2> HIDE DEF s, s1, t, t1, e, e1, n, n1, f, f1
    <2>3. QED
      BY <1>2, <1>3, <2>2
  <1>5. CASE Transmit
    <2>1. /\ InFlight' <= InFlight + 1 /\ pc = "send" /\ pc' = "drain" /\ attempt' = attempt
          /\ Len(rf'.queue) <= Len(rf.queue) + 1
      BY <1>5, TransmitKeeps, TransmitOwes DEF Transmit
    <2>2. f1 <= f + 1 /\ t1 = t - 1 /\ e = 0 /\ e1 = 1 /\ n1 <= n + 1
      BY <1>1, <2>1
    <2> HIDE DEF s, s1, t, t1, e, e1, n, n1, f, f1
    <2>3. QED
      BY <1>2, <1>3, <2>2
  <1>6. CASE ReceiveReport
    <2>1. /\ InFlight' + 1 <= InFlight /\ pc = "drain" /\ pc' = pc
          /\ Len(rf'.queue) <= Len(rf.queue) + 1
      BY <1>6, ReceiveReportKeeps, ReceiveReportOwes
    <2>2. attempt' = attempt
      BY <1>6 DEF ReceiveReport
    <2>3. f1 + 1 <= f /\ t1 = t /\ e1 = e /\ n1 <= n + 1
      BY <2>1, <2>2
    <2> HIDE DEF s, s1, t, t1, e, e1, n, n1, f, f1
    <2>4. QED
      BY <1>2, <1>3, <2>3
  <1>7. CASE ReceiveAck \/ IgnoreFrame
    <2>1. InFlight' <= InFlight /\ Len(rf'.queue) = Len(rf.queue) - 1
      BY <1>7, ReceiveAckKeeps, IgnoreKeeps, OtherFrameOwes
    <2>2. attempt' = attempt /\ pc' = pc
      BY <1>7 DEF ReceiveAck, IgnoreFrame
    <2>3. f1 <= f /\ t1 = t /\ e1 = e /\ n1 = n - 1
      BY <2>1, <2>2
    <2> HIDE DEF s, s1, t, t1, e, e1, n, n1, f, f1
    <2>4. QED
      BY <1>2, <1>3, <2>3
  <1>8. CASE Succeed \/ Retry \/ GiveUp
    <2>1. /\ InFlight' = InFlight /\ Len(rf'.queue) = Len(rf.queue) /\ pc = "drain"
          /\ \/ pc' \in {"done", "failed"} /\ attempt' = attempt
             \/ pc' = "send" /\ attempt' = attempt + 1
      BY <1>8, OutcomeKeeps DEF Succeed, Retry, GiveUp, Drained
    <2>2. e = 1 /\ e1 = 0 /\ s = 0
      BY <2>1
    <2>3. t1 = t
      <3>1. \/ attempt' = attempt /\ s1 = 0
            \/ attempt' = attempt + 1 /\ s1 = 1
        BY <2>1
      <3> HIDE DEF s, s1
      <3>2. QED
        BY <1>1, <2>2, <3>1
    <2>4. f1 = f /\ n1 = n
      BY <2>1
    <2> HIDE DEF s, s1, t, t1, e, e1, n, n1, f, f1
    <2>5. QED
      BY <1>2, <1>3, <2>2, <2>3, <2>4
  <1>9. QED
    BY <1>4, <1>5, <1>6, <1>7, <1>8 DEF Next

\* No step is taken in vain, whatever the radio does: with Left a number, the loop ends.
THEOREM StepsAlwaysNearer == Spec => AlwaysNearer
  <1>1. IInv => Tallied
    BY LeftIsTallied
  <1>2. IInv /\ IInv' /\ OInv /\ Tallied /\ Tallied' /\ [Next]_vars
           => [0 <= Left' /\ Left' < Left]_vars
    BY StepCosts
  <1>3. QED
    BY <1>1, <1>2, ExchangeInvariant, OwedInvariant, PTL DEF Spec, AlwaysNearer
=============================================================================
