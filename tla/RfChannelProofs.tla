--------------------------- MODULE RfChannelProofs ---------------------------
(***************************************************************************)
(* Proofs about RfChannel, for every set of configurations, every clock    *)
(* and every number of frames.                                             *)
(***************************************************************************)
EXTENDS RfChannel, MockRfProofs

Entry == [deliver_at : Time, frame : 1 .. MaxFrames]

\* Where the next frame is put.
Place == PlaceIn(rf)

-----------------------------------------------------------------------------
(* The invariant.                                                          *)

Radio == [config : Configs, now_ms : Time, queue : Seq(Entry), delivered : Nat,
          dropped : Nat, first_frame_seen : BOOLEAN]

Types ==
    /\ rf \in Radio
    /\ panicked \in BOOLEAN
    /\ sentAt \in Seq(Time) /\ Len(sentAt) <= MaxFrames
    /\ rf.first_frame_seen = (sentAt # <<>>)
    /\ received \in Seq(1 .. Len(sentAt))

\* A frame is in the queue once, and only if it was pushed.
Once ==
    /\ \A i \in 1 .. Len(rf.queue) : rf.queue[i].frame <= Len(sentAt)
    /\ \A i, j \in 1 .. Len(rf.queue) : rf.queue[i].frame = rf.queue[j].frame => i = j

\* Only the first frame is ever dropped, and the counters say so.
Accounts ==
    /\ lost \subseteq {1} /\ (lost # {} => sentAt # <<>>)
    /\ rf.delivered = Len(received)
    /\ rf.dropped = IF 1 \in lost THEN 1 ELSE 0
    /\ rf.delivered + rf.dropped + Len(rf.queue) = Len(sentAt)

IInv == Types /\ Once /\ Accounts

\* What the queue holds was pushed.
LEMMA QueueFrames ==
    ASSUME IInv
    PROVE  /\ rf.queue \in Seq(Entry) /\ Len(rf.queue) \in Nat /\ Len(sentAt) \in Nat
           /\ \A i \in 1 .. Len(rf.queue) :
                /\ rf.queue[i].deliver_at \in Nat
                /\ rf.queue[i].frame \in 1 .. Len(sentAt)
  <1>1. rf.queue \in Seq(Entry) /\ Len(rf.queue) \in Nat /\ Len(sentAt) \in Nat
    BY DEF IInv, Types, Radio
  <1>2. ASSUME NEW i \in 1 .. Len(rf.queue)
        PROVE  rf.queue[i].deliver_at \in Nat /\ rf.queue[i].frame \in 1 .. Len(sentAt)
    <2>1. rf.queue[i] \in Entry
      BY <1>1
    <2>2. rf.queue[i].deliver_at \in Time /\ rf.queue[i].frame \in 1 .. MaxFrames
      BY <2>1 DEF Entry
    <2>3. rf.queue[i].frame <= Len(sentAt)
      BY DEF IInv, Once
    <2>4. QED
      BY <1>1, <2>2, <2>3, RfAssumption, ChannelAssumption DEF Time
  <1>3. QED
    BY <1>1, <1>2

\* The plain sum of the times, taken modulo the width, is a time.
LEMMA DeliverAtType ==
    ASSUME IInv
    PROVE  DeliverAt(rf) \in Time
  <1>1. rf.now_ms \in Nat /\ rf.config.jitter_ms \in Nat /\ TimeMax \in Nat
    BY RfAssumption, ChannelAssumption DEF IInv, Types, Radio, Config, Time
  <1>2. \A n \in Nat, m \in Nat \ {0} : n % m \in 0 .. m - 1
    OBVIOUS
  <1>3. QED
    BY <1>1, <1>2 DEF DeliverAt, Time

\* A push that is not dropped leaves the other entries as they are, and puts the
\* newest frame at its place.
LEMMA PushQueue ==
    ASSUME IInv, PushFrame, ~DropsNext(rf)
    PROVE  /\ rf' = [rf EXCEPT !.first_frame_seen = TRUE, !.queue = rf'.queue]
           /\ rf'.queue \in Seq(Entry) /\ Len(rf'.queue) = Len(rf.queue) + 1
           /\ Place \in 1 .. Len(rf.queue) + 1
           /\ \A i \in 1 .. Len(rf.queue) + 1 :
                rf'.queue[i] = IF i = Place THEN NewEntry(rf, Len(sentAt) + 1)
                               ELSE IF i < Place THEN rf.queue[i] ELSE rf.queue[i - 1]
           /\ Queued' = Queued \union {Len(sentAt) + 1}
  <1> DEFINE new == Len(sentAt) + 1
             E   == Enqueued(rf, new)
             n   == Len(rf.queue)
  <1>1. new \in 1 .. MaxFrames /\ rf.queue \in Seq(Entry) /\ n \in Nat
    BY ChannelAssumption DEF IInv, Types, Radio, PushFrame
  <1>2. NewEntry(rf, new) \in Entry
    BY <1>1, DeliverAtType DEF NewEntry, Entry
  <1>3. rf' = [rf EXCEPT !.first_frame_seen = TRUE, !.queue = E]
    BY DEF PushFrame, Push
  <1>4. rf'.queue = E
    BY <1>3 DEF IInv, Types, Radio
  <1>5. /\ E \in Seq(Entry) /\ Len(E) = n + 1 /\ Place \in 1 .. n + 1
        /\ \A i \in 1 .. n + 1 :
              E[i] = IF i = Place THEN NewEntry(rf, new)
                     ELSE IF i < Place THEN rf.queue[i] ELSE rf.queue[i - 1]
    BY <1>1, <1>2, EnqueuedEntries DEF Place
  <1> HIDE DEF E, new
  <1>6. Queued' = Queued \union {new}
    <2>1. Queued = {rf.queue[i].frame : i \in 1 .. n}
      BY <1>1 DEF Queued
    <2>2. Queued' = {E[i].frame : i \in 1 .. n + 1}
      BY <1>1, <1>4, <1>5 DEF Queued
    <2>3. NewEntry(rf, new).frame = new
      BY DEF NewEntry
    <2>4. ASSUME NEW i \in 1 .. n + 1
          PROVE  E[i].frame \in Queued \union {new}
      <3>1. CASE i = Place
        BY <1>5, <2>3, <3>1
      <3>2. CASE i # Place
        <4>1. \E j \in 1 .. n : E[i] = rf.queue[j]
          <5>1. CASE i < Place
            BY <1>1, <1>5, <5>1
          <5>2. CASE i > Place
            BY <1>1, <1>5, <5>2
          <5>3. QED
            BY <1>5, <3>2, <5>1, <5>2
        <4>2. QED
          BY <2>1, <4>1
      <3>3. QED
        BY <3>1, <3>2
    <2>5. new \in Queued'
      BY <1>5, <2>2, <2>3
    <2>6. ASSUME NEW i \in 1 .. n
          PROVE  rf.queue[i].frame \in Queued'
      <3>1. CASE i < Place
        BY <1>1, <1>5, <2>2, <3>1, SMTT(20)
      <3>2. CASE i >= Place
        <4>1. i + 1 \in 1 .. n + 1 /\ i + 1 # Place /\ ~(i + 1 < Place) /\ i + 1 - 1 = i
          BY <1>1, <1>5, <3>2
        <4>2. E[i + 1] = rf.queue[i]
          BY <1>5, <4>1
        <4>3. QED
          BY <2>2, <4>1, <4>2
      <3>3. QED
        BY <1>5, <3>1, <3>2
    <2>7. QED
      BY <2>1, <2>2, <2>4, <2>5, <2>6
  <1>7. QED
    BY <1>3, <1>4, <1>5, <1>6 DEF new

\* The entry that is popped.
FirstDue == Min(Deliverable(rf))

\* A pop takes the first entry that is due, and leaves the others as they are.
LEMMA PopQueue ==
    ASSUME IInv, PopFrame
    PROVE  /\ FirstDue \in 1 .. Len(rf.queue)
           /\ rf.queue[FirstDue].deliver_at <= rf.now_ms
           /\ \A i \in 1 .. Len(rf.queue) : rf.queue[i].deliver_at <= rf.now_ms => FirstDue <= i
           /\ rf' = [rf EXCEPT !.delivered = @ + 1, !.queue = rf'.queue]
           /\ rf'.queue \in Seq(Entry) /\ Len(rf'.queue) = Len(rf.queue) - 1
           /\ \A i \in 1 .. Len(rf.queue) - 1 :
                rf'.queue[i] = IF i < FirstDue THEN rf.queue[i] ELSE rf.queue[i + 1]
           /\ Popped(rf) = rf.queue[FirstDue].frame
           /\ Popped(rf) \in Queued /\ Queued' = Queued \ {Popped(rf)}
  <1> DEFINE k == FirstDue
             n == Len(rf.queue)
             R == RemoveAt(rf.queue, k)
  <1>1. rf.queue \in Seq(Entry) /\ n \in Nat /\ DOMAIN rf.queue = 1 .. n
    BY DEF IInv, Types, Radio
  <1>2. Deliverable(rf) \in SUBSET Nat /\ Deliverable(rf) # {}
        /\ \A i : i \in Deliverable(rf) <=> i \in 1 .. n /\ rf.queue[i].deliver_at <= rf.now_ms
    BY <1>1 DEF Deliverable, PopFrame
  <1>3. k \in Deliverable(rf) /\ \A i \in Deliverable(rf) : k <= i
    BY <1>2, MinIsLeast DEF FirstDue
  <1>4. k \in 1 .. n /\ rf.queue[k].deliver_at <= rf.now_ms
        /\ \A i \in 1 .. n : rf.queue[i].deliver_at <= rf.now_ms => k <= i
    BY <1>2, <1>3
  <1>5. /\ R \in Seq(Entry) /\ Len(R) = n - 1
        /\ \A i \in 1 .. n - 1 : R[i] = IF i < k THEN rf.queue[i] ELSE rf.queue[i + 1]
    BY <1>1, <1>4, RemovedEntries
  <1>6. rf' = [rf EXCEPT !.delivered = @ + 1, !.queue = R]
    BY DEF PopFrame, Pop, FirstDue
  <1>7. rf'.queue = R
    BY <1>6 DEF IInv, Types, Radio
  <1>8. Popped(rf) = rf.queue[k].frame
    BY DEF Popped, FirstDue
  <1> HIDE DEF k, R
  <1>9. Popped(rf) \in Queued
    BY <1>1, <1>4, <1>8 DEF Queued
  <1>10. Queued' = Queued \ {Popped(rf)}
    <2>1. Queued = {rf.queue[i].frame : i \in 1 .. n}
      BY <1>1 DEF Queued
    <2>2. Queued' = {R[i].frame : i \in 1 .. n - 1}
      BY <1>1, <1>5, <1>7 DEF Queued
    <2>3. ASSUME NEW i \in 1 .. n - 1
          PROVE  R[i].frame \in Queued \ {Popped(rf)}
      <3>1. PICK j \in 1 .. n : j # k /\ R[i] = rf.queue[j]
        <4>1. CASE i < k
          BY <1>1, <1>5, <4>1
        <4>2. CASE i >= k
          BY <1>1, <1>4, <1>5, <4>2
        <4>3. QED
          BY <1>4, <4>1, <4>2
      <3>2. QED
        BY <1>4, <1>8, <2>1, <3>1 DEF IInv, Once
    <2>4. ASSUME NEW i \in 1 .. n, i # k
          PROVE  rf.queue[i].frame \in Queued'
      <3>1. CASE i < k
        BY <1>1, <1>4, <1>5, <2>2, <3>1, SMTT(30)
      <3>2. CASE i > k
        <4>1. i - 1 \in 1 .. n - 1 /\ ~(i - 1 < k) /\ i - 1 + 1 = i
          BY <1>1, <1>4, <3>2
        <4>2. R[i - 1] = rf.queue[i]
          BY <1>5, <4>1
        <4>3. QED
          BY <2>2, <4>1, <4>2
      <3>3. QED
        BY <1>4, <2>4, <3>1, <3>2
    <2>5. QED
      BY <1>8, <2>1, <2>2, <2>3, <2>4
  <1>11. QED
    BY <1>4, <1>5, <1>6, <1>7, <1>8, <1>9, <1>10 DEF k

\* A push keeps the invariant: the newest frame is in the queue once, or dropped and
\* counted.
LEMMA PushKeeps ==
    ASSUME IInv, PushFrame
    PROVE  IInv'
  <1> DEFINE new == Len(sentAt) + 1
             n   == Len(rf.queue)
  <1>1. /\ rf \in Radio /\ rf.queue \in Seq(Entry) /\ n \in Nat
        /\ rf.delivered \in Nat /\ rf.dropped \in Nat
        /\ sentAt \in Seq(Time) /\ Len(sentAt) \in Nat /\ new <= MaxFrames
        /\ rf.now_ms \in Time
    BY ChannelAssumption DEF IInv, Types, Radio, PushFrame
  <1>2. sentAt' = Append(sentAt, rf.now_ms) /\ UNCHANGED <<panicked, received>>
    BY DEF PushFrame
  <1>3. sentAt' \in Seq(Time) /\ Len(sentAt') = new /\ sentAt' # <<>>
    BY <1>1, <1>2
  <1>4. received \in Seq(1 .. Len(sentAt'))
    <2>1. 1 .. Len(sentAt) \subseteq 1 .. Len(sentAt')
      BY <1>1, <1>3
    <2>2. received \in Seq(1 .. Len(sentAt))
      BY DEF IInv, Types
    <2>3. QED
      BY <2>1, <2>2, SeqMonotonic
  <1>5. CASE DropsNext(rf)
    <2>1. rf' = [rf EXCEPT !.first_frame_seen = TRUE, !.dropped = @ + 1]
          /\ lost' = lost \union {new}
      BY <1>5 DEF PushFrame, Push
    <2>2. sentAt = <<>> /\ new = 1 /\ lost = {} /\ rf.dropped = 0
      <3>1. ~(rf.first_frame_seen = TRUE)
        BY <1>5 DEF DropsNext
      <3>2. sentAt = <<>>
        BY <3>1 DEF IInv, Types
      <3>3. QED
        BY <3>2 DEF IInv, Accounts
    <2> HIDE DEF new
    <2>3. rf' \in Radio /\ rf'.queue = rf.queue /\ rf'.delivered = rf.delivered
          /\ rf'.dropped = rf.dropped + 1 /\ rf'.first_frame_seen = TRUE
      <3> DEFINE more == rf.dropped + 1
      <3>1. more \in Nat /\ rf' = [rf EXCEPT !.first_frame_seen = TRUE, !.dropped = more]
        BY <1>1, <2>1
      <3> HIDE DEF more
      <3>2. rf' \in Radio /\ rf'.queue = rf.queue /\ rf'.delivered = rf.delivered
            /\ rf'.dropped = more /\ rf'.first_frame_seen = TRUE
        BY <1>1, <3>1 DEF Radio
      <3>3. QED
        BY <3>2 DEF more
    <2>4. Types'
      BY <1>1, <1>2, <1>3, <1>4, <2>3 DEF IInv, Types, new
    <2>5. Once'
      BY <1>1, <1>3, <2>2, <2>3, QueueFrames, SMTT(30) DEF IInv, Once
    <2>6. Accounts'
      BY <1>1, <1>2, <1>3, <2>1, <2>2, <2>3 DEF IInv, Accounts
    <2>7. QED
      BY <2>4, <2>5, <2>6 DEF IInv
  <1>6. CASE ~DropsNext(rf)
    <2>1. rf' = [rf EXCEPT !.first_frame_seen = TRUE, !.queue = rf'.queue]
          /\ rf'.queue \in Seq(Entry) /\ Len(rf'.queue) = n + 1
          /\ Place \in 1 .. n + 1
          /\ \A i \in 1 .. n + 1 :
                rf'.queue[i] = IF i = Place THEN NewEntry(rf, new)
                               ELSE IF i < Place THEN rf.queue[i] ELSE rf.queue[i - 1]
      BY <1>6, PushQueue
    <2>2. rf' \in Radio /\ rf'.delivered = rf.delivered
          /\ rf'.dropped = rf.dropped /\ rf'.first_frame_seen = TRUE
      BY <1>1, <2>1 DEF Radio
    <2>3. lost' = lost
      BY <1>6 DEF PushFrame
    <2>4. Types'
      BY <1>1, <1>2, <1>3, <1>4, <2>2 DEF IInv, Types
    <2> DEFINE old(i) == IF i < Place THEN i ELSE i - 1
    <2>5. \A i \in 1 .. n + 1 : i # Place => old(i) \in 1 .. n /\ rf'.queue[i] = rf.queue[old(i)]
      <3>1. ASSUME NEW i \in 1 .. n + 1, i # Place
            PROVE  old(i) \in 1 .. n
        BY <1>1, <2>1, <3>1
      <3>2. ASSUME NEW i \in 1 .. n + 1, i # Place
            PROVE  rf'.queue[i] = rf.queue[old(i)]
        BY <2>1, <3>2, Zenon
      <3>3. QED
        BY <3>1, <3>2
    <2>6. \A i, j \in 1 .. n + 1 : i # Place /\ j # Place /\ old(i) = old(j) => i = j
      BY <1>1, <2>1
    <2>7. rf'.queue[Place].frame = new
      BY <2>1 DEF NewEntry
    <2> HIDE DEF old
    <2>8. \A i \in 1 .. n + 1 : i # Place => rf'.queue[i].frame <= Len(sentAt)
                                             /\ rf'.queue[i].frame \in Nat
      <3>1. \A i \in 1 .. n : rf.queue[i].frame <= Len(sentAt) /\ rf.queue[i].frame \in Nat
        BY <1>1, QueueFrames
      <3>2. QED
        BY <2>5, <3>1
    <2>9. Once'
      <3>1. ASSUME NEW i \in 1 .. n + 1
            PROVE  rf'.queue[i].frame <= Len(sentAt')
        <4>1. Len(sentAt) \in Nat /\ Len(sentAt') = Len(sentAt) + 1
          BY <1>1, <1>3
        <4>2. CASE i = Place
          BY <2>7, <4>1, <4>2
        <4>3. CASE i # Place
          BY <2>8, <4>1, <4>3
        <4>4. QED
          BY <4>2, <4>3
      <3>2. ASSUME NEW i \in 1 .. n + 1, NEW j \in 1 .. n + 1,
                   rf'.queue[i].frame = rf'.queue[j].frame
            PROVE  i = j
        <4>1. CASE i # Place /\ j # Place
          BY <2>5, <2>6, <3>2, <4>1 DEF IInv, Once
        <4>2. CASE i = Place \/ j = Place
          BY <1>1, <2>1, <2>7, <2>8, <3>2, <4>2, SMTT(30)
        <4>3. QED
          BY <4>1, <4>2
      <3>3. QED
        BY <2>1, <3>1, <3>2 DEF Once
    <2>10. Accounts'
      <3>1. rf.delivered + rf.dropped + n = Len(sentAt)
        BY DEF IInv, Accounts
      <3>2. Len(rf'.queue) = n + 1 /\ rf.delivered \in Nat /\ rf.dropped \in Nat /\ n \in Nat
        BY <1>1, <2>1
      <3>3. rf.delivered + rf.dropped + (n + 1) = new
        BY <3>1, <3>2
      <3>4. rf'.delivered + rf'.dropped + Len(rf'.queue) = Len(sentAt')
        BY <1>3, <2>2, <3>2, <3>3
      <3>5. QED
        BY <1>2, <1>3, <2>2, <2>3, <3>4 DEF IInv, Accounts
    <2>11. QED
      BY <2>4, <2>9, <2>10 DEF IInv
  <1>7. QED
    BY <1>5, <1>6

\* A pop keeps it: a frame leaves the queue for the counter of the delivered ones.
LEMMA PopKeeps ==
    ASSUME IInv, PopFrame
    PROVE  IInv'
  <1> DEFINE k == FirstDue
             n == Len(rf.queue)
  <1>1. /\ rf \in Radio /\ rf.queue \in Seq(Entry) /\ n \in Nat
        /\ rf.delivered \in Nat /\ rf.dropped \in Nat
        /\ sentAt \in Seq(Time) /\ Len(sentAt) \in Nat /\ received \in Seq(1 .. Len(sentAt))
    BY DEF IInv, Types, Radio
  <1>2. received' = Append(received, Popped(rf)) /\ UNCHANGED <<panicked, sentAt, lost>>
    BY DEF PopFrame
  <1>3. /\ k \in 1 .. n /\ Popped(rf) = rf.queue[k].frame
        /\ rf' = [rf EXCEPT !.delivered = @ + 1, !.queue = rf'.queue]
        /\ rf'.queue \in Seq(Entry) /\ Len(rf'.queue) = n - 1
        /\ \A i \in 1 .. n - 1 : rf'.queue[i] = IF i < k THEN rf.queue[i] ELSE rf.queue[i + 1]
    BY PopQueue
  <1>4. rf' \in Radio /\ rf'.delivered = rf.delivered + 1 /\ rf'.dropped = rf.dropped
        /\ rf'.first_frame_seen = rf.first_frame_seen
    <2> DEFINE more == rf.delivered + 1
    <2>1. more \in Nat /\ rf' = [rf EXCEPT !.delivered = more, !.queue = rf'.queue]
      BY <1>1, <1>3
    <2> HIDE DEF more
    <2>2. rf' \in Radio /\ rf'.delivered = more /\ rf'.dropped = rf.dropped
          /\ rf'.first_frame_seen = rf.first_frame_seen
      BY <1>1, <1>3, <2>1 DEF Radio
    <2>3. QED
      BY <2>2 DEF more
  <1>5. Popped(rf) \in 1 .. Len(sentAt)
    BY <1>3, QueueFrames
  <1>6. received' \in Seq(1 .. Len(sentAt)) /\ Len(received') = Len(received) + 1
    BY <1>1, <1>2, <1>5
  <1>7. Types'
    BY <1>2, <1>4, <1>6 DEF IInv, Types
  <1>8. Once'
    <2> DEFINE old(i) == IF i < k THEN i ELSE i + 1
    <2>1. \A i \in 1 .. n - 1 : old(i) \in 1 .. n /\ rf'.queue[i] = rf.queue[old(i)]
      BY <1>1, <1>3, SMTT(30)
    <2>2. \A i, j \in 1 .. n - 1 : old(i) = old(j) => i = j
      BY <1>1, <1>3
    <2> HIDE DEF old
    <2>3. Len(rf'.queue) = n - 1 /\ sentAt' = sentAt
      BY <1>2, <1>3
    <2>4. \A i \in 1 .. n - 1 : rf'.queue[i].frame <= Len(sentAt)
      BY <2>1 DEF IInv, Once
    <2>5. ASSUME NEW i \in 1 .. n - 1, NEW j \in 1 .. n - 1,
                 rf'.queue[i].frame = rf'.queue[j].frame
          PROVE  i = j
      <3>1. rf.queue[old(i)].frame = rf.queue[old(j)].frame /\ old(i) \in 1 .. n /\ old(j) \in 1 .. n
        BY <2>1, <2>5
      <3>2. old(i) = old(j)
        BY <3>1 DEF IInv, Once
      <3>3. QED
        BY <2>2, <3>2
    <2>6. QED
      BY <2>3, <2>4, <2>5 DEF Once
  <1>9. Accounts'
    <2>1. rf.delivered = Len(received) /\ rf.delivered + rf.dropped + n = Len(sentAt)
      BY DEF IInv, Accounts
    <2>2. Len(rf'.queue) = n - 1
      BY <1>3
    <2>3. rf'.delivered = Len(received') /\ sentAt' = sentAt
      BY <1>2, <1>4, <1>6, <2>1
    <2>4. rf.delivered \in Nat /\ rf.dropped \in Nat /\ n \in Nat
      BY <1>1
    <2>5. rf.delivered + 1 + rf.dropped + (n - 1) = Len(sentAt)
      BY <2>1, <2>4, SMTT(30)
    <2>6. rf'.delivered + rf'.dropped + Len(rf'.queue) = Len(sentAt)
      BY <1>4, <2>2, <2>5
    <2>7. QED
      BY <1>2, <1>4, <2>3, <2>6 DEF IInv, Accounts
  <1>10. QED
    BY <1>7, <1>8, <1>9 DEF IInv

\* A step that touches neither the queue nor the counters.
LEMMA ClockKeeps ==
    ASSUME IInv, rf' \in Radio, rf'.queue = rf.queue, rf'.delivered = rf.delivered,
           rf'.dropped = rf.dropped, rf'.first_frame_seen = rf.first_frame_seen,
           panicked' \in BOOLEAN, UNCHANGED <<sentAt, lost, received>>
    PROVE  IInv'
  BY DEF IInv, Types, Once, Accounts

\* The clock moves forward or stays, and nothing else of the radio moves.
LEMMA AdvanceType ==
    ASSUME rf \in Radio, AdvanceClock
    PROVE  /\ rf' \in Radio /\ rf' = [rf EXCEPT !.now_ms = rf'.now_ms]
           /\ rf'.now_ms >= rf.now_ms
  <1>1. PICK delta \in Steps : rf' = Advance(rf, delta)
    BY DEF AdvanceClock
  <1> DEFINE later == IF rf.now_ms + delta > TimeMax THEN TimeMax ELSE rf.now_ms + delta
  <1>2. rf' = [rf EXCEPT !.now_ms = later]
    BY <1>1 DEF Advance
  <1>3. later \in Time /\ later >= rf.now_ms
    BY RfAssumption, ChannelAssumption DEF Radio, Time
  <1> HIDE DEF later
  <1>4. QED
    BY <1>2, <1>3 DEF Radio

\* The invariant holds whatever calls the users of a radio make.
THEOREM ChannelInvariant == Spec => []IInv
  <1>1. Init => IInv
    <2> SUFFICES ASSUME Init PROVE IInv
      OBVIOUS
    <2>1. PICK config \in Configs : rf = New(config)
      BY DEF Init
    <2>2. rf \in Radio /\ rf.queue = <<>> /\ rf.delivered = 0 /\ rf.dropped = 0
          /\ rf.first_frame_seen = FALSE
      BY <2>1, RfAssumption DEF New, Radio, Time
    <2>3. sentAt = <<>> /\ lost = {} /\ received = <<>> /\ panicked = FALSE
      BY DEF Init
    <2>4. Types
      <3>1. sentAt \in Seq(Time) /\ received \in Seq(1 .. Len(sentAt)) /\ Len(sentAt) = 0
        BY <2>3
      <3>2. rf.first_frame_seen = (sentAt # <<>>)
        BY <2>2, <2>3
      <3>3. Len(sentAt) <= MaxFrames
        BY <3>1, ChannelAssumption
      <3>4. panicked \in BOOLEAN
        BY <2>3
      <3>5. QED
        BY <2>2, <3>1, <3>2, <3>3, <3>4, Zenon DEF Types
    <2>5. Once /\ Accounts
      BY <2>2, <2>3 DEF Once, Accounts
    <2>6. QED
      BY <2>4, <2>5 DEF IInv
  <1>2. IInv /\ [Next]_vars => IInv'
    <2> SUFFICES ASSUME IInv, [Next]_vars PROVE IInv'
      OBVIOUS
    <2>1. CASE PushFrame
      BY <2>1, PushKeeps
    <2>2. CASE PushOverflows
      BY <2>2, ClockKeeps DEF PushOverflows, IInv, Types
    <2>3. CASE AdvanceClock
      <3>1. rf' \in Radio /\ rf' = [rf EXCEPT !.now_ms = rf'.now_ms]
        BY <2>3, AdvanceType DEF IInv, Types
      <3>2. rf'.queue = rf.queue /\ rf'.delivered = rf.delivered
            /\ rf'.dropped = rf.dropped /\ rf'.first_frame_seen = rf.first_frame_seen
        BY <3>1 DEF IInv, Types, Radio
      <3>3. UNCHANGED <<panicked, sentAt, lost, received>>
        BY <2>3 DEF AdvanceClock
      <3>4. QED
        BY <3>1, <3>2, <3>3, ClockKeeps DEF IInv, Types
    <2>4. CASE PopFrame
      BY <2>4, PopKeeps
    <2>5. CASE UNCHANGED vars
      BY <2>5, ClockKeeps DEF vars, IInv, Types
    <2>6. QED
      BY <2>1, <2>2, <2>3, <2>4, <2>5 DEF Next
  <1>3. QED
    BY <1>1, <1>2, PTL DEF Spec

-----------------------------------------------------------------------------
(* What follows of a state.                                                *)

\* Every state has its types, the clock and the times of delivery within the width.
THEOREM ChannelTypeOK == Spec => []TypeOK
  <1>1. IInv => TypeOK
    BY ChannelAssumption DEF IInv, Types, Radio, Entry, Accounts, TypeOK
  <1>2. QED
    BY <1>1, ChannelInvariant, PTL

\* The frames in the queue are as many as its entries.
LEMMA QueuedCount ==
    ASSUME IInv
    PROVE  Cardinality(Queued) = Len(rf.queue)
  <1> DEFINE n == Len(rf.queue)
             f == [i \in 1 .. n |-> rf.queue[i].frame]
  <1>1. rf.queue \in Seq(Entry) /\ n \in Nat /\ DOMAIN rf.queue = 1 .. n
    BY DEF IInv, Types, Radio
  <1>2. f \in Surjection(1 .. n, Queued)
    BY <1>1 DEF Surjection, Queued
  <1>3. f \in Injection(1 .. n, Queued)
    BY <1>1 DEF Injection, IsInjective, Queued, IInv, Once
  <1>4. ExistsBijection(1 .. n, Queued)
    BY <1>2, <1>3 DEF ExistsBijection, Bijection
  <1>5. QED
    BY <1>1, <1>4, FS_CountingElements

\* Whatever is pushed, dropped and popped, stats accounts for every frame.
THEOREM StatsAlwaysAccount == Spec => []StatsAccount
  <1>1. IInv => StatsAccount
    <2> SUFFICES ASSUME IInv PROVE StatsAccount
      OBVIOUS
    <2>1. lost = {} \/ lost = {1}
      BY DEF IInv, Accounts
    <2>2. Cardinality(lost) = IF 1 \in lost THEN 1 ELSE 0
      BY <2>1, FS_EmptySet, FS_Singleton
    <2>3. QED
      BY <2>2, QueuedCount DEF IInv, Accounts, StatsAccount
  <1>2. QED
    BY <1>1, ChannelInvariant, PTL

-----------------------------------------------------------------------------
(* The channel the radio implements.                                       *)

\* A new radio is an empty channel.
LEMMA ChannelInit ==
    ASSUME Init
    PROVE  Channel!Init
  <1>1. PICK config \in Configs : rf = New(config)
    BY DEF Init
  <1>2. rf.queue = <<>>
    BY <1>1 DEF New
  <1>3. Queued = {}
    BY <1>2 DEF Queued
  <1>4. QED
    BY <1>3 DEF Init, Channel!Init

\* A push is a send, a pop a delivery, and the clock is not seen.
LEMMA ChannelStep ==
    ASSUME IInv, [Next]_vars
    PROVE  [Channel!Next]_(Channel!channelVars)
  <1>1. Len(sentAt) \in Nat /\ sentAt \in Seq(Time)
    BY DEF IInv, Types
  <1>2. CASE PushFrame
    <2>1. Len(sentAt') = Len(sentAt) + 1 /\ Len(sentAt) + 1 \in 1 .. MaxFrames
      BY <1>1, <1>2, ChannelAssumption DEF PushFrame, IInv, Types, Radio
    <2>2. received' = received
      BY <1>2 DEF PushFrame
    <2>3. CASE DropsNext(rf)
      <3>1. rf' = [rf EXCEPT !.first_frame_seen = TRUE, !.dropped = @ + 1]
            /\ lost' = lost \union {Len(sentAt) + 1}
        BY <1>2, <2>3 DEF PushFrame, Push
      <3>2. rf'.queue = rf.queue
        BY <3>1 DEF IInv, Types, Radio
      <3>3. Queued' = Queued
        BY <3>2 DEF Queued
      <3>4. ~(rf.first_frame_seen = TRUE)
        BY <2>3 DEF DropsNext
      <3>5. sentAt = <<>>
        BY <3>4 DEF IInv, Types
      <3>6. Len(sentAt) = 0 /\ lost' = {Len(sentAt')}
        BY <2>1, <3>1, <3>5 DEF IInv, Accounts
      <3>7. Channel!Send
        BY <2>1, <2>2, <3>3, <3>6 DEF Channel!Send
      <3>8. QED
        BY <3>7 DEF Channel!Next
    <2>4. CASE ~DropsNext(rf)
      <3>1. Queued' = Queued \union {Len(sentAt')} /\ lost' = lost
        BY <1>2, <2>1, <2>4, PushQueue DEF PushFrame
      <3>2. Channel!Send
        BY <2>1, <2>2, <3>1 DEF Channel!Send
      <3>3. QED
        BY <3>2 DEF Channel!Next
    <2>5. QED
      BY <2>3, <2>4
  <1>3. CASE PopFrame
    <2>1. Popped(rf) \in Queued /\ Queued' = Queued \ {Popped(rf)}
      BY <1>3, PopQueue
    <2>2. received' = Append(received, Popped(rf)) /\ UNCHANGED <<sentAt, lost>>
      BY <1>3 DEF PopFrame
    <2>3. Channel!Deliver
      BY <2>1, <2>2 DEF Channel!Deliver
    <2>4. QED
      BY <2>3 DEF Channel!Next
  <1>4. CASE AdvanceClock \/ PushOverflows \/ UNCHANGED vars
    <2>1. UNCHANGED <<sentAt, lost, received>>
      BY <1>4 DEF AdvanceClock, PushOverflows, vars
    <2>2. rf'.queue = rf.queue
      <3>1. CASE AdvanceClock
        BY <3>1, AdvanceType DEF IInv, Types, Radio
      <3>2. CASE PushOverflows \/ UNCHANGED vars
        BY <3>2 DEF PushOverflows, vars
      <3>3. QED
        BY <1>4, <3>1, <3>2
    <2>3. Queued' = Queued
      BY <2>2 DEF Queued
    <2>4. QED
      BY <2>1, <2>3 DEF Channel!channelVars
  <1>5. QED
    BY <1>2, <1>3, <1>4 DEF Next

\* The mock radio is a lossy channel, in builds that check for overflow and in those
\* that do not: every frame pushed is in the queue, was dropped or was popped, one of
\* the three and once, and none but the first is dropped.
THEOREM RadioIsAChannel == Spec => ImplementsChannel
  <1>1. Init => Channel!Init
    BY ChannelInit
  <1>2. IInv /\ [Next]_vars => [Channel!Next]_(Channel!channelVars)
    BY ChannelStep
  <1>3. QED
    BY <1>1, <1>2, ChannelInvariant, PTL DEF Spec, ImplementsChannel, Channel!Spec

-----------------------------------------------------------------------------
(* Time, where a push that overflows ends the program.                     *)

\* Every entry is due its jitter after it was pushed, and the clock never ran back.
Dated ==
    /\ \A i \in 1 .. Len(rf.queue) :
          rf.queue[i].deliver_at = sentAt[rf.queue[i].frame] + rf.config.jitter_ms
    /\ \A i, j \in 1 .. Len(sentAt) : i <= j => sentAt[i] <= sentAt[j]
    /\ \A i \in 1 .. Len(sentAt) : sentAt[i] <= rf.now_ms

\* The entries are in the order of the pushes, but for the last one of a radio that
\* reorders.
Sorted ==
    \A i, j \in 1 .. Len(rf.queue) :
        i < j /\ (rf.config.reorder => j < Len(rf.queue))
            => rf.queue[i].frame < rf.queue[j].frame

TimeInv == IInv /\ Dated /\ Sorted

\* A push that does not overflow dates its entry, and keeps the order.
LEMMA PushDates ==
    ASSUME TimeInv, OverflowChecks, PushFrame
    PROVE  Dated' /\ Sorted'
  <1> DEFINE new == Len(sentAt) + 1
             n   == Len(rf.queue)
  <1>1. /\ n \in Nat /\ Len(sentAt) \in Nat /\ sentAt \in Seq(Time) /\ rf.now_ms \in Nat
        /\ \A i \in 1 .. n : rf.queue[i].frame \in 1 .. Len(sentAt)
        /\ \A i \in 1 .. Len(sentAt) : sentAt[i] \in Nat
    <2>1. IInv /\ rf \in Radio /\ sentAt \in Seq(Time) /\ Time \subseteq Nat
      BY RfAssumption DEF TimeInv, IInv, Types, Time
    <2>2. /\ n \in Nat /\ Len(sentAt) \in Nat
          /\ \A i \in 1 .. n : rf.queue[i].frame \in 1 .. Len(sentAt)
      BY <2>1, QueueFrames, Zenon
    <2>3. rf.now_ms \in Nat
      BY <2>1 DEF Radio
    <2>4. \A i \in 1 .. Len(sentAt) : sentAt[i] \in Time
      BY <2>1
    <2>5. QED
      BY <2>1, <2>2, <2>3, <2>4
  <1>2. sentAt' = Append(sentAt, rf.now_ms) /\ rf.now_ms \in Time
    BY DEF PushFrame, TimeInv, IInv, Types, Radio
  <1>3. /\ Len(sentAt') = new /\ sentAt'[new] = rf.now_ms
        /\ \A i \in 1 .. Len(sentAt) : sentAt'[i] = sentAt[i]
    BY <1>1, <1>2, AppendProperties
  <1> HIDE DEF new
  <1>4. rf'.now_ms = rf.now_ms /\ rf'.config = rf.config
    <2>1. CASE DropsNext(rf)
      BY <2>1 DEF PushFrame, Push, TimeInv, IInv, Types, Radio
    <2>2. CASE ~DropsNext(rf)
      BY <2>2 DEF PushFrame, Push, TimeInv, IInv, Types, Radio
    <2>3. QED
      BY <2>1, <2>2
  <1>5. \A i, j \in 1 .. Len(sentAt') : i <= j => sentAt'[i] <= sentAt'[j]
    <2>1. ASSUME NEW i \in 1 .. Len(sentAt'), NEW j \in 1 .. Len(sentAt'), i <= j
          PROVE  sentAt'[i] <= sentAt'[j]
      <3>1. new = Len(sentAt) + 1 /\ Len(sentAt) \in Nat
        BY <1>1 DEF new
      <3>2. CASE j = new
        <4>1. CASE i = new
          BY <1>1, <1>3, <3>2, <4>1
        <4>2. CASE i # new
          <5>1. i \in 1 .. Len(sentAt)
            BY <1>3, <3>1, <4>2
          <5>2. sentAt[i] <= rf.now_ms
            BY <5>1 DEF TimeInv, Dated
          <5>3. QED
            BY <1>3, <3>2, <5>1, <5>2
        <4>3. QED
          BY <4>1, <4>2
      <3>3. CASE j # new
        <4>1. i \in 1 .. Len(sentAt) /\ j \in 1 .. Len(sentAt)
          BY <1>3, <2>1, <3>1, <3>3
        <4>2. sentAt[i] <= sentAt[j]
          BY <2>1, <4>1 DEF TimeInv, Dated
        <4>3. QED
          BY <1>3, <4>1, <4>2
      <3>4. QED
        BY <3>2, <3>3
    <2>2. QED
      BY <2>1
  <1>6. \A i \in 1 .. Len(sentAt') : sentAt'[i] <= rf'.now_ms
    BY <1>1, <1>3, <1>4 DEF TimeInv, Dated, new
  <1>7. CASE DropsNext(rf)
    <2>1. rf'.queue = rf.queue
      BY <1>7 DEF PushFrame, Push, TimeInv, IInv, Types, Radio
    <2>2. Dated'
      BY <1>1, <1>3, <1>4, <1>5, <1>6, <2>1 DEF TimeInv, Dated
    <2>3. Sorted'
      BY <1>4, <2>1 DEF TimeInv, Sorted
    <2>4. QED
      BY <2>2, <2>3
  <1>8. CASE ~DropsNext(rf)
    <2>1. /\ Len(rf'.queue) = n + 1 /\ Place \in 1 .. n + 1
          /\ \A i \in 1 .. n + 1 :
                rf'.queue[i] = IF i = Place THEN NewEntry(rf, new)
                               ELSE IF i < Place THEN rf.queue[i] ELSE rf.queue[i - 1]
      BY <1>8, PushQueue DEF TimeInv, new
    <2>2. Place = IF rf.config.reorder /\ n # 0 THEN n ELSE n + 1
      BY DEF Place, PlaceIn, TimeInv, IInv, Types, Radio
    <2>3. NewEntry(rf, new).frame = new
          /\ NewEntry(rf, new).deliver_at = rf.now_ms + rf.config.jitter_ms
      <3>1. rf.now_ms + rf.config.jitter_ms <= TimeMax
        <4>1. ~(rf.now_ms + rf.config.jitter_ms > TimeMax)
          BY <1>8 DEF PushFrame, PushPanics
        <4>2. rf.config.jitter_ms \in Nat /\ TimeMax \in Nat
          BY RfAssumption, ChannelAssumption DEF TimeInv, IInv, Types, Radio, Config, Time
        <4>3. QED
          BY <1>1, <4>1, <4>2
      <3>2. rf.now_ms + rf.config.jitter_ms \in Nat /\ TimeMax \in Nat
        BY <1>1, RfAssumption, ChannelAssumption DEF TimeInv, IInv, Types, Radio, Config, Time
      <3>3. \A x \in Nat, m \in Nat : x <= m => x % (m + 1) = x
        OBVIOUS
      <3>4. QED
        BY <3>1, <3>2, <3>3 DEF NewEntry, DeliverAt
    <2>4. Dated'
      <3>1. ASSUME NEW i \in 1 .. n + 1
            PROVE  rf'.queue[i].deliver_at = sentAt'[rf'.queue[i].frame] + rf'.config.jitter_ms
        <4>1. CASE i = Place
          BY <1>3, <1>4, <2>1, <2>3, <4>1
        <4>2. CASE i # Place
          <5>1. PICK j \in 1 .. n : rf'.queue[i] = rf.queue[j]
            <6>1. CASE i < Place
              BY <1>1, <2>1, <6>1
            <6>2. CASE i > Place
              BY <1>1, <2>1, <6>2
            <6>3. QED
              BY <2>1, <4>2, <6>1, <6>2
          <5>2. QED
            BY <1>1, <1>3, <1>4, <5>1 DEF TimeInv, Dated
        <4>3. QED
          BY <4>1, <4>2
      <3>2. QED
        BY <1>5, <1>6, <2>1, <3>1 DEF Dated
    <2>5. Sorted'
      <3>1. ASSUME NEW i \in 1 .. n + 1, NEW j \in 1 .. n + 1,
                   i < j, rf.config.reorder => j < n + 1
            PROVE  rf'.queue[i].frame < rf'.queue[j].frame
        <4>1. CASE j = Place
          <5>1. i \in 1 .. n /\ rf'.queue[i] = rf.queue[i] /\ rf'.queue[j] = NewEntry(rf, new)
            BY <1>1, <2>1, <3>1, <4>1
          <5>2. QED
            BY <1>1, <2>3, <5>1 DEF new
        <4>2. CASE j # Place
          <5>1. j < Place /\ j \in 1 .. n /\ i \in 1 .. n
            <6>1. Place \in {n, n + 1} /\ n \in Nat /\ (Place = n => rf.config.reorder)
              BY <1>1, <2>2
            <6>2. CASE Place = n + 1
              BY <3>1, <4>2, <6>1, <6>2
            <6>3. CASE Place = n
              <7>1. j < n + 1
                BY <3>1, <6>1, <6>3
              <7>2. QED
                BY <3>1, <4>2, <6>1, <6>3, <7>1
            <6>4. QED
              BY <6>1, <6>2, <6>3
          <5>2. rf'.queue[i] = rf.queue[i] /\ rf'.queue[j] = rf.queue[j]
            BY <1>1, <2>1, <3>1, <5>1
          <5>3. rf.config.reorder => j < n
            BY <1>1, <2>2, <5>1
          <5>4. QED
            BY <3>1, <5>1, <5>2, <5>3 DEF TimeInv, Sorted
        <4>3. QED
          BY <4>1, <4>2
      <3>2. QED
        BY <1>4, <2>1, <3>1 DEF Sorted
    <2>6. QED
      BY <2>4, <2>5
  <1>9. QED
    BY <1>7, <1>8

\* A pop keeps dates and order of what is left.
LEMMA PopDates ==
    ASSUME TimeInv, PopFrame
    PROVE  Dated' /\ Sorted'
  <1> DEFINE n == Len(rf.queue)
  <1>1. n \in Nat
    BY QueueFrames DEF TimeInv
  <1>2. /\ FirstDue \in 1 .. n /\ Len(rf'.queue) = n - 1
        /\ \A i \in 1 .. n - 1 :
              rf'.queue[i] = IF i < FirstDue THEN rf.queue[i] ELSE rf.queue[i + 1]
    BY PopQueue DEF TimeInv
  <1>3. sentAt' = sentAt /\ rf'.now_ms = rf.now_ms /\ rf'.config = rf.config
    BY DEF PopFrame, Pop, TimeInv, IInv, Types, Radio
  <1> DEFINE old(i) == IF i < FirstDue THEN i ELSE i + 1
  <1>4. \A i \in 1 .. n - 1 : old(i) \in 1 .. n /\ rf'.queue[i] = rf.queue[old(i)]
    BY <1>1, <1>2
  <1>5. \A i, j \in 1 .. n - 1 : i < j => old(i) < old(j)
    BY <1>1, <1>2
  <1>6. \A i \in 1 .. n - 1 : i < n - 1 => old(i) < n
    BY <1>1, <1>2
  <1> HIDE DEF old
  <1>7. Dated'
    BY <1>2, <1>3, <1>4, SMTT(30) DEF TimeInv, Dated
  <1>8. Sorted'
    <2>1. ASSUME NEW i \in 1 .. n - 1, NEW j \in 1 .. n - 1,
                 i < j, rf.config.reorder => j < n - 1
          PROVE  rf'.queue[i].frame < rf'.queue[j].frame
      <3>1. /\ old(i) \in 1 .. n /\ old(j) \in 1 .. n /\ old(i) < old(j)
            /\ rf.config.reorder => old(j) < n
        BY <1>4, <1>5, <1>6, <2>1
      <3>2. rf.queue[old(i)].frame < rf.queue[old(j)].frame
        BY <3>1 DEF TimeInv, Sorted
      <3>3. QED
        BY <1>4, <3>2
    <2>2. QED
      BY <1>2, <1>3, <2>1 DEF Sorted
  <1>9. QED
    BY <1>7, <1>8

\* The clock keeps what the invariant says of time, for it never goes back.
LEMMA ClockDates ==
    ASSUME TimeInv, AdvanceClock
    PROVE  Dated' /\ Sorted'
  <1>1. /\ rf' = [rf EXCEPT !.now_ms = rf'.now_ms]
        /\ rf'.now_ms >= rf.now_ms /\ rf' \in Radio
    BY AdvanceType DEF TimeInv, IInv, Types
  <1>2. rf'.queue = rf.queue /\ rf'.config = rf.config
    BY <1>1 DEF TimeInv, IInv, Types, Radio
  <1>3. rf.now_ms \in Nat /\ rf'.now_ms \in Nat
    BY <1>1, RfAssumption DEF TimeInv, IInv, Types, Radio, Time
  <1>4. sentAt' = sentAt /\ \A i \in 1 .. Len(sentAt) : sentAt[i] \in Nat
    BY RfAssumption DEF AdvanceClock, TimeInv, IInv, Types, Time
  <1>5. \A i \in 1 .. Len(sentAt) : sentAt[i] <= rf'.now_ms
    BY <1>1, <1>3, <1>4 DEF TimeInv, Dated
  <1>6. QED
    BY <1>2, <1>4, <1>5 DEF TimeInv, Dated, Sorted

\* In a build with overflow checks, time keeps its order.
THEOREM TimeInvariant ==
    ASSUME OverflowChecks
    PROVE  Spec => []TimeInv
  <1>1. Init => Dated /\ Sorted
    <2> SUFFICES ASSUME Init PROVE Dated /\ Sorted
      OBVIOUS
    <2>1. PICK config \in Configs : rf = New(config)
      BY DEF Init
    <2>2. rf.queue = <<>> /\ sentAt = <<>>
      BY <2>1 DEF New, Init
    <2>3. QED
      BY <2>2 DEF Dated, Sorted
  <1>2. IInv /\ Dated /\ Sorted /\ [Next]_vars => (Dated /\ Sorted)'
    <2> SUFFICES ASSUME TimeInv, [Next]_vars PROVE Dated' /\ Sorted'
      BY DEF TimeInv
    <2>1. CASE PushFrame
      BY <2>1, PushDates
    <2>2. CASE PopFrame
      BY <2>2, PopDates
    <2>3. CASE AdvanceClock
      BY <2>3, ClockDates
    <2>4. CASE PushOverflows \/ UNCHANGED vars
      BY <2>4 DEF PushOverflows, vars, TimeInv, Dated, Sorted
    <2>5. QED
      BY <2>1, <2>2, <2>3, <2>4 DEF Next
  <1>3. QED
    BY <1>1, <1>2, ChannelInvariant, PTL DEF Spec, TimeInv

\* Only a pop takes a frame out of the queue, and it takes one.
LEMMA OnlyPopTakes ==
    ASSUME IInv, [Next]_vars, NEW frame \in Queued \ Queued'
    PROVE  PopFrame /\ frame = Popped(rf)
  <1>1. CASE PushFrame
    <2>1. CASE DropsNext(rf)
      <3>1. rf'.queue = rf.queue
        BY <1>1, <2>1 DEF PushFrame, Push, IInv, Types, Radio
      <3>2. QED
        BY <3>1 DEF Queued
    <2>2. CASE ~DropsNext(rf)
      BY <1>1, <2>2, PushQueue
    <2>3. QED
      BY <2>1, <2>2
  <1>2. CASE AdvanceClock
    <2>1. rf'.queue = rf.queue
      BY <1>2, AdvanceType DEF IInv, Types, Radio
    <2>2. QED
      BY <2>1 DEF Queued
  <1>3. CASE PushOverflows \/ UNCHANGED vars
    BY <1>3 DEF PushOverflows, vars, Queued
  <1>4. CASE PopFrame
    BY <1>4, PopQueue
  <1>5. QED
    BY <1>1, <1>2, <1>3, <1>4 DEF Next

\* In a build with overflow checks no frame is delivered before its time, for every
\* clock and jitter.  (Where the sum wraps, it may be.)
THEOREM JitterAlwaysPasses ==
    ASSUME OverflowChecks
    PROVE  Spec => JitterPasses
  <1>1. TimeInv /\ [Next]_vars =>
          \A frame \in Queued \ Queued' : rf.now_ms >= sentAt[frame] + rf.config.jitter_ms
    <2> SUFFICES ASSUME TimeInv, [Next]_vars, NEW frame \in Queued \ Queued'
                 PROVE  rf.now_ms >= sentAt[frame] + rf.config.jitter_ms
      OBVIOUS
    <2>1. PopFrame /\ frame = Popped(rf)
      BY OnlyPopTakes DEF TimeInv
    <2>2. FirstDue \in 1 .. Len(rf.queue) /\ frame = rf.queue[FirstDue].frame
          /\ rf.queue[FirstDue].deliver_at <= rf.now_ms
      BY <2>1, PopQueue DEF TimeInv
    <2>3. rf.queue[FirstDue].deliver_at = sentAt[frame] + rf.config.jitter_ms
      BY <2>2 DEF TimeInv, Dated
    <2>4. rf.queue[FirstDue].deliver_at \in Nat /\ rf.now_ms \in Nat
      BY <2>2, QueueFrames, RfAssumption DEF TimeInv, IInv, Types, Radio, Time
    <2>5. QED
      BY <2>2, <2>3, <2>4
  <1>2. QED
    BY <1>1, TimeInvariant, PTL DEF Spec, JitterPasses

\* What was pushed before the frame that is popped, and waits on, is the last entry of
\* a radio that reorders, or nothing.
LEMMA OlderThanPopped ==
    ASSUME TimeInv, PopFrame, NEW older \in Queued', older < Popped(rf)
    PROVE  rf.config.reorder /\ older = rf.queue[Len(rf.queue)].frame
  <1> DEFINE n == Len(rf.queue)
             k == FirstDue
  <1>1. /\ k \in 1 .. n /\ rf.queue[k].deliver_at <= rf.now_ms /\ Popped(rf) = rf.queue[k].frame
        /\ \A i \in 1 .. n : rf.queue[i].deliver_at <= rf.now_ms => k <= i
        /\ Queued' = Queued \ {Popped(rf)}
    BY PopQueue DEF TimeInv
  <1>2. /\ n \in Nat /\ DOMAIN rf.queue = 1 .. n /\ Len(sentAt) \in Nat
        /\ \A i \in 1 .. n : rf.queue[i].frame \in 1 .. Len(sentAt)
                             /\ rf.queue[i].deliver_at \in Nat
        /\ rf.now_ms \in Nat /\ rf.config.jitter_ms \in Nat
        /\ \A i \in 1 .. Len(sentAt) : sentAt[i] \in Nat
    <2>1. IInv /\ rf \in Radio /\ sentAt \in Seq(Time) /\ Time \subseteq Nat
      BY RfAssumption DEF TimeInv, IInv, Types, Time
    <2>2. rf.queue \in Seq(Entry) /\ n \in Nat /\ Len(sentAt) \in Nat
          /\ \A i \in 1 .. n : rf.queue[i].deliver_at \in Nat
                               /\ rf.queue[i].frame \in 1 .. Len(sentAt)
      BY <2>1, QueueFrames, Zenon
    <2>3. DOMAIN rf.queue = 1 .. n
      BY <2>2
    <2>4. rf.now_ms \in Nat /\ rf.config.jitter_ms \in Nat
      BY <2>1, ChannelAssumption DEF Radio, Config
    <2>5. \A i \in 1 .. Len(sentAt) : sentAt[i] \in Nat
      <3>1. \A i \in 1 .. Len(sentAt) : sentAt[i] \in Time
        BY <2>1
      <3>2. QED
        BY <2>1, <3>1
    <2>6. QED
      BY <2>2, <2>3, <2>4, <2>5
  <1> HIDE DEF k
  <1>3. PICK i \in 1 .. n : older = rf.queue[i].frame
    BY <1>1, <1>2 DEF Queued
  <1>4. i # k /\ rf.queue[i].frame < rf.queue[k].frame
    BY <1>1, <1>3
  <1>5. rf.queue[i].deliver_at <= rf.queue[k].deliver_at
    <2>1. sentAt[rf.queue[i].frame] <= sentAt[rf.queue[k].frame]
      <3>1. rf.queue[i].frame \in 1 .. Len(sentAt) /\ rf.queue[k].frame \in 1 .. Len(sentAt)
            /\ rf.queue[i].frame <= rf.queue[k].frame
        BY <1>1, <1>2, <1>4
      <3>2. QED
        BY <3>1 DEF TimeInv, Dated
    <2>2. /\ rf.queue[i].deliver_at = sentAt[rf.queue[i].frame] + rf.config.jitter_ms
          /\ rf.queue[k].deliver_at = sentAt[rf.queue[k].frame] + rf.config.jitter_ms
      BY <1>1 DEF TimeInv, Dated
    <2>3. sentAt[rf.queue[i].frame] \in Nat /\ sentAt[rf.queue[k].frame] \in Nat
      BY <1>1, <1>2
    <2>4. \A earlier, later, jitter \in Nat :
            earlier <= later => earlier + jitter <= later + jitter
      OBVIOUS
    <2>5. rf.config.jitter_ms \in Nat
      BY <1>2
    <2>6. QED
      BY <2>1, <2>2, <2>3, <2>4, <2>5, Zenon
  <1>6. k < i
    <2>1. rf.queue[i].deliver_at <= rf.now_ms
      BY <1>1, <1>2, <1>5
    <2>2. k <= i
      BY <1>1, <2>1
    <2>3. QED
      BY <1>1, <1>2, <1>4, <2>2
  <1>7. ~(rf.config.reorder => i < n)
    <2>1. rf.queue[k].frame \in Nat /\ rf.queue[i].frame \in Nat
      BY <1>1, <1>2
    <2>2. ~(rf.queue[k].frame < rf.queue[i].frame)
      BY <1>4, <2>1
    <2>3. QED
      BY <1>1, <1>6, <2>2 DEF TimeInv, Sorted
  <1>8. rf.config.reorder /\ i = n
    BY <1>2, <1>7
  <1>9. QED
    BY <1>3, <1>8

\* In a build with overflow checks a frame overtakes one older frame at most, and
\* none if the radio does not reorder.
THEOREM OvertakesAtMostOne ==
    ASSUME OverflowChecks
    PROVE  Spec => OvertakesOne
  <1>1. TimeInv /\ [Next]_vars =>
          \A frame \in Queued \ Queued' :
              Cardinality({older \in Queued' : older < frame})
                <= IF rf.config.reorder THEN 1 ELSE 0
    <2> SUFFICES ASSUME TimeInv, [Next]_vars, NEW frame \in Queued \ Queued'
                 PROVE  Cardinality({older \in Queued' : older < frame})
                          <= IF rf.config.reorder THEN 1 ELSE 0
      OBVIOUS
    <2> DEFINE behind == {older \in Queued' : older < frame}
               final  == rf.queue[Len(rf.queue)].frame
    <2>1. PopFrame /\ frame = Popped(rf)
      BY OnlyPopTakes DEF TimeInv
    <2>2. \A older \in behind : rf.config.reorder /\ older = final
      BY <2>1, OlderThanPopped
    <2> HIDE DEF final
    <2>3. CASE rf.config.reorder
      <3>1. behind \in SUBSET {final}
        BY <2>2
      <3>2. IsFiniteSet({final}) /\ Cardinality({final}) = 1
        BY FS_Singleton
      <3>3. Cardinality(behind) <= 1
        BY <3>1, <3>2, FS_Subset
      <3>4. QED
        BY <2>3, <3>3
    <2>4. CASE ~rf.config.reorder
      <3>1. behind = {}
        BY <2>2, <2>4
      <3>2. Cardinality(behind) = 0
        BY <3>1, FS_EmptySet
      <3>3. QED
        BY <2>4, <3>2
    <2>5. QED
      BY <2>3, <2>4
  <1>2. QED
    BY <1>1, TimeInvariant, PTL DEF Spec, OvertakesOne
=============================================================================
