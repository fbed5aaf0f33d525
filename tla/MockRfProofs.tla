---------------------------- MODULE MockRfProofs ----------------------------
(***************************************************************************)
(* What the operations of the mock radio do to its queue, for every radio  *)
(* and every frame: lemmas for the modules that hold a radio.              *)
(***************************************************************************)
EXTENDS MockRf, FunctionTheorems, FiniteSetTheorems, SequenceTheorems, TLAPS

\* A set of numbers has a least one, and Min is it.
LEMMA MinIsLeast ==
    ASSUME NEW S \in SUBSET Nat, S # {}
    PROVE  Min(S) \in S /\ \A other \in S : Min(S) <= other
  <1> DEFINE R == OpToRel(<, Nat)
  <1>1. IsWellFoundedOn(R, Nat)
    BY NatLessThanWellFounded
  <1>2. \A x, y \in Nat : x < y => <<x, y>> \in R
    BY DEF OpToRel
  <1> HIDE DEF R
  <1>3. PICK x \in S : \A y \in S : ~(<<y, x>> \in R)
    BY <1>1, WFMin
  <1>4. ASSUME NEW y \in S
        PROVE  x <= y
    <2>1. x \in Nat /\ y \in Nat /\ ~(y < x)
      BY <1>2, <1>3
    <2>2. QED
      BY <2>1
  <1>5. QED
    BY <1>4 DEF Min

\* A queue without its entry k.
LEMMA RemovedEntries ==
    ASSUME NEW S, NEW q \in Seq(S), NEW k \in 1 .. Len(q)
    PROVE  /\ RemoveAt(q, k) \in Seq(S) /\ Len(RemoveAt(q, k)) = Len(q) - 1
           /\ \A i \in 1 .. Len(q) - 1 :
                RemoveAt(q, k)[i] = IF i < k THEN q[i] ELSE q[i + 1]
  <1> DEFINE before == SubSeq(q, 1, k - 1)
             after  == SubSeq(q, k + 1, Len(q))
  <1>1. Len(q) \in Nat /\ \A i \in 1 .. Len(q) : q[i] \in S
    OBVIOUS
  <1>2. /\ before \in Seq(S) /\ Len(before) = k - 1
        /\ \A i \in 1 .. k - 1 : before[i] = q[i]
    <2>1. \A i \in 1 .. k - 1 : q[i] \in S
      BY <1>1
    <2>2. /\ before \in Seq(S)
          /\ Len(before) = IF 1 <= k - 1 THEN k - 1 - 1 + 1 ELSE 0
          /\ \A i \in 1 .. k - 1 - 1 + 1 : before[i] = q[1 + i - 1]
      BY <2>1, SubSeqProperties
    <2>3. QED
      BY <2>2
  <1>3. /\ after \in Seq(S) /\ Len(after) = Len(q) - k
        /\ \A i \in 1 .. Len(q) - k : after[i] = q[k + i]
    <2>1. \A i \in k + 1 .. Len(q) : q[i] \in S
      BY <1>1
    <2>2. /\ after \in Seq(S)
          /\ Len(after) = IF k + 1 <= Len(q) THEN Len(q) - (k + 1) + 1 ELSE 0
          /\ \A i \in 1 .. Len(q) - (k + 1) + 1 : after[i] = q[k + 1 + i - 1]
      BY <1>1, <2>1, SubSeqProperties
    <2>3. QED
      BY <1>1, <2>2
  <1>4. RemoveAt(q, k) = before \o after
    BY DEF RemoveAt
  <1> HIDE DEF before, after
  <1>5. /\ before \o after \in Seq(S)
        /\ Len(before \o after) = Len(before) + Len(after)
        /\ \A i \in 1 .. Len(before) + Len(after) :
              (before \o after)[i] =
                 IF i <= Len(before) THEN before[i] ELSE after[i - Len(before)]
    BY <1>2, <1>3, ConcatProperties
  <1>6. ASSUME NEW i \in 1 .. Len(q) - 1
        PROVE  RemoveAt(q, k)[i] = IF i < k THEN q[i] ELSE q[i + 1]
    <2>1. i \in 1 .. Len(before) + Len(after)
      BY <1>1, <1>2, <1>3
    <2>2. CASE i < k
      BY <1>2, <1>4, <1>5, <2>1, <2>2
    <2>3. CASE ~(i < k)
      <3>1. i - (k - 1) \in 1 .. Len(q) - k /\ k + (i - (k - 1)) = i + 1
        BY <1>1, <2>3
      <3>2. RemoveAt(q, k)[i] = after[i - (k - 1)]
        BY <1>2, <1>4, <1>5, <2>1, <2>3
      <3>3. QED
        BY <1>3, <2>3, <3>1, <3>2
    <2>4. QED
      BY <2>2, <2>3
  <1>7. QED
    BY <1>1, <1>2, <1>3, <1>4, <1>5, <1>6

\* The place a frame is put at: before the last entry if the radio reorders.
PlaceIn(rf) == IF rf.config.reorder /\ rf.queue # <<>> THEN Len(rf.queue) ELSE Len(rf.queue) + 1

NewEntry(rf, frame) == [deliver_at |-> DeliverAt(rf), frame |-> frame]

\* A queue with a new entry.
LEMMA EnqueuedEntries ==
    ASSUME NEW S, NEW rf, rf.queue \in Seq(S), NEW frame, NewEntry(rf, frame) \in S
    PROVE  /\ Enqueued(rf, frame) \in Seq(S) /\ Len(Enqueued(rf, frame)) = Len(rf.queue) + 1
           /\ PlaceIn(rf) \in 1 .. Len(rf.queue) + 1
           /\ \A i \in 1 .. Len(rf.queue) + 1 :
                Enqueued(rf, frame)[i] =
                   IF i = PlaceIn(rf) THEN NewEntry(rf, frame)
                   ELSE IF i < PlaceIn(rf) THEN rf.queue[i] ELSE rf.queue[i - 1]
  <1> DEFINE q     == rf.queue
             entry == NewEntry(rf, frame)
             some  == Append(Front(q), entry)
             last  == <<Last(q)>>
  <1>1. Len(q) \in Nat /\ (q = <<>> <=> Len(q) = 0) /\ \A i \in 1 .. Len(q) : q[i] \in S
    OBVIOUS
  <1>2. CASE ~(rf.config.reorder /\ q # <<>>)
    <2>1. Enqueued(rf, frame) = Append(q, entry) /\ PlaceIn(rf) = Len(q) + 1
      BY <1>2 DEF Enqueued, PlaceIn, NewEntry
    <2> HIDE DEF entry
    <2>2. /\ Append(q, entry) \in Seq(S) /\ Len(Append(q, entry)) = Len(q) + 1
          /\ \A i \in 1 .. Len(q) : Append(q, entry)[i] = q[i]
          /\ Append(q, entry)[Len(q) + 1] = entry
      BY AppendProperties DEF entry
    <2>3. QED
      BY <1>1, <2>1, <2>2 DEF entry
  <1>3. CASE rf.config.reorder /\ q # <<>>
    <2>1. Enqueued(rf, frame) = some \o last /\ PlaceIn(rf) = Len(q)
      BY <1>3 DEF Enqueued, PlaceIn, NewEntry
    <2>2. Len(q) \in Nat \ {0} /\ last \in Seq(S) /\ Len(last) = 1 /\ last[1] = q[Len(q)]
      BY <1>1, <1>3 DEF Last
    <2>3. /\ Front(q) \in Seq(S) /\ Len(Front(q)) = Len(q) - 1
          /\ \A i \in 1 .. Len(q) - 1 : Front(q)[i] = q[i]
      <3>1. \A i \in 1 .. Len(q) - 1 : q[i] \in S
        BY <1>1
      <3>2. /\ SubSeq(q, 1, Len(q) - 1) \in Seq(S)
            /\ Len(SubSeq(q, 1, Len(q) - 1)) =
                  IF 1 <= Len(q) - 1 THEN Len(q) - 1 - 1 + 1 ELSE 0
            /\ \A i \in 1 .. Len(q) - 1 - 1 + 1 :
                  SubSeq(q, 1, Len(q) - 1)[i] = q[1 + i - 1]
        BY <2>2, <3>1, SubSeqProperties
      <3>3. QED
        BY <2>2, <3>2 DEF Front
    <2> HIDE DEF entry
    <2>4. /\ some \in Seq(S) /\ Len(some) = Len(q)
          /\ \A i \in 1 .. Len(q) - 1 : some[i] = q[i]
          /\ some[Len(q)] = entry
      <3>1. /\ some \in Seq(S) /\ Len(some) = Len(Front(q)) + 1
            /\ \A i \in 1 .. Len(Front(q)) : some[i] = Front(q)[i]
            /\ some[Len(Front(q)) + 1] = entry
        BY <2>3, AppendProperties DEF entry
      <3> HIDE DEF some
      <3>2. QED
        BY <2>2, <2>3, <3>1
    <2> HIDE DEF some, last
    <2>5. /\ some \o last \in Seq(S) /\ Len(some \o last) = Len(some) + Len(last)
          /\ \A i \in 1 .. Len(some) + Len(last) :
                (some \o last)[i] = IF i <= Len(some) THEN some[i] ELSE last[i - Len(some)]
      <3>1. some \in Seq(S) /\ last \in Seq(S)
        BY <2>2, <2>4
      <3>2. QED
        BY <3>1, ConcatProperties, Zenon
    <2>6. ASSUME NEW i \in 1 .. Len(q) + 1
          PROVE  (some \o last)[i] =
                   IF i = Len(q) THEN entry ELSE IF i < Len(q) THEN q[i] ELSE q[i - 1]
      BY <2>2, <2>4, <2>5
    <2>7. QED
      BY <2>1, <2>2, <2>4, <2>5, <2>6 DEF entry
  <1>4. QED
    BY <1>2, <1>3

-----------------------------------------------------------------------------
(* Copies of a frame.                                                      *)

\* The places at which a queue holds the frame.
Holds(q, frame) == {i \in DOMAIN q : q[i].frame = frame}

Copies(q, frame) == Cardinality(Holds(q, frame))

\* A queue of length n, and a longer one that has an entry more, at place k.
OneMore(q, longer, n, k) ==
    /\ n \in Nat /\ k \in 1 .. n + 1
    /\ DOMAIN q = 1 .. n /\ DOMAIN longer = 1 .. n + 1
    /\ \A i \in 1 .. n : q[i] = longer[IF i < k THEN i ELSE i + 1]

\* The longer one has a copy more of what that entry holds, and of nothing else.
LEMMA OneMoreCopy ==
    ASSUME NEW q, NEW longer, NEW n, NEW k, OneMore(q, longer, n, k), NEW frame
    PROVE  /\ Copies(q, frame) \in Nat
           /\ longer[k].frame = frame => Copies(longer, frame) = Copies(q, frame) + 1
           /\ longer[k].frame # frame => Copies(longer, frame) = Copies(q, frame)
  <1> DEFINE S == Holds(q, frame)
             T == Holds(longer, frame)
             f == [i \in S |-> IF i < k THEN i ELSE i + 1]
  <1> n \in Nat /\ k \in 1 .. n + 1 /\ DOMAIN q = 1 .. n /\ DOMAIN longer = 1 .. n + 1
      /\ \A i \in 1 .. n : q[i] = longer[IF i < k THEN i ELSE i + 1]
    BY DEF OneMore
  <1>1. S = {i \in 1 .. n : q[i].frame = frame} /\ T = {i \in 1 .. n + 1 : longer[i].frame = frame}
    BY DEF Holds
  <1>2. IsFiniteSet(S) /\ IsFiniteSet(T) /\ Cardinality(S) \in Nat
    <2>1. IsFiniteSet(1 .. n) /\ IsFiniteSet(1 .. n + 1)
      BY FS_Interval
    <2>2. S \subseteq 1 .. n /\ T \subseteq 1 .. n + 1
      BY <1>1
    <2>3. QED
      BY <2>1, <2>2, FS_Subset, FS_CardinalityType
  <1> HIDE DEF S, T
  <1>3. ASSUME NEW i \in S
        PROVE  f[i] \in T \ {k}
    <2>1. i \in 1 .. n /\ q[i].frame = frame /\ f[i] = IF i < k THEN i ELSE i + 1
      BY <1>1
    <2>2. f[i] \in 1 .. n + 1 /\ f[i] # k
      BY <2>1
    <2>3. longer[f[i]].frame = frame
      BY <2>1
    <2>4. QED
      BY <1>1, <2>2, <2>3
  <1>4. \A i, j \in S : f[i] = f[j] => i = j
    <2>1. S \subseteq Int
      BY <1>1
    <2>2. QED
      BY <2>1
  <1>5. ASSUME NEW j \in T \ {k}
        PROVE  \E i \in S : f[i] = j
    <2>1. j \in 1 .. n + 1 /\ j # k /\ longer[j].frame = frame
      BY <1>1
    <2>2. CASE j < k
      <3>1. j \in 1 .. n /\ q[j] = longer[j]
        BY <2>1, <2>2
      <3>2. j \in S /\ f[j] = j
        BY <1>1, <2>1, <2>2, <3>1
      <3>3. QED
        BY <3>2
    <2>3. CASE j > k
      <3>1. j - 1 \in 1 .. n /\ ~(j - 1 < k) /\ j - 1 + 1 = j
        BY <2>1, <2>3
      <3>2. q[j - 1] = longer[j]
        BY <3>1
      <3>3. j - 1 \in S
        BY <1>1, <2>1, <3>1, <3>2
      <3>4. f[j - 1] = j
        BY <3>1, <3>3
      <3>5. QED
        BY <3>3, <3>4
    <2>4. QED
      BY <2>1, <2>2, <2>3
  <1>6. f \in Bijection(S, T \ {k})
    <2>1. f \in [S -> T \ {k}]
      BY <1>3
    <2> HIDE DEF f
    <2>2. QED
      BY <1>4, <1>5, <2>1, Fun_IsBij
  <1>7. Cardinality(T \ {k}) = Cardinality(S)
    <2>1. ExistsBijection(S, T \ {k})
      BY <1>6, Fun_ExistsBij
    <2>2. QED
      BY <1>2, <2>1, FS_Bijection
  <1>8. k \in T <=> longer[k].frame = frame
    BY <1>1
  <1>9. Cardinality(T \ {k}) = IF k \in T THEN Cardinality(T) - 1 ELSE Cardinality(T)
    BY <1>2, FS_RemoveElement
  <1>10. Cardinality(T) \in Nat
    BY <1>2, FS_CardinalityType
  <1>11. QED
    BY <1>2, <1>7, <1>8, <1>9, <1>10 DEF Copies, S, T

\* An empty queue holds no copies.
LEMMA NoCopies ==
    ASSUME NEW frame
    PROVE  Copies(<<>>, frame) = 0
  <1>1. Holds(<<>>, frame) = {}
    BY DEF Holds
  <1>2. QED
    BY <1>1, FS_EmptySet DEF Copies

-----------------------------------------------------------------------------
(* The operations.                                                         *)

Entries(Frames) == [deliver_at : Time, frame : Frames]

\* The radios that carry frames of a set.
Radios(Frames) ==
    [config : Config, now_ms : Time, queue : Seq(Entries(Frames)), delivered : Nat,
     dropped : Nat, first_frame_seen : BOOLEAN]

\* A radio that carries frames of a set carries frames of a larger one.
LEMMA RadiosGrow ==
    ASSUME NEW Frames, NEW More, Frames \subseteq More, NEW rf \in Radios(Frames)
    PROVE  rf \in Radios(More)
  <1>1. Entries(Frames) \subseteq Entries(More)
    BY DEF Entries
  <1>2. rf.queue \in Seq(Entries(More))
    BY <1>1, SeqMonotonic DEF Radios
  <1>3. QED
    BY <1>2 DEF Radios

\* A new radio carries nothing.
LEMMA NewOutcome ==
    ASSUME NEW config \in Config, NEW Frames
    PROVE  /\ New(config) \in Radios(Frames)
           /\ New(config).config = config /\ New(config).now_ms = 0
           /\ New(config).queue = <<>> /\ New(config).dropped = 0
           /\ New(config).first_frame_seen = FALSE
  BY RfAssumption DEF New, Radios, Time

\* The clock moves by what it is told to at most, and nothing else does.
LEMMA AdvanceOutcome ==
    ASSUME NEW Frames, NEW rf \in Radios(Frames), NEW delta \in Nat
    PROVE  /\ Advance(rf, delta) \in Radios(Frames)
           /\ Advance(rf, delta).config = rf.config
           /\ Advance(rf, delta).queue = rf.queue
           /\ Advance(rf, delta).now_ms <= rf.now_ms + delta
           /\ Advance(rf, delta).dropped = rf.dropped
           /\ Advance(rf, delta).first_frame_seen = rf.first_frame_seen
  <1> DEFINE now == IF rf.now_ms + delta > TimeMax THEN TimeMax ELSE rf.now_ms + delta
  <1>1. rf.now_ms \in 0 .. TimeMax
    BY DEF Radios, Time
  <1>2. now \in Time /\ now <= rf.now_ms + delta
    BY <1>1, RfAssumption DEF Time
  <1>3. Advance(rf, delta) = [rf EXCEPT !.now_ms = now]
    BY DEF Advance
  <1> HIDE DEF now
  <1>4. QED
    BY <1>2, <1>3 DEF Radios

\* A push adds a copy of the frame at most, and moves no clock.
LEMMA PushOutcome ==
    ASSUME NEW Frames, NEW rf \in Radios(Frames), NEW frame \in Frames
    PROVE  /\ Push(rf, frame) \in Radios(Frames)
           /\ Push(rf, frame).config = rf.config
           /\ Push(rf, frame).now_ms = rf.now_ms
           /\ \A other :
                /\ Copies(rf.queue, other) \in Nat /\ Copies(Push(rf, frame).queue, other) \in Nat
                /\ Copies(Push(rf, frame).queue, other) <=
                     Copies(rf.queue, other) + IF other = frame THEN 1 ELSE 0
  <1> DEFINE q == rf.queue
             n == Len(q)
             k == PlaceIn(rf)
             E == Enqueued(rf, frame)
  <1>1. q \in Seq(Entries(Frames)) /\ n \in Nat /\ DOMAIN q = 1 .. n
    BY DEF Radios
  <1>2. NewEntry(rf, frame) \in Entries(Frames)
    <2>1. rf.now_ms \in Nat /\ rf.config.jitter_ms \in Nat
      BY RfAssumption DEF Radios, Config, Time
    <2>2. \A now, jitter, max \in Nat : (now + jitter) % (max + 1) \in 0 .. max
      OBVIOUS
    <2>3. (rf.now_ms + rf.config.jitter_ms) % (TimeMax + 1) \in 0 .. TimeMax
      BY <2>1, <2>2, RfAssumption
    <2>4. DeliverAt(rf) \in Time
      BY <2>3 DEF DeliverAt, Time
    <2>5. QED
      BY <2>4 DEF NewEntry, Entries
  <1>3. /\ E \in Seq(Entries(Frames)) /\ Len(E) = n + 1 /\ k \in 1 .. n + 1
        /\ \A i \in 1 .. n + 1 :
              E[i] = IF i = k THEN NewEntry(rf, frame)
                     ELSE IF i < k THEN q[i] ELSE q[i - 1]
    BY <1>1, <1>2, EnqueuedEntries
  <1> HIDE DEF q, n, k, E
  <1>4. DOMAIN E = 1 .. n + 1
    BY <1>3
  <1>5. OneMore(q, E, n, k)
    <2>1. \A i \in 1 .. n : q[i] = E[IF i < k THEN i ELSE i + 1]
      BY <1>1, <1>3
    <2>2. QED
      BY <1>1, <1>3, <1>4, <2>1 DEF OneMore
  <1>6. E[k].frame = frame
    BY <1>3 DEF NewEntry
  <1>7. ASSUME NEW other
        PROVE  /\ Copies(q, other) \in Nat
               /\ Copies(E, other) = IF other = frame THEN Copies(q, other) + 1
                                     ELSE Copies(q, other)
    <2>1. /\ Copies(q, other) \in Nat
          /\ E[k].frame = other => Copies(E, other) = Copies(q, other) + 1
          /\ E[k].frame # other => Copies(E, other) = Copies(q, other)
      BY <1>5, OneMoreCopy, Zenon
    <2>2. QED
      BY <1>6, <2>1
  <1>8. CASE DropsNext(rf)
    <2> DEFINE more == rf.dropped + 1
    <2>1. more \in Nat
      BY DEF Radios
    <2>2. Push(rf, frame) = [rf EXCEPT !.first_frame_seen = TRUE, !.dropped = more]
      BY <1>8 DEF Push
    <2> HIDE DEF more
    <2>3. /\ Push(rf, frame) \in Radios(Frames) /\ Push(rf, frame).config = rf.config
          /\ Push(rf, frame).now_ms = rf.now_ms /\ Push(rf, frame).queue = q
      BY <2>1, <2>2 DEF Radios, q
    <2>4. QED
      BY <1>7, <2>3 DEF q
  <1>9. CASE ~DropsNext(rf)
    <2>1. Push(rf, frame) = [rf EXCEPT !.first_frame_seen = TRUE, !.queue = E]
      BY <1>9 DEF Push, E
    <2>2. /\ Push(rf, frame) \in Radios(Frames) /\ Push(rf, frame).config = rf.config
          /\ Push(rf, frame).now_ms = rf.now_ms /\ Push(rf, frame).queue = E
      BY <1>3, <2>1 DEF Radios
    <2>3. QED
      BY <1>7, <2>2 DEF q
  <1>10. QED
    BY <1>8, <1>9

\* A pop takes the first entry that is due, and only that.
LEMMA PopOutcome ==
    ASSUME NEW Frames, NEW rf \in Radios(Frames), Deliverable(rf) # {}
    PROVE  /\ Popped(rf) \in Frames
           /\ Pop(rf) \in Radios(Frames)
           /\ Pop(rf).config = rf.config /\ Pop(rf).now_ms = rf.now_ms
           /\ \A other :
                /\ Copies(rf.queue, other) \in Nat /\ Copies(Pop(rf).queue, other) \in Nat
                /\ Copies(rf.queue, other) =
                     IF other = Popped(rf) THEN Copies(Pop(rf).queue, other) + 1
                     ELSE Copies(Pop(rf).queue, other)
  <1> DEFINE q == rf.queue
             n == Len(q)
             k == Min(Deliverable(rf))
             R == RemoveAt(q, k)
  <1>1. q \in Seq(Entries(Frames)) /\ n \in Nat /\ DOMAIN q = 1 .. n
    BY DEF Radios
  <1>2. k \in 1 .. n
    <2>1. Deliverable(rf) \in SUBSET Nat /\ Deliverable(rf) \subseteq 1 .. n
      BY <1>1 DEF Deliverable
    <2>2. k \in Deliverable(rf)
      BY <2>1, MinIsLeast
    <2>3. QED
      BY <2>1, <2>2
  <1>3. /\ R \in Seq(Entries(Frames)) /\ Len(R) = n - 1
        /\ \A i \in 1 .. n - 1 : R[i] = IF i < k THEN q[i] ELSE q[i + 1]
    BY <1>1, <1>2, RemovedEntries
  <1>4. Popped(rf) = q[k].frame
    BY DEF Popped
  <1>5. q[k] \in Entries(Frames)
    BY <1>1, <1>2
  <1>6. Popped(rf) \in Frames
    BY <1>4, <1>5 DEF Entries
  <1> DEFINE more == rf.delivered + 1
  <1>7. Pop(rf) = [rf EXCEPT !.delivered = more, !.queue = R] /\ more \in Nat
    BY DEF Pop, Radios
  <1> HIDE DEF k, R, more
  <1>8. /\ Pop(rf) \in Radios(Frames) /\ Pop(rf).queue = R
        /\ Pop(rf).config = rf.config /\ Pop(rf).now_ms = rf.now_ms
    BY <1>3, <1>7 DEF Radios
  <1> HIDE DEF q, n
  <1>9. DOMAIN R = 1 .. n - 1 /\ n - 1 \in Nat /\ k \in 1 .. (n - 1) + 1
        /\ DOMAIN q = 1 .. (n - 1) + 1
    BY <1>1, <1>2, <1>3
  <1>10. OneMore(R, q, n - 1, k)
    <2>1. \A i \in 1 .. n - 1 : R[i] = q[IF i < k THEN i ELSE i + 1]
      BY <1>1, <1>2, <1>3
    <2>2. QED
      BY <1>9, <2>1 DEF OneMore
  <1>11. ASSUME NEW other
         PROVE  /\ Copies(R, other) \in Nat
                /\ Copies(q, other) = IF other = Popped(rf) THEN Copies(R, other) + 1
                                      ELSE Copies(R, other)
    <2>1. /\ Copies(R, other) \in Nat
          /\ q[k].frame = other => Copies(q, other) = Copies(R, other) + 1
          /\ q[k].frame # other => Copies(q, other) = Copies(R, other)
      BY <1>10, OneMoreCopy, Zenon
    <2>2. QED
      BY <1>4, <2>1
  <1>12. QED
    BY <1>6, <1>8, <1>11 DEF q

\* A push makes the queue longer by one, or else drops the frame and counts it.
LEMMA PushLength ==
    ASSUME NEW Frames, NEW rf \in Radios(Frames), NEW frame \in Frames
    PROVE  /\ Push(rf, frame).first_frame_seen = TRUE
           /\ DropsNext(rf) => /\ Len(Push(rf, frame).queue) = Len(rf.queue)
                               /\ Push(rf, frame).dropped = rf.dropped + 1
           /\ ~DropsNext(rf) => /\ Len(Push(rf, frame).queue) = Len(rf.queue) + 1
                                /\ Push(rf, frame).dropped = rf.dropped
  <1>1. CASE DropsNext(rf)
    <2> DEFINE more == rf.dropped + 1
    <2>1. Push(rf, frame) = [rf EXCEPT !.first_frame_seen = TRUE, !.dropped = more]
      BY <1>1 DEF Push
    <2> HIDE DEF more
    <2>2. /\ Push(rf, frame).first_frame_seen = TRUE /\ Push(rf, frame).dropped = more
          /\ Push(rf, frame).queue = rf.queue
      BY <2>1 DEF Radios
    <2>3. QED
      BY <1>1, <2>2 DEF more
  <1>2. CASE ~DropsNext(rf)
    <2> DEFINE E == Enqueued(rf, frame)
    <2>1. Push(rf, frame) = [rf EXCEPT !.first_frame_seen = TRUE, !.queue = E]
      BY <1>2 DEF Push
    <2>2. Len(E) = Len(rf.queue) + 1
      <3>1. rf.queue \in Seq(Entries(Frames) \union {NewEntry(rf, frame)})
        <4>1. Entries(Frames) \subseteq Entries(Frames) \union {NewEntry(rf, frame)}
          OBVIOUS
        <4>2. QED
          BY <4>1, SeqMonotonic DEF Radios
      <3>2. QED
        BY <3>1, EnqueuedEntries
    <2> HIDE DEF E
    <2>3. /\ Push(rf, frame).first_frame_seen = TRUE /\ Push(rf, frame).queue = E
          /\ Push(rf, frame).dropped = rf.dropped
      BY <2>1 DEF Radios
    <2>4. QED
      BY <1>2, <2>2, <2>3
  <1>3. QED
    BY <1>1, <1>2

\* A pop makes the queue shorter by one, and drops nothing.
LEMMA PopLength ==
    ASSUME NEW Frames, NEW rf \in Radios(Frames), Deliverable(rf) # {}
    PROVE  /\ Len(Pop(rf).queue) = Len(rf.queue) - 1
           /\ Pop(rf).dropped = rf.dropped /\ Pop(rf).first_frame_seen = rf.first_frame_seen
  <1> DEFINE k    == Min(Deliverable(rf))
             R    == RemoveAt(rf.queue, k)
             more == rf.delivered + 1
  <1>1. rf.queue \in Seq(Entries(Frames))
    BY DEF Radios
  <1>2. k \in 1 .. Len(rf.queue)
    <2>1. Deliverable(rf) \in SUBSET Nat /\ Deliverable(rf) \subseteq 1 .. Len(rf.queue)
      BY <1>1 DEF Deliverable
    <2>2. k \in Deliverable(rf)
      BY <2>1, MinIsLeast
    <2>3. QED
      BY <2>1, <2>2
  <1>3. Len(R) = Len(rf.queue) - 1
    BY <1>1, <1>2, RemovedEntries
  <1>4. Pop(rf) = [rf EXCEPT !.delivered = more, !.queue = R]
    BY DEF Pop
  <1> HIDE DEF k, R, more
  <1>5. QED
    BY <1>3, <1>4 DEF Radios

-----------------------------------------------------------------------------
(* What is on the radio, and when it is due.                               *)

\* The queue holds the frame.
On(q, frame) == \E i \in DOMAIN q : q[i].frame = frame

\* All the queue holds is due at time t.
DueBy(q, t) == \A i \in DOMAIN q : q[i].deliver_at <= t

\* A push takes nothing off the radio, puts the frame on it unless it is dropped, and
\* has it due after the jitter at the latest.
LEMMA PushEntries ==
    ASSUME NEW Frames, NEW rf \in Radios(Frames), NEW frame \in Frames
    PROVE  /\ \A other : On(rf.queue, other) => On(Push(rf, frame).queue, other)
           /\ ~DropsNext(rf) => On(Push(rf, frame).queue, frame)
           /\ \A t \in Nat :
                 DueBy(rf.queue, t) /\ rf.now_ms + rf.config.jitter_ms <= t
                    => DueBy(Push(rf, frame).queue, t)
  <1> DEFINE q == rf.queue
             n == Len(q)
             k == PlaceIn(rf)
             E == Enqueued(rf, frame)
             due == DeliverAt(rf)
  <1>1. q \in Seq(Entries(Frames)) /\ n \in Nat /\ DOMAIN q = 1 .. n
    BY DEF Radios
  <1>2. due \in Time /\ due <= rf.now_ms + rf.config.jitter_ms
    <2>1. rf.now_ms \in Nat /\ rf.config.jitter_ms \in Nat
      BY RfAssumption DEF Radios, Config, Time
    <2> DEFINE sum == rf.now_ms + rf.config.jitter_ms
               end == TimeMax + 1
    <2>2. \A x \in Nat, m \in Nat \ {0} : x % m \in 0 .. m - 1 /\ x % m <= x
      OBVIOUS
    <2>3. sum \in Nat /\ end \in Nat \ {0} /\ end - 1 = TimeMax
      BY <2>1, RfAssumption
    <2>4. due = sum % end
      BY DEF DeliverAt
    <2> HIDE DEF sum, end, due
    <2>5. due \in 0 .. end - 1 /\ due <= sum
      BY <2>2, <2>3, <2>4
    <2>6. QED
      BY <2>3, <2>5 DEF Time, sum
  <1>3. NewEntry(rf, frame) = [deliver_at |-> due, frame |-> frame]
    BY DEF NewEntry
  <1> HIDE DEF due
  <1>4. NewEntry(rf, frame) \in Entries(Frames)
    BY <1>2, <1>3 DEF Entries
  <1>5. /\ E \in Seq(Entries(Frames)) /\ Len(E) = n + 1 /\ k \in 1 .. n + 1
        /\ \A i \in 1 .. n + 1 :
              E[i] = IF i = k THEN NewEntry(rf, frame)
                     ELSE IF i < k THEN q[i] ELSE q[i - 1]
    BY <1>1, <1>4, EnqueuedEntries
  <1> HIDE DEF q, n, k, E
  <1>6. DOMAIN E = 1 .. n + 1
    BY <1>5
  <1>7. ASSUME NEW other, On(q, other)
        PROVE  On(E, other)
    <2>1. PICK i \in 1 .. n : q[i].frame = other
      BY <1>1, <1>7 DEF On
    <2>2. PICK j \in 1 .. n + 1 : j = IF i < k THEN i ELSE i + 1
      BY <1>1, <1>5
    <2>3. E[j] = q[i]
      BY <1>1, <1>5, <2>2
    <2>4. QED
      BY <1>6, <2>1, <2>3 DEF On
  <1>8. On(E, frame)
    <2>1. E[k].frame = frame /\ k \in DOMAIN E
      BY <1>3, <1>5, <1>6
    <2>2. QED
      BY <2>1 DEF On
  <1>9. ASSUME NEW t \in Nat, DueBy(q, t), rf.now_ms + rf.config.jitter_ms <= t
        PROVE  DueBy(E, t)
    <2> SUFFICES ASSUME NEW i \in 1 .. n + 1
                 PROVE  E[i].deliver_at <= t
      BY <1>6 DEF DueBy
    <2>1. CASE i = k
      <3>1. E[i].deliver_at = due
        BY <1>3, <1>5, <2>1
      <3>2. due \in Nat /\ rf.now_ms \in Nat /\ rf.config.jitter_ms \in Nat
        BY <1>2, RfAssumption DEF Radios, Config, Time
      <3>3. QED
        BY <1>2, <1>9, <3>1, <3>2
    <2>2. CASE i # k
      <3>1. PICK j \in 1 .. n : E[i] = q[j]
        BY <1>1, <1>5, <2>2
      <3>2. QED
        BY <1>1, <1>9, <3>1 DEF DueBy
    <2>3. QED
      BY <2>1, <2>2
  <1>10. Push(rf, frame).queue = IF DropsNext(rf) THEN q ELSE E
    BY DEF Push, Radios, q, E
  <1>11. QED
    BY <1>7, <1>8, <1>9, <1>10 DEF q

\* A pop leaves what it does not return where it is.
LEMMA PopEntries ==
    ASSUME NEW Frames, NEW rf \in Radios(Frames), Deliverable(rf) # {}
    PROVE  /\ On(rf.queue, Popped(rf))
           /\ \A other : On(rf.queue, other) /\ other # Popped(rf) => On(Pop(rf).queue, other)
           /\ \A t \in Nat : DueBy(rf.queue, t) => DueBy(Pop(rf).queue, t)
  <1> DEFINE q == rf.queue
             n == Len(q)
             k == Min(Deliverable(rf))
             R == RemoveAt(q, k)
             more == rf.delivered + 1
  <1>1. q \in Seq(Entries(Frames)) /\ n \in Nat /\ DOMAIN q = 1 .. n
    BY DEF Radios
  <1>2. k \in 1 .. n
    <2>1. Deliverable(rf) \in SUBSET Nat /\ Deliverable(rf) \subseteq 1 .. n
      BY <1>1 DEF Deliverable
    <2>2. k \in Deliverable(rf)
      BY <2>1, MinIsLeast
    <2>3. QED
      BY <2>1, <2>2
  <1>3. /\ R \in Seq(Entries(Frames)) /\ Len(R) = n - 1
        /\ \A i \in 1 .. n - 1 : R[i] = IF i < k THEN q[i] ELSE q[i + 1]
    BY <1>1, <1>2, RemovedEntries
  <1>4. Popped(rf) = q[k].frame
    BY DEF Popped
  <1>5. Pop(rf).queue = R
    <2>1. Pop(rf) = [rf EXCEPT !.delivered = more, !.queue = R]
      BY DEF Pop
    <2> HIDE DEF R, more
    <2>2. QED
      BY <2>1 DEF Radios
  <1> HIDE DEF q, n, k, R
  <1>6. DOMAIN R = 1 .. n - 1
    BY <1>1, <1>3
  <1>7. ASSUME NEW other, On(q, other), other # Popped(rf)
        PROVE  On(R, other)
    <2>1. PICK i \in 1 .. n : q[i].frame = other
      BY <1>1, <1>7 DEF On
    <2>2. i # k
      BY <1>4, <1>7, <2>1
    <2>3. PICK j \in 1 .. n - 1 : j = IF i < k THEN i ELSE i - 1
      BY <1>1, <1>2, <2>2
    <2>4. R[j] = q[i]
      BY <1>1, <1>2, <1>3, <2>2, <2>3
    <2>5. QED
      BY <1>6, <2>1, <2>4 DEF On
  <1>8. ASSUME NEW t \in Nat, DueBy(q, t)
        PROVE  DueBy(R, t)
    <2> SUFFICES ASSUME NEW i \in 1 .. n - 1
                 PROVE  R[i].deliver_at <= t
      BY <1>6 DEF DueBy
    <2>1. PICK j \in 1 .. n : R[i] = q[j]
      BY <1>1, <1>2, <1>3
    <2>2. QED
      BY <1>1, <1>8, <2>1 DEF DueBy
  <1>9. On(q, Popped(rf))
    BY <1>1, <1>2, <1>4 DEF On
  <1>10. QED
    BY <1>5, <1>7, <1>8, <1>9 DEF q

\* When the clock has moved by delta, all is due that was to be due within delta, and
\* what was to be due within some longer time still is; the end of the clock is late
\* enough for anything.
LEMMA AdvanceDue ==
    ASSUME NEW Frames, NEW rf \in Radios(Frames), NEW delta \in Nat, NEW jitter \in Nat,
           DueBy(rf.queue, rf.now_ms + jitter)
    PROVE  LET after == Advance(rf, delta)
           IN  /\ DueBy(after.queue, after.now_ms + jitter)
               /\ jitter <= delta => DueBy(after.queue, after.now_ms)
  <1> DEFINE q   == rf.queue
             now == IF rf.now_ms + delta > TimeMax THEN TimeMax ELSE rf.now_ms + delta
  <1>1. Advance(rf, delta) = [rf EXCEPT !.now_ms = now]
    BY DEF Advance
  <1>2. rf.now_ms \in 0 .. TimeMax /\ TimeMax \in Nat
    BY RfAssumption DEF Radios, Time
  <1>3. now \in Nat /\ rf.now_ms <= now /\ (now = TimeMax \/ now = rf.now_ms + delta)
    BY <1>2
  <1> HIDE DEF now
  <1>4. Advance(rf, delta).queue = q /\ Advance(rf, delta).now_ms = now
    BY <1>1 DEF Radios
  <1>5. ASSUME NEW i \in DOMAIN q
        PROVE  /\ q[i].deliver_at <= now + jitter
               /\ jitter <= delta => q[i].deliver_at <= now
    <2>1. q[i] \in Entries(Frames)
      BY DEF Radios
    <2>2. q[i].deliver_at \in 0 .. TimeMax /\ q[i].deliver_at <= rf.now_ms + jitter
      BY <2>1 DEF Entries, Time, DueBy
    <2>3. QED
      BY <1>2, <1>3, <2>2
  <1> HIDE DEF q
  <1>6. QED
    BY <1>4, <1>5 DEF DueBy

\* When all is due and nothing is left to deliver, the radio is empty.
LEMMA AllDelivered ==
    ASSUME NEW rf, DueBy(rf.queue, rf.now_ms), Deliverable(rf) = {}, NEW frame
    PROVE  ~On(rf.queue, frame)
  BY DEF DueBy, Deliverable, On

\* Its queue has no entry then.
LEMMA AllDeliveredEmpty ==
    ASSUME NEW Frames, NEW rf \in Radios(Frames), DueBy(rf.queue, rf.now_ms), Deliverable(rf) = {}
    PROVE  rf.queue = <<>>
  <1> DEFINE q == rf.queue
  <1>1. q \in Seq(Entries(Frames))
    BY DEF Radios
  <1>2. DOMAIN q = {}
    BY DEF DueBy, Deliverable
  <1> HIDE DEF q
  <1>3. Len(q) \in Nat /\ DOMAIN q = 1 .. Len(q) /\ (q = <<>> <=> Len(q) = 0)
    BY <1>1
  <1>4. Len(q) = 0
    <2> SUFFICES ASSUME Len(q) # 0 PROVE FALSE
      OBVIOUS
    <2>1. 1 \in 1 .. Len(q)
      BY <1>3
    <2>2. QED
      BY <1>2, <1>3, <2>1
  <1>5. QED
    BY <1>3, <1>4 DEF q

\* A push adds an entry that is not due before the jitter has passed, unless the frame
\* is dropped or the time of its delivery wraps.
LEMMA PushNotDue ==
    ASSUME NEW Frames, NEW rf \in Radios(Frames), NEW frame \in Frames, ~DropsNext(rf),
           rf.now_ms + rf.config.jitter_ms <= TimeMax,
           NEW t \in Nat, t < rf.now_ms + rf.config.jitter_ms
    PROVE  ~DueBy(Push(rf, frame).queue, t)
  <1> DEFINE sum == rf.now_ms + rf.config.jitter_ms
             n == Len(rf.queue)
             k == PlaceIn(rf)
             E == Enqueued(rf, frame)
  <1>1. rf.queue \in Seq(Entries(Frames)) /\ n \in Nat
    BY DEF Radios
  <1>2. sum \in 0 .. TimeMax /\ DeliverAt(rf) = sum
    <2>1. rf.now_ms \in Nat /\ rf.config.jitter_ms \in Nat
      BY RfAssumption DEF Radios, Config, Time
    <2>2. \A x, m \in Nat : x <= m => x % (m + 1) = x
      OBVIOUS
    <2>3. sum \in Nat /\ sum <= TimeMax /\ TimeMax \in Nat
      BY <2>1, RfAssumption
    <2>4. DeliverAt(rf) = sum % (TimeMax + 1)
      BY DEF DeliverAt
    <2> HIDE DEF sum
    <2>5. QED
      BY <2>2, <2>3, <2>4
  <1>3. NewEntry(rf, frame) \in Entries(Frames) /\ NewEntry(rf, frame).deliver_at = sum
    BY <1>2 DEF NewEntry, Entries, Time
  <1>4. E \in Seq(Entries(Frames)) /\ Len(E) = n + 1 /\ k \in 1 .. n + 1 /\ E[k] = NewEntry(rf, frame)
    BY <1>1, <1>3, EnqueuedEntries
  <1>5. Push(rf, frame).queue = E
    BY DEF Push, Radios
  <1> HIDE DEF n, k, E
  <1>6. k \in DOMAIN E /\ ~(E[k].deliver_at <= t)
    <2>1. k \in DOMAIN E
      BY <1>4
    <2>2. sum \in Nat /\ t < sum
      BY <1>2, RfAssumption
    <2> HIDE DEF sum
    <2>3. QED
      BY <1>3, <1>4, <2>1, <2>2
  <1>7. QED
    BY <1>5, <1>6 DEF DueBy

\* A pop takes what is due, so an entry that is not stays.
LEMMA PopLeavesLate ==
    ASSUME NEW Frames, NEW rf \in Radios(Frames), Deliverable(rf) # {},
           ~DueBy(rf.queue, rf.now_ms)
    PROVE  ~DueBy(Pop(rf).queue, rf.now_ms)
  <1> DEFINE q == rf.queue
             n == Len(q)
             k == Min(Deliverable(rf))
             R == RemoveAt(q, k)
             more == rf.delivered + 1
  <1>1. q \in Seq(Entries(Frames)) /\ n \in Nat /\ DOMAIN q = 1 .. n
    BY DEF Radios
  <1>2. k \in 1 .. n /\ q[k].deliver_at <= rf.now_ms
    <2>1. Deliverable(rf) \in SUBSET Nat /\ Deliverable(rf) \subseteq 1 .. n
      BY <1>1 DEF Deliverable
    <2>2. k \in Deliverable(rf)
      BY <2>1, MinIsLeast
    <2>3. QED
      BY <2>1, <2>2 DEF Deliverable
  <1>3. /\ R \in Seq(Entries(Frames)) /\ Len(R) = n - 1
        /\ \A i \in 1 .. n - 1 : R[i] = IF i < k THEN q[i] ELSE q[i + 1]
    BY <1>1, <1>2, RemovedEntries
  <1>4. Pop(rf).queue = R
    <2>1. Pop(rf) = [rf EXCEPT !.delivered = more, !.queue = R]
      BY DEF Pop
    <2> HIDE DEF R, more
    <2>2. QED
      BY <2>1 DEF Radios
  <1>5. PICK i \in 1 .. n : ~(q[i].deliver_at <= rf.now_ms)
    BY <1>1 DEF DueBy
  <1> HIDE DEF q, n, k, R
  <1>6. i # k
    BY <1>2, <1>5
  <1>7. PICK j \in 1 .. n - 1 : j = IF i < k THEN i ELSE i - 1
    BY <1>1, <1>2, <1>6
  <1>8. R[j] = q[i] /\ j \in DOMAIN R
    <2>1. R[j] = q[i]
      BY <1>1, <1>2, <1>3, <1>6, <1>7
    <2>2. j \in DOMAIN R
      BY <1>3
    <2>3. QED
      BY <2>1, <2>2
  <1>9. QED
    BY <1>4, <1>5, <1>8 DEF DueBy
=============================================================================
