---------------------------- MODULE DebuggerProofs ----------------------------
(***************************************************************************)
(* Proofs about Debugger, for every width of the tick, every number of     *)
(* samples and every time a latch is held.                                 *)
(***************************************************************************)
EXTENDS Debugger, TLAPS

-----------------------------------------------------------------------------
(* The operators.                                                          *)

\* The tick and its differences, where at most one turn lies between.
LEMMA OneTurn ==
    ASSUME NEW m \in Nat \ {0}, NEW x \in 0 .. m - 1
    PROVE  /\ x % m = x /\ (x - m) % m = x
           /\ (x + 1) % m = IF x + 1 = m THEN 0 ELSE x + 1
           /\ \A y \in Int : y % m \in 0 .. m - 1
  OBVIOUS

\* The code of the error is 0 if and only if both lines are good.
LEMMA ErrIsCode ==
    ASSUME NEW ok \in Levels
    PROVE  InterpretErr(ok) \in Code
  BY DEF InterpretErr, Code, Levels, Lines

\* The new readings of a line are the old ones and the level, as many as are kept: the
\* newest is at the end, and the others have moved on by one.
MovedOn(old, new, level) ==
    /\ new \in Seq(BOOLEAN)
    /\ Len(new) = IF Len(old) < StableSamples THEN Len(old) + 1 ELSE StableSamples
    /\ new[Len(new)] = level
    /\ \A back \in 1 .. Len(new) - 1 : new[Len(new) - back] = old[Len(old) - (back - 1)]

\* What is remembered of a line, oldest first.
LEMMA Remembered ==
    ASSUME NEW line, NEW level \in BOOLEAN,
           NEW old \in Seq(BOOLEAN), old = recent[line], Len(old) \in 1 .. StableSamples,
           NEW new, new = Remember(line, level)
    PROVE  MovedOn(old, new, level)
  <1> DEFINE longer == Append(old, level)
  <1>1. StableSamples \in Nat \ {0}
    BY DebuggerAssumption
  <1>2. /\ longer \in Seq(BOOLEAN) /\ Len(longer) = Len(old) + 1 /\ longer[Len(old) + 1] = level
        /\ \A i \in 1 .. Len(old) : longer[i] = old[i]
    OBVIOUS
  <1>3. Len(old) \in Nat
    OBVIOUS
  <1>4. new = IF Len(longer) > StableSamples THEN Tail(longer) ELSE longer
    BY DEF Remember
  <1> HIDE DEF longer
  <1>5. /\ Tail(longer) \in Seq(BOOLEAN) /\ Len(Tail(longer)) = Len(old)
        /\ \A i \in 1 .. Len(old) : Tail(longer)[i] = longer[i + 1]
    BY <1>2, <1>3
  <1>6. CASE Len(old) < StableSamples
    <2>1. new = longer
      BY <1>1, <1>2, <1>3, <1>4, <1>6
    <2>2. new \in Seq(BOOLEAN) /\ Len(new) = Len(old) + 1 /\ new[Len(new)] = level
      BY <1>2, <1>3, <2>1
    <2>3. ASSUME NEW back \in 1 .. Len(new) - 1
          PROVE  new[Len(new) - back] = old[Len(old) - (back - 1)]
      <3>1. Len(new) - back = Len(old) - (back - 1) /\ Len(new) - back \in 1 .. Len(old)
        BY <1>3, <2>2
      <3>2. QED
        BY <1>2, <2>1, <3>1
    <2>4. QED
      BY <1>6, <2>2, <2>3 DEF MovedOn
  <1>7. CASE Len(old) = StableSamples
    <2>1. new = Tail(longer)
      BY <1>1, <1>2, <1>3, <1>4, <1>7
    <2>2. new \in Seq(BOOLEAN) /\ Len(new) = Len(old)
      BY <1>5, <2>1
    <2>3. Len(old) \in 1 .. Len(old) /\ new[Len(old)] = longer[Len(old) + 1]
      BY <1>1, <1>5, <1>7, <2>1
    <2>4. new[Len(new)] = level
      BY <1>2, <2>2, <2>3
    <2>5. ASSUME NEW back \in 1 .. Len(new) - 1
          PROVE  new[Len(new) - back] = old[Len(old) - (back - 1)]
      <3>1. Len(old) - back \in 1 .. Len(old)
            /\ Len(old) - back + 1 = Len(old) - (back - 1)
            /\ Len(old) - (back - 1) \in 1 .. Len(old)
        BY <1>3, <2>2
      <3>2. new[Len(old) - back] = longer[Len(old) - (back - 1)]
        BY <1>5, <2>1, <3>1
      <3>3. QED
        BY <1>2, <2>2, <3>1, <3>2
    <2>6. Len(new) = StableSamples
      BY <1>7, <2>2
    <2>7. ~(Len(old) < StableSamples)
      BY <1>1, <1>7
    <2>8. QED
      BY <2>2, <2>4, <2>5, <2>6, <2>7 DEF MovedOn
  <1>8. QED
    BY <1>1, <1>3, <1>6, <1>7

-----------------------------------------------------------------------------
(* The invariant.                                                          *)

\* What is on the LCD is what the loop has shown, and what it has shown is the
\* debounced state, with the latched error before the one that is live: the two are
\* the same when both are there.
Truthful ==
    /\ lcd_ready => drawn = shown
    /\ shown = [ok |-> accepted, err |-> IF sticky.code # 0 THEN sticky.code ELSE last_err]
    /\ last_err = InterpretErr(accepted)
    /\ last_err # 0 => sticky.code \in {0, last_err}

\* A line that reads other than its debounced state has read so count times in a
\* row, not yet often enough, and no more often: it read otherwise before, if that is
\* remembered.
Counts(line) ==
    /\ recent[line] \in Seq(BOOLEAN) /\ Len(recent[line]) \in 1 .. StableSamples
    /\ recent[line][Len(recent[line])] = sample[line]
    /\ sample[line] # accepted[line] =>
          /\ count[line] < StableSamples /\ count[line] <= Len(recent[line])
          /\ \A back \in 0 .. count[line] - 1 :
                recent[line][Len(recent[line]) - back] = sample[line]
          /\ count[line] < Len(recent[line]) =>
                recent[line][Len(recent[line]) - count[line]] # sample[line]

\* The tick tells how long a latch is held, once around at most; at the last iteration
\* that was too short to let go of it.  The latch of the boot was held from tick 0 on,
\* as far as the loop can tell.
HeldByTick ==
    /\ sticky.code # 0 /\ ~ bootLatch =>
          /\ tick = sticky.ts + held \/ tick = sticky.ts + held - TickMod
          /\ held < LatchAutoClear + idle
    /\ sticky.code # 0 /\ bootLatch =>
          /\ sticky.ts = 0 /\ held <= tick
          /\ \/ tick < LatchAutoClear + idle
             \/ held = idle /\ \E boot \in BootTicks : tick = boot + idle

IInv == TypeOK /\ Truthful /\ (\A line \in Lines : Counts(line)) /\ HeldByTick

\* The constants are numbers.
LEMMA Numbers ==
    /\ StableSamples \in Nat \ {0} /\ LatchAutoClear \in Nat \ {0}
    /\ TickMod \in Nat \ {0} /\ PollTicks \in Nat \ {0}
    /\ LatchAutoClear + PollTicks < TickMod
    /\ \A boot \in BootTicks : boot \in Nat /\ boot + PollTicks < TickMod
  BY DebuggerAssumption

\* The state in which the loop is entered.
LEMMA InitKeeps ==
    ASSUME Init
    PROVE  IInv
  <1>1. sample \in Levels /\ last_err \in Code /\ last_err = InterpretErr(sample)
    BY ErrIsCode DEF Init
  <1>2. TypeOK
    <2>1. tick \in 0 .. TickMod - 1
      BY Numbers DEF Init
    <2>2. count \in [Lines -> 1 .. StableSamples] /\ idle \in 0 .. PollTicks
          /\ held \in 0 .. HeldBound
      BY Numbers DEF Init, HeldBound
    <2>3. sticky \in [code : Code, ts : 0 .. TickMod - 1]
      BY <1>1, Numbers DEF Init
    <2>4. shown \in Panel /\ drawn \in Panel \union {NeverDrawn}
      BY <1>1 DEF Init, Panel
    <2>5. QED
      BY <1>1, <2>1, <2>2, <2>3, <2>4 DEF Init, TypeOK
  <1>3. Truthful
    BY <1>1 DEF Init, Truthful, Code
  <1>4. ASSUME NEW line \in Lines
        PROVE  Counts(line)
    <2>1. recent[line] = <<sample[line]>> /\ sample[line] \in BOOLEAN
      BY <1>1 DEF Init, Levels
    <2>2. QED
      BY <2>1, Numbers DEF Init, Counts
  <1>5. HeldByTick
    <2>1. tick \in BootTicks /\ idle = 0 /\ held = 0 /\ sticky.ts = 0
          /\ bootLatch = (last_err # 0) /\ sticky.code = last_err
      BY DEF Init
    <2>2. tick = tick + idle /\ held <= tick
      BY <2>1, Numbers
    <2>3. sticky.code # 0 => bootLatch
      BY <2>1
    <2>4. QED
      BY <2>1, <2>2, <2>3 DEF HeldByTick
  <1>6. QED
    BY <1>2, <1>3, <1>4, <1>5 DEF IInv

\* The interrupt only makes time pass.
LEMMA TickKeeps ==
    ASSUME IInv, Tick
    PROVE  IInv'
  <1>1. /\ tick \in 0 .. TickMod - 1 /\ idle \in 0 .. PollTicks /\ held \in 0 .. HeldBound
        /\ idle < PollTicks /\ idle' = idle + 1
        /\ held' = IF held < HeldBound THEN held + 1 ELSE held
        /\ UNCHANGED <<sample, count, accepted, last_err, sticky, shown,
                       lcd_ready, drawn, recent, cleared, bootLatch>>
    BY DEF IInv, TypeOK, Tick
  <1>2. tick' = IF tick + 1 = TickMod THEN 0 ELSE tick + 1
    BY <1>1, Numbers, OneTurn DEF Tick
  <1>3. TypeOK'
    <2>1. tick' \in 0 .. TickMod - 1 /\ idle' \in 0 .. PollTicks
      BY <1>1, <1>2, Numbers
    <2>2. held' \in 0 .. HeldBound
      BY <1>1, Numbers DEF HeldBound
    <2>3. QED
      BY <1>1, <2>1, <2>2 DEF IInv, TypeOK
  <1>4. Truthful' /\ \A line \in Lines : Counts(line)'
    BY <1>1 DEF IInv, Truthful, Counts
  <1>5. HeldByTick'
    <2>1. CASE sticky.code # 0 /\ ~ bootLatch
      <3>1. /\ tick = sticky.ts + held \/ tick = sticky.ts + held - TickMod
            /\ held < LatchAutoClear + idle /\ sticky.ts \in 0 .. TickMod - 1
        BY <2>1 DEF IInv, HeldByTick, TypeOK
      <3>2. held' = held + 1
        BY <1>1, <3>1, Numbers DEF HeldBound
      <3>3. /\ tick' = sticky.ts + held' \/ tick' = sticky.ts + held' - TickMod
            /\ held' < LatchAutoClear + idle'
        BY <1>1, <1>2, <3>1, <3>2, Numbers
      <3>4. QED
        BY <1>1, <2>1, <3>3 DEF HeldByTick
    <2>2. CASE sticky.code # 0 /\ bootLatch
      <3>1. /\ sticky.ts = 0 /\ held <= tick
            /\ \/ tick < LatchAutoClear + idle
               \/ held = idle /\ \E boot \in BootTicks : tick = boot + idle
        BY <2>2 DEF IInv, HeldByTick
      <3>2. tick' = tick + 1 /\ held' <= tick'
        BY <1>1, <1>2, <3>1, Numbers
      <3>3. tick < LatchAutoClear + idle => tick' < LatchAutoClear + idle'
        BY <1>1, <3>2, Numbers
      <3>4. held = idle => held' = idle'
        BY <1>1, Numbers DEF HeldBound
      <3>5. ASSUME NEW boot \in BootTicks, tick = boot + idle
            PROVE  tick' = boot + idle'
        BY <1>1, <3>2, <3>5, Numbers
      <3>6. QED
        BY <1>1, <2>2, <3>1, <3>2, <3>3, <3>4, <3>5 DEF HeldByTick
    <2>3. QED
      BY <1>1, <2>1, <2>2 DEF HeldByTick
  <1>6. QED
    BY <1>3, <1>4, <1>5 DEF IInv

\* What an iteration of the loop makes of the lines.
LEMMA PollLines ==
    ASSUME IInv, NEW ok \in Levels, NEW clear \in BOOLEAN, Poll(ok, clear)
    PROVE  /\ sample' = ok /\ accepted' \in Levels
           /\ \A line \in Lines :
                /\ count'[line] = IF ok[line] # sample[line] THEN 1
                                  ELSE IF count[line] < StableSamples THEN count[line] + 1
                                  ELSE count[line]
                /\ accepted'[line] = IF count'[line] >= StableSamples THEN ok[line]
                                     ELSE accepted[line]
                /\ recent'[line] = Remember(line, ok[line])
           /\ count' \in [Lines -> 1 .. StableSamples]
           /\ last_err' = InterpretErr(accepted') /\ last_err' \in Code
  <1>1. /\ sample \in Levels /\ accepted \in Levels /\ count \in [Lines -> 1 .. StableSamples]
    BY DEF IInv, TypeOK
  <1>2. /\ sample' = ok /\ count' = Counted(ok) /\ accepted' = Accepted(ok, count')
        /\ recent' = [line \in Lines |-> Remember(line, ok[line])]
        /\ last_err' = InterpretErr(accepted')
    BY DEF Poll
  <1>3. count' \in [Lines -> 1 .. StableSamples]
    BY <1>1, <1>2, Numbers DEF Counted
  <1>4. accepted' \in Levels
    BY <1>1, <1>2 DEF Accepted, Levels
  <1>5. last_err' \in Code
    BY <1>2, <1>4, ErrIsCode
  <1>6. QED
    BY <1>2, <1>3, <1>4, <1>5 DEF Counted, Accepted

\* Whether an iteration latches an error.
Sets == last_err' # last_err /\ last_err' # 0

\* What it makes of the latch: a new error is latched now, an old one goes when it is
\* cleared or LatchAutoClear old.
LEMMA PollLatch ==
    ASSUME IInv, NEW ok \in Levels, NEW clear \in BOOLEAN, Poll(ok, clear)
    PROVE  /\ cleared' = clear /\ tick' = tick /\ idle' = 0 /\ lcd_ready' = lcd_ready
           /\ held' = IF Sets THEN 0 ELSE held
           /\ bootLatch' = (bootLatch /\ ~Sets /\ sticky'.code # 0)
           /\ Sets => sticky' = IF clear THEN NoLatch ELSE [code |-> last_err', ts |-> tick]
           /\ ~Sets => sticky' = IF clear \/ Elapsed(sticky.ts) >= LatchAutoClear
                                 THEN NoLatch ELSE sticky
  <1>1. tick \in 0 .. TickMod - 1
    BY DEF IInv, TypeOK
  <1>2. /\ cleared' = clear /\ tick' = tick /\ idle' = 0 /\ lcd_ready' = lcd_ready
        /\ held' = IF Sets THEN 0 ELSE held
        /\ sticky' = Kept(Latched(last_err'), clear)
        /\ bootLatch' = (bootLatch /\ ~Sets /\ sticky'.code # 0)
    BY DEF Poll, Sets
  <1>3. CASE Sets
    <2>1. Latched(last_err') = [code |-> last_err', ts |-> tick]
      BY <1>3 DEF Latched, Sets
    <2>2. Elapsed(tick) = 0
      <3>1. tick - tick = 0 /\ 0 \in 0 .. TickMod - 1
        BY <1>1, Numbers
      <3>2. QED
        BY <3>1, Numbers, OneTurn DEF Elapsed
    <2>3. ~(Elapsed(tick) >= LatchAutoClear)
      BY <2>2, Numbers
    <2>4. sticky' = IF clear THEN NoLatch ELSE [code |-> last_err', ts |-> tick]
      BY <1>2, <2>1, <2>3 DEF Kept
    <2>5. QED
      BY <1>2, <1>3, <2>4
  <1>4. CASE ~Sets
    <2>1. Latched(last_err') = sticky
      BY <1>4 DEF Latched, Sets
    <2>2. QED
      BY <1>2, <1>4, <2>1 DEF Kept
  <1>5. QED
    BY <1>3, <1>4

\* A latch that the boot did not set is as old as the history says.
LEMMA ElapsedIsHeld ==
    ASSUME IInv, sticky.code # 0
    PROVE  /\ ~bootLatch => Elapsed(sticky.ts) = held
           /\ bootLatch => Elapsed(sticky.ts) = tick
  <1>1. /\ tick \in 0 .. TickMod - 1 /\ sticky.ts \in 0 .. TickMod - 1
        /\ idle \in 0 .. PollTicks /\ held \in Nat
    BY Numbers DEF IInv, TypeOK, HeldBound
  <1>2. CASE ~bootLatch
    <2>1. /\ tick = sticky.ts + held \/ tick = sticky.ts + held - TickMod
          /\ held < LatchAutoClear + idle
      BY <1>2 DEF IInv, HeldByTick
    <2>2. held \in 0 .. TickMod - 1
      BY <1>1, <2>1, Numbers
    <2>3. tick - sticky.ts \in {held, held - TickMod}
      BY <1>1, <2>1, Numbers
    <2>4. held % TickMod = held /\ (held - TickMod) % TickMod = held
      BY <2>2, Numbers, OneTurn
    <2>5. QED
      BY <1>2, <2>3, <2>4 DEF Elapsed
  <1>3. CASE bootLatch
    <2>1. sticky.ts = 0 /\ tick - 0 = tick
      BY <1>1, <1>3, Numbers DEF IInv, HeldByTick
    <2>2. tick % TickMod = tick
      BY <1>1, Numbers, OneTurn
    <2>3. QED
      BY <1>3, <2>1, <2>2 DEF Elapsed
  <1>4. QED
    BY <1>2, <1>3

\* The loop keeps the invariant.
LEMMA PollKeeps ==
    ASSUME IInv, NEW ok \in Levels, NEW clear \in BOOLEAN, Poll(ok, clear)
    PROVE  IInv'
  <1> DEFINE panel == [ok |-> accepted',
                       err |-> IF sticky'.code # 0 THEN sticky'.code ELSE last_err']
  <1>1. /\ tick \in 0 .. TickMod - 1 /\ held \in 0 .. HeldBound /\ held \in Nat
        /\ idle \in 0 .. PollTicks /\ sticky \in [code : Code, ts : 0 .. TickMod - 1]
        /\ bootLatch \in BOOLEAN /\ last_err \in Code
    BY Numbers DEF IInv, TypeOK, HeldBound
  <1>2. /\ sample' = ok /\ accepted' \in Levels /\ count' \in [Lines -> 1 .. StableSamples]
        /\ last_err' = InterpretErr(accepted') /\ last_err' \in Code
    BY PollLines
  <1>3. /\ cleared' = clear /\ tick' = tick /\ idle' = 0 /\ lcd_ready' = lcd_ready
        /\ held' = IF Sets THEN 0 ELSE held
        /\ bootLatch' = (bootLatch /\ ~Sets /\ sticky'.code # 0)
        /\ Sets => sticky' = IF clear THEN NoLatch ELSE [code |-> last_err', ts |-> tick]
        /\ ~Sets => sticky' = IF clear \/ Elapsed(sticky.ts) >= LatchAutoClear
                              THEN NoLatch ELSE sticky
    BY PollLatch
  <1>4. sticky' \in [code : Code, ts : 0 .. TickMod - 1]
    BY <1>1, <1>2, <1>3, Numbers DEF NoLatch, Code
  <1>5. /\ shown' = panel
        /\ drawn' = IF panel # shown THEN DisplayUpdate(panel) ELSE drawn
    BY DEF Poll
  <1>6. panel \in Panel
    BY <1>2, <1>4 DEF Panel
  <1> HIDE DEF panel
  <1>7. TypeOK'
    <2>1. drawn' \in Panel \union {NeverDrawn}
      BY <1>5, <1>6 DEF DisplayUpdate, IInv, TypeOK
    <2>2. held' \in 0 .. HeldBound /\ idle' \in 0 .. PollTicks
      BY <1>1, <1>3, Numbers DEF HeldBound
    <2>3. bootLatch' \in BOOLEAN
      BY <1>3
    <2>4. lcd_ready' \in BOOLEAN
      BY <1>3 DEF IInv, TypeOK
    <2>5. QED
      BY <1>1, <1>2, <1>3, <1>4, <1>5, <1>6, <2>1, <2>2, <2>3, <2>4 DEF TypeOK
  <1>8. Truthful'
    <2>1. lcd_ready' => drawn' = shown'
      BY <1>3, <1>5 DEF DisplayUpdate, IInv, Truthful
    <2>2. shown' = [ok |-> accepted',
                    err |-> IF sticky'.code # 0 THEN sticky'.code ELSE last_err']
      BY <1>5 DEF panel
    <2>3. last_err' # 0 => sticky'.code \in {0, last_err'}
      <3>1. CASE Sets
        BY <1>3, <3>1 DEF NoLatch
      <3>2. CASE ~Sets
        BY <1>3, <3>2 DEF NoLatch, Sets, IInv, Truthful
      <3>3. QED
        BY <3>1, <3>2
    <2>4. QED
      BY <1>2, <2>1, <2>2, <2>3 DEF Truthful
  <1>9. ASSUME NEW line \in Lines
        PROVE  Counts(line)'
    <2> DEFINE old == recent[line]
               new == recent'[line]
               c   == count[line]
    <2>1. /\ old \in Seq(BOOLEAN) /\ Len(old) \in 1 .. StableSamples /\ c \in 1 .. StableSamples
          /\ sample[line] # accepted[line] =>
                /\ c < StableSamples /\ c <= Len(old)
                /\ \A back \in 0 .. c - 1 : old[Len(old) - back] = sample[line]
                /\ c < Len(old) => old[Len(old) - c] # sample[line]
          /\ old[Len(old)] = sample[line]
      BY DEF IInv, Counts, TypeOK
    <2>2. ok[line] \in BOOLEAN /\ sample[line] \in BOOLEAN /\ accepted[line] \in BOOLEAN
      BY DEF Levels, IInv, TypeOK
    <2>3. /\ count'[line] = IF ok[line] # sample[line] THEN 1
                            ELSE IF c < StableSamples THEN c + 1 ELSE c
          /\ accepted'[line] = IF count'[line] >= StableSamples THEN ok[line] ELSE accepted[line]
          /\ new = Remember(line, ok[line])
      BY PollLines
    <2> HIDE DEF old, new, c
    <2>4. /\ new \in Seq(BOOLEAN)
          /\ Len(new) = IF Len(old) < StableSamples THEN Len(old) + 1 ELSE StableSamples
          /\ new[Len(new)] = ok[line]
          /\ \A back \in 1 .. Len(new) - 1 : new[Len(new) - back] = old[Len(old) - (back - 1)]
      <3>1. /\ old = recent[line] /\ old \in Seq(BOOLEAN) /\ Len(old) \in 1 .. StableSamples
            /\ ok[line] \in BOOLEAN /\ new = Remember(line, ok[line])
        BY <2>1, <2>2, <2>3 DEF old
      <3>2. MovedOn(old, new, ok[line])
        BY <3>1, Remembered, Zenon
      <3>3. QED
        BY <3>2 DEF MovedOn
    <2>5. Len(new) \in 1 .. StableSamples /\ Len(new) \in Nat
      BY <2>1, <2>4, Numbers
    <2>6. ASSUME ok[line] # accepted'[line]
          PROVE  /\ count'[line] < StableSamples /\ count'[line] <= Len(new)
                 /\ \A back \in 0 .. count'[line] - 1 : new[Len(new) - back] = ok[line]
      <3>1. count'[line] < StableSamples /\ accepted'[line] = accepted[line]
        BY <2>1, <2>3, <2>6, Numbers
      <3>2. CASE ok[line] # sample[line]
        <4>1. count'[line] = 1
          BY <2>3, <3>2
        <4>2. ASSUME NEW back \in 0 .. count'[line] - 1
              PROVE  new[Len(new) - back] = ok[line]
          <5>1. Len(new) - back = Len(new)
            BY <2>5, <4>1
          <5>2. QED
            BY <2>4, <5>1
        <4>3. QED
          BY <2>5, <3>1, <4>1, <4>2
      <3>3. CASE ok[line] = sample[line]
        <4>1. /\ c < StableSamples /\ c <= Len(old)
              /\ \A back \in 0 .. c - 1 : old[Len(old) - back] = ok[line]
          BY <2>1, <2>6, <3>1, <3>3
        <4>2. count'[line] = c + 1
          BY <2>3, <3>3, <4>1
        <4>3. c + 1 <= Len(new)
          BY <2>1, <2>4, <3>1, <4>1, <4>2, Numbers
        <4>4. ASSUME NEW back \in 0 .. c
              PROVE  new[Len(new) - back] = ok[line]
          <5>1. CASE back = 0
            <6>1. Len(new) - back = Len(new)
              BY <2>5, <5>1
            <6>2. QED
              BY <2>4, <6>1
          <5>2. CASE back # 0
            <6>1. back \in 1 .. Len(new) - 1 /\ back - 1 \in 0 .. c - 1
              BY <2>1, <2>5, <4>3, <5>2
            <6>2. QED
              BY <2>4, <4>1, <6>1
          <5>3. QED
            BY <5>1, <5>2
        <4>5. 0 .. count'[line] - 1 = 0 .. c
          BY <2>1, <4>2
        <4>6. QED
          BY <3>1, <4>2, <4>3, <4>4, <4>5
      <3>4. QED
        BY <3>2, <3>3
    <2>7. ASSUME ok[line] # accepted'[line], count'[line] < Len(new)
          PROVE  new[Len(new) - count'[line]] # ok[line]
      <3>1. accepted'[line] = accepted[line] /\ count'[line] < StableSamples
        BY <2>1, <2>3, <2>7, Numbers
      <3>2. CASE ok[line] # sample[line]
        <4>1. count'[line] = 1 /\ 1 \in 1 .. Len(new) - 1
          BY <2>3, <2>5, <2>7, <3>2
        <4>2. new[Len(new) - 1] = old[Len(old) - (1 - 1)] /\ Len(old) - (1 - 1) = Len(old)
          BY <2>1, <2>4, <4>1
        <4>3. QED
          BY <2>1, <3>2, <4>1, <4>2
      <3>3. CASE ok[line] = sample[line]
        <4>1. /\ c < StableSamples /\ c \in Nat
              /\ c < Len(old) => old[Len(old) - c] # ok[line]
          BY <2>1, <2>7, <3>1, <3>3
        <4>2. count'[line] = c + 1
          BY <2>3, <3>3, <4>1
        <4>3. c < Len(old) /\ c + 1 \in 1 .. Len(new) - 1
          BY <2>1, <2>4, <2>5, <2>7, <4>1, <4>2, Numbers
        <4>4. PICK back \in 1 .. Len(new) - 1 : back = c + 1
          BY <4>3
        <4>5. new[Len(new) - back] = old[Len(old) - (back - 1)] /\ back - 1 = c
          BY <2>4, <4>1, <4>4
        <4>6. new[Len(new) - back] # ok[line]
          BY <4>1, <4>3, <4>5
        <4>7. QED
          BY <4>2, <4>4, <4>6
      <3>4. QED
        BY <3>2, <3>3
    <2>8. QED
      BY <1>2, <2>4, <2>5, <2>6, <2>7 DEF Counts, new
  <1>10. HeldByTick'
    <2>1. CASE Sets
      <3>1. held' = 0 /\ ~bootLatch'
        BY <1>3, <2>1
      <3>2. sticky'.code # 0 => sticky'.ts = tick'
        BY <1>3, <2>1 DEF NoLatch
      <3>3. QED
        BY <1>1, <1>3, <3>1, <3>2, Numbers DEF HeldByTick
    <2>2. CASE ~Sets
      <3>1. CASE sticky'.code = 0
        BY <3>1 DEF HeldByTick
      <3>2. CASE sticky'.code # 0
        <4>1. sticky' = sticky /\ ~(Elapsed(sticky.ts) >= LatchAutoClear)
          BY <1>3, <2>2, <3>2 DEF NoLatch
        <4>2. held' = held /\ bootLatch' = bootLatch
          BY <1>1, <1>3, <2>2, <3>2
        <4>3. CASE ~bootLatch
          <5>1. held < LatchAutoClear
            BY <1>1, <3>2, <4>1, <4>3, ElapsedIsHeld, Numbers
          <5>2. tick = sticky.ts + held \/ tick = sticky.ts + held - TickMod
            BY <3>2, <4>1, <4>3 DEF HeldByTick, IInv
          <5>3. held' < LatchAutoClear + idle'
            BY <1>1, <1>3, <4>2, <5>1, Numbers
          <5>4. QED
            BY <1>3, <4>1, <4>2, <4>3, <5>2, <5>3 DEF HeldByTick
        <4>4. CASE bootLatch
          <5>1. tick < LatchAutoClear
            BY <1>1, <3>2, <4>1, <4>4, ElapsedIsHeld, Numbers
          <5>2. sticky.ts = 0 /\ held <= tick
            BY <3>2, <4>1, <4>4 DEF HeldByTick, IInv
          <5>3. sticky'.ts = 0 /\ held' <= tick' /\ bootLatch' = bootLatch
            BY <1>3, <4>1, <4>2, <5>2
          <5>4. tick' < LatchAutoClear + idle'
            BY <1>1, <1>3, <5>1, Numbers
          <5>5. QED
            BY <4>4, <5>3, <5>4 DEF HeldByTick
        <4>5. QED
          BY <4>3, <4>4
      <3>3. QED
        BY <3>1, <3>2
    <2>3. QED
      BY <2>1, <2>2
  <1>11. QED
    BY <1>7, <1>8, <1>9, <1>10 DEF IInv

\* The invariant holds whatever the lines and the interrupt do.
THEOREM DebuggerInvariant == Spec => []IInv
  <1>1. Init => IInv
    BY InitKeeps
  <1>2. IInv /\ [Next]_vars => IInv'
    <2> SUFFICES ASSUME IInv, [Next]_vars PROVE IInv'
      OBVIOUS
    <2>1. CASE PollAny
      BY <2>1, PollKeeps DEF PollAny
    <2>2. CASE Tick
      BY <2>2, TickKeeps
    <2>3. CASE UNCHANGED vars
      BY <2>3 DEF vars, IInv, TypeOK, Truthful, Counts, HeldByTick
    <2>4. QED
      BY <2>1, <2>2, <2>3 DEF Next
  <1>3. QED
    BY <1>1, <1>2, PTL DEF Spec

-----------------------------------------------------------------------------
(* What follows.                                                           *)

\* Every state has its types: the count never passes StableSamples, whatever wraps.
THEOREM DebuggerTypeOK == Spec => []TypeOK
  <1>1. IInv => TypeOK
    BY DEF IInv
  <1>2. QED
    BY <1>1, DebuggerInvariant, PTL

\* The LCD tells the truth although two layers skip what they take for redundant.
THEOREM LcdAlwaysTruthful == Spec => []LcdTruthful
  <1>1. IInv => LcdTruthful
    BY DEF IInv, Truthful, LcdTruthful
  <1>2. QED
    BY <1>1, DebuggerInvariant, PTL

\* No latch outlives its time by more than one iteration, whenever the tick wraps and
\* whenever the loop was entered.
THEOREM LatchAlwaysExpires == Spec => []LatchExpires
  <1>1. IInv => LatchExpires
    <2> SUFFICES ASSUME IInv, sticky.code # 0 PROVE held <= LatchAutoClear + PollTicks
      BY DEF LatchExpires
    <2>1. idle \in 0 .. PollTicks /\ held \in Nat /\ tick \in Nat
      BY Numbers DEF IInv, TypeOK, HeldBound
    <2>2. CASE ~bootLatch
      BY <2>1, <2>2, Numbers DEF IInv, HeldByTick
    <2>3. CASE bootLatch
      <3>1. held <= tick /\ (tick < LatchAutoClear + idle \/ held = idle)
        BY <2>3 DEF IInv, HeldByTick
      <3>2. QED
        BY <2>1, <3>1, Numbers
    <2>4. QED
      BY <2>2, <2>3
  <1>2. QED
    BY <1>1, DebuggerInvariant, PTL

\* No error that the loop has latched is let go of before its time, whenever the tick
\* wraps.
THEOREM LatchAlwaysHeld == Spec => LatchHeld
  <1>1. IInv /\ [Next]_vars =>
          (sticky.code # 0 /\ sticky'.code = 0 /\ ~bootLatch => cleared' \/ held >= LatchAutoClear)
    <2> SUFFICES ASSUME IInv, [Next]_vars, sticky.code # 0, sticky'.code = 0, ~bootLatch
                 PROVE  cleared' \/ held >= LatchAutoClear
      OBVIOUS
    <2>1. PICK ok \in Levels, clear \in BOOLEAN : Poll(ok, clear)
      BY DEF Next, PollAny, Tick, vars
    <2>2. /\ cleared' = clear
          /\ Sets => sticky' = IF clear THEN NoLatch ELSE [code |-> last_err', ts |-> tick]
          /\ ~Sets => sticky' = IF clear \/ Elapsed(sticky.ts) >= LatchAutoClear
                                THEN NoLatch ELSE sticky
      BY <2>1, PollLatch
    <2>3. CASE Sets
      BY <2>2, <2>3 DEF Sets
    <2>4. CASE ~Sets
      BY <2>2, <2>4, ElapsedIsHeld
    <2>5. QED
      BY <2>3, <2>4
  <1>2. QED
    BY <1>1, DebuggerInvariant, PTL DEF Spec, LatchHeld

\* No glitch shorter than StableSamples readings is accepted.
LEMMA ChangeIsSteady ==
    ASSUME IInv, [Next]_vars, NEW line \in Lines, accepted'[line] # accepted[line]
    PROVE  Steady(line, accepted[line])'
  <1>1. PICK ok \in Levels, clear \in BOOLEAN : Poll(ok, clear)
    BY DEF Next, PollAny, Tick, vars
  <1> DEFINE old == recent[line]
             new == recent'[line]
             c   == count[line]
  <1>2. /\ old \in Seq(BOOLEAN) /\ Len(old) \in 1 .. StableSamples /\ c \in 1 .. StableSamples
        /\ sample[line] # accepted[line] =>
              /\ c < StableSamples /\ c <= Len(old)
              /\ \A back \in 0 .. c - 1 : old[Len(old) - back] = sample[line]
    BY DEF IInv, Counts, TypeOK
  <1>3. /\ count'[line] = IF ok[line] # sample[line] THEN 1
                          ELSE IF c < StableSamples THEN c + 1 ELSE c
        /\ accepted'[line] = IF count'[line] >= StableSamples THEN ok[line] ELSE accepted[line]
        /\ new = Remember(line, ok[line])
    BY <1>1, PollLines
  <1>4. old = recent[line] /\ ok[line] \in BOOLEAN
    BY DEF Levels
  <1> HIDE DEF old, new, c
  <1>5. /\ new \in Seq(BOOLEAN)
        /\ Len(new) = IF Len(old) < StableSamples THEN Len(old) + 1 ELSE StableSamples
        /\ new[Len(new)] = ok[line]
        /\ \A back \in 1 .. Len(new) - 1 : new[Len(new) - back] = old[Len(old) - (back - 1)]
    <2>1. MovedOn(old, new, ok[line])
      BY <1>2, <1>3, <1>4, Remembered, Zenon
    <2>2. QED
      BY <2>1 DEF MovedOn
  <1>6. accepted'[line] = ok[line] /\ ok[line] # accepted[line] /\ count'[line] >= StableSamples
    BY <1>3
  <1>7. Len(new) = StableSamples
        /\ \A back \in 0 .. StableSamples - 1 : new[Len(new) - back] = ok[line]
    <2>1. CASE ok[line] # sample[line]
      <3>1. StableSamples = 1
        BY <1>3, <1>6, <2>1, Numbers
      <3>2. Len(new) = 1 /\ \A back \in 0 .. 0 : Len(new) - back = Len(new)
        BY <1>2, <1>5, <3>1
      <3>3. QED
        BY <1>5, <3>1, <3>2
    <2>2. CASE ok[line] = sample[line]
      <3>1. /\ c < StableSamples /\ c <= Len(old)
            /\ \A back \in 0 .. c - 1 : old[Len(old) - back] = ok[line]
        BY <1>2, <1>6, <2>2
      <3>2. c + 1 = StableSamples
        BY <1>2, <1>3, <1>6, <2>2, <3>1, Numbers
      <3>3. Len(new) = StableSamples
        BY <1>2, <1>5, <3>1, <3>2, Numbers
      <3>4. ASSUME NEW back \in 0 .. StableSamples - 1
            PROVE  new[Len(new) - back] = ok[line]
        <4>1. CASE back = 0
          <5>1. Len(new) - back = Len(new)
            BY <3>3, <4>1, Numbers
          <5>2. QED
            BY <1>5, <5>1
        <4>2. CASE back # 0
          <5>1. back \in 1 .. Len(new) - 1 /\ back - 1 \in 0 .. c - 1
            BY <1>2, <3>2, <3>3, <4>2, Numbers
          <5>2. QED
            BY <1>5, <3>1, <5>1
        <4>3. QED
          BY <4>1, <4>2
      <3>5. QED
        BY <3>3, <3>4
    <2>3. QED
      BY <2>1, <2>2
  <1>8. ASSUME NEW i \in 1 .. StableSamples
        PROVE  new[i] = ok[line]
    <2>1. StableSamples - i \in 0 .. StableSamples - 1 /\ StableSamples - (StableSamples - i) = i
      BY Numbers
    <2>2. QED
      BY <1>7, <2>1
  <1>9. new = [i \in 1 .. StableSamples |-> new[i]]
    BY <1>5, <1>7
  <1>10. QED
    BY <1>6, <1>8, <1>9 DEF new, Steady

\* A level that StableSamples readings in a row agree on is the debounced state.
AcceptsSteady ==
    \A line \in Lines, level \in BOOLEAN : Steady(line, level) => accepted[line] = level

\* No such reading is counted too late.
LEMMA SteadyIsAccepted == IInv => AcceptsSteady
  <1> SUFFICES ASSUME IInv, NEW line \in Lines, NEW level \in BOOLEAN,
                      recent[line] = [i \in 1 .. StableSamples |-> level],
                      accepted[line] # level
               PROVE  FALSE
    BY DEF AcceptsSteady, Steady
  <1> DEFINE last == recent[line]
             c    == count[line]
  <1>1. /\ last \in Seq(BOOLEAN) /\ last[Len(last)] = sample[line]
        /\ c \in 1 .. StableSamples
        /\ sample[line] # accepted[line] =>
              c < StableSamples /\ (c < Len(last) => last[Len(last) - c] # sample[line])
    BY DEF IInv, Counts, TypeOK
  <1>2. Len(last) = StableSamples /\ \A i \in 1 .. StableSamples : last[i] = level
    BY <1>1, Numbers
  <1> HIDE DEF last, c
  <1>3. sample[line] = level
    BY <1>1, <1>2, Numbers
  <1>4. c < Len(last) /\ last[Len(last) - c] # level
    BY <1>1, <1>2, <1>3
  <1>5. Len(last) - c \in 1 .. StableSamples
    BY <1>1, <1>2, <1>4, Numbers
  <1>6. QED
    BY <1>2, <1>4, <1>5

\* The debounced state follows the lines: no glitch is accepted, and no change of a line
\* that has settled is missed.
THEOREM AlwaysDebounced == Spec => Debounced
  <1>1. IInv => AcceptsSteady
    BY SteadyIsAccepted
  <1>2. IInv /\ AcceptsSteady' /\ [Next]_vars =>
          \A line \in Lines :
              /\ accepted'[line] # accepted[line] => Steady(line, accepted[line])'
              /\ \A level \in BOOLEAN : Steady(line, level)' => accepted'[line] = level
    BY ChangeIsSteady DEF AcceptsSteady
  <1>3. QED
    BY <1>1, <1>2, DebuggerInvariant, PTL DEF Spec, Debounced
=============================================================================
