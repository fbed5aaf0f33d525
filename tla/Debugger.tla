------------------------------ MODULE Debugger ------------------------------
(***************************************************************************)
(* The firmware of the hardware debugger (firmware/debugger): it polls two *)
(* status lines, debounces them, latches errors and shows the lot on an    *)
(* LCD, while the SysTick interrupt counts milliseconds.                   *)
(*                                                                         *)
(* One iteration of the polling loop is one action.  It reads the tick     *)
(* once and every line once, so the interrupt between its reads, and lines *)
(* that change between them, are covered by the ticks before it and by the *)
(* free choice of what it reads.                                           *)
(***************************************************************************)
EXTENDS Integers, Sequences

CONSTANTS
    StableSamples,   \* STABLE_SAMPLES, 3
    LatchAutoClear,  \* LATCH_AUTO_CLEAR_MS, 5000
    TickMod,         \* the tick is a u32: 2^32
    PollTicks,       \* bound: ticks from one iteration to the next, about 5
    BootTicks        \* the ticks that may have passed when the loop is entered

\* The loop iterates fast enough to see the latch expire before the tick has
\* gone all the way around, and is entered long before it first does so.
ASSUME DebuggerAssumption ==
    /\ StableSamples \in Nat \ {0} /\ LatchAutoClear \in Nat \ {0}
    /\ TickMod \in Nat /\ PollTicks \in Nat \ {0}
    /\ LatchAutoClear + PollTicks < TickMod
    /\ \A boot \in BootTicks : boot \in Nat /\ boot + PollTicks < TickMod

VARIABLES
    tick,        \* HAL_GetTick
    idle,        \* ticks since the last iteration
    sample,      \* rx_sample, tx_sample: the last raw reading
    count,       \* rx_sample_count, tx_sample_count
    accepted,    \* last_rx, last_tx: the debounced state
    last_err,    \* the error code of the debounced state
    sticky,      \* the latched error and when it was set, or NoLatch
    shown,       \* shown_rx, shown_tx and shown_err
    lcd_ready,   \* display.c: the LCD came up
    drawn,       \* display.c: last_rx, last_tx and last_err, what is on the LCD
    recent,      \* history: the last StableSamples readings of each line
    cleared,     \* history: whether the last iteration saw a clear input
    held,        \* history: ms since the latch was last set, up to a bound
    bootLatch    \* history: the latch holds the error of the boot

vars == <<tick, idle, sample, count, accepted, last_err, sticky, shown,
          lcd_ready, drawn, recent, cleared, held, bootLatch>>

Lines == {"rx", "tx"}

Levels == [Lines -> BOOLEAN]

InterpretErr(ok) ==
    (IF ok["rx"] THEN 0 ELSE 1) + (IF ok["tx"] THEN 0 ELSE 2)

\* The None of sticky_err: no error has code 0.
NoLatch == [code |-> 0, ts |-> 0]

\* The initial last_err of display.c, 0xffffffff: no error's code.
NeverDrawn == [ok |-> [line \in Lines |-> FALSE], err |-> -1]

\* Mutant of DisplayUpdate: a change of the code alone is taken for no change.
DisplayUpdateLazy(status) ==
    IF lcd_ready /\ status.ok # drawn.ok THEN status ELSE drawn

\* What display_update leaves on the LCD.
DisplayUpdate(status) == IF lcd_ready THEN status ELSE drawn

HeldBound == LatchAutoClear + PollTicks + 1

-----------------------------------------------------------------------------

\* The state in which the loop is entered: the first reading is taken at face
\* value, drawn, and latched with the timestamp 0 if it is an error.
Init ==
    /\ tick \in BootTicks
    /\ idle = 0
    /\ sample \in Levels
    /\ count = [line \in Lines |-> StableSamples]
    /\ accepted = sample
    /\ last_err = InterpretErr(sample)
    /\ sticky = [code |-> last_err, ts |-> 0]
    /\ shown = [ok |-> sample, err |-> last_err]
    /\ lcd_ready \in BOOLEAN
    /\ drawn = IF lcd_ready THEN shown ELSE NeverDrawn
    /\ recent = [line \in Lines |-> <<sample[line]>>]
    /\ cleared = FALSE
    /\ held = 0
    /\ bootLatch = (last_err # 0)

\* Mutants of Counted: the count is not capped; it is not reset by a change.
CountedOn(ok) ==
    [line \in Lines |-> IF ok[line] # sample[line] THEN 1 ELSE count[line] + 1]

CountedThrough(ok) ==
    [line \in Lines |->
        IF count[line] < StableSamples THEN count[line] + 1 ELSE count[line]]

\* The count of equal readings, with the reading ok.
Counted(ok) ==
    [line \in Lines |->
        IF ok[line] # sample[line] THEN 1
        ELSE IF count[line] < StableSamples THEN count[line] + 1
        ELSE count[line]]

\* The debounced state, with the reading ok counted.
Accepted(ok, counted) ==
    [line \in Lines |->
        IF counted[line] >= StableSamples THEN ok[line] ELSE accepted[line]]

\* The latch once the error err has been looked at, before it is cleared.
Latched(err) ==
    IF err # last_err /\ err # 0 THEN [code |-> err, ts |-> tick] ELSE sticky

\* Mutants of Elapsed: the distance either way; a saturating difference.
ElapsedEitherWay(ts) == IF tick < ts THEN ts - tick ELSE tick - ts

ElapsedSaturating(ts) == IF tick < ts THEN 0 ELSE tick - ts

Elapsed(ts) == (tick - ts) % TickMod

\* Mutant of Kept: the latch expires at one tick only.
KeptUnlessExact(latch, clear) ==
    IF clear \/ Elapsed(latch.ts) = LatchAutoClear THEN NoLatch ELSE latch

\* The latch is let go when an input asks for it, or when it is old enough.
Kept(latch, clear) ==
    IF clear \/ Elapsed(latch.ts) >= LatchAutoClear THEN NoLatch ELSE latch

Remember(line, level) ==
    LET longer == Append(recent[line], level)
    IN  IF Len(longer) > StableSamples THEN Tail(longer) ELSE longer

Poll(ok, clear) ==
    LET counted == Counted(ok)
        state == Accepted(ok, counted)
        err   == InterpretErr(state)
        latch == Kept(Latched(err), clear)
        panel == [ok |-> state, err |-> IF latch.code # 0 THEN latch.code ELSE err]
        sets  == err # last_err /\ err # 0
    IN  /\ sample' = ok
        /\ count' = counted
        /\ accepted' = state
        /\ last_err' = err
        /\ sticky' = latch
        /\ shown' = panel
        /\ drawn' = IF panel # shown THEN DisplayUpdate(panel) ELSE drawn
        /\ idle' = 0
        /\ recent' = [line \in Lines |-> Remember(line, ok[line])]
        /\ cleared' = clear
        /\ held' = IF sets THEN 0 ELSE held
        /\ bootLatch' = (bootLatch /\ ~ sets /\ latch.code # 0)
        /\ UNCHANGED <<tick, lcd_ready>>

PollAny == \E ok \in Levels, clear \in BOOLEAN : Poll(ok, clear)

\* HAL_IncTick, in the SysTick interrupt.
Tick ==
    /\ idle < PollTicks
    /\ idle' = idle + 1
    /\ tick' = (tick + 1) % TickMod
    /\ held' = IF held < HeldBound THEN held + 1 ELSE held
    /\ UNCHANGED <<sample, count, accepted, last_err, sticky, shown,
                   lcd_ready, drawn, recent, cleared, bootLatch>>

Next == PollAny \/ Tick

\* The loop runs forever and the interrupt keeps coming.
Spec == Init /\ [][Next]_vars /\ WF_vars(PollAny) /\ WF_vars(Tick)

-----------------------------------------------------------------------------
(* Properties.                                                             *)

Code == 0 .. 3

Panel == [ok : Levels, err : Code]

TypeOK ==
    /\ tick \in 0 .. TickMod - 1
    /\ idle \in 0 .. PollTicks
    /\ sample \in Levels /\ accepted \in Levels
    /\ count \in [Lines -> 1 .. StableSamples]
    /\ last_err \in Code
    /\ sticky \in [code : Code, ts : 0 .. TickMod - 1]
    /\ shown \in Panel
    /\ lcd_ready \in BOOLEAN
    /\ drawn \in Panel \union {NeverDrawn}
    /\ cleared \in BOOLEAN
    /\ held \in 0 .. HeldBound
    /\ bootLatch \in BOOLEAN

Steady(line, level) == recent[line] = [i \in 1 .. StableSamples |-> level]

\* The debounced state of a line changes only after StableSamples readings in a
\* row that agree on the new state: no shorter glitch is ever accepted.  And whenever
\* so many agree it is their state, whatever the line did before: no change of a line
\* that has settled is missed, or told late.
Debounced ==
    [][\A line \in Lines :
          /\ accepted'[line] # accepted[line] => Steady(line, accepted[line])'
          /\ \A level \in BOOLEAN : Steady(line, level)' => accepted'[line] = level]_vars

\* What is on the LCD is true, though the loop and display.c both skip updates
\* they take to be redundant: the debounced lines, and the code of the error that
\* is live, to which a latched one of the past gives way, or else the latched one.
LcdTruthful ==
    LET live == InterpretErr(accepted)
    IN  lcd_ready => drawn = [ok |-> accepted, err |-> IF live # 0 THEN live ELSE sticky.code]

\* A latched error disappears by the clear inputs or after LatchAutoClear ms,
\* not earlier, also when the tick wraps around.  Of the latch that the boot
\* sets this does not hold: see BootLatchHeld.
LatchHeld ==
    [][sticky.code # 0 /\ sticky'.code = 0 /\ ~ bootLatch =>
          cleared' \/ held >= LatchAutoClear]_vars

\* The same of every latch ("Auto-clear after 5 seconds", main.rs).
BootLatchHeld ==
    [][sticky.code # 0 /\ sticky'.code = 0 =>
          cleared' \/ held >= LatchAutoClear]_vars

\* No latch outlives LatchAutoClear by more than one iteration of the loop.
LatchExpires == sticky.code # 0 => held <= LatchAutoClear + PollTicks

\* Once the lines stay good, the panel turns to "OK", "OK" and 0x00 and stays
\* so: no error is latched forever.
Recovers ==
    <>[](sample = [line \in Lines |-> TRUE]) =>
        <>[](shown = [ok |-> [line \in Lines |-> TRUE], err |-> 0])
=============================================================================
