# A verification project for the wireless keyboard

This directory holds TLA+ models of the code of this repository, the TLC runs
that check them, and proofs that TLAPS checks. Paths below are relative to the
repository's root.

Run a model with `tlc -config <run>.cfg <module>.tla`, check the proofs with
`tlapm <module>.tla` of each of the eight modules `...Proofs`. `PROJECT.json` lists the
runs and the theorems, says for every definition which lines of the source it models,
and gives for every property a plausible bug (a "mutant") under which TLC finds the
property violated.

## 1. The system

The repository is a wireless keyboard before its hardware: a protocol crate that
is shared by simulation and firmware, a host simulator, two radio firmwares that
try out the link, and a debugger that shows the state of the link on an LCD.

| Component | State | Operations | Interacts with |
|---|---|---|---|
| session keys (`proto/src/lib.rs` 495-549) | salt, session id, counter of the next packet | `new`, `next_counter`, `reset_counter`, `resume_from`, `nonce_for`, `handshake_nonce` | whoever seals packets; the storage that persists the counter over a sleep |
| packet validation (`lib.rs` 167-201) | none; its caller keeps the last counter and the session | `validate_packet` | the receiver |
| framing (`lib.rs` 203-493) | none | `serialize_*`, `seal_framed`, `parse_*`, `open_framed` | the AEAD, the radio |
| authenticated encryption (`proto/src/aead.rs`) | a key | `seal`, `open` | framing |
| mock radio (`proto/src/sim.rs`) | clock, queue, counters, whether the first frame was seen | `push`, `pop`, `advance`, `stats` | both ends of an exchange, which share one radio |
| report exchange (`proto/tests/mock_rf.rs`, `warm_wake_rf.rs`) | attempt, counter, ack, the radio | send, receive and answer, retransmit, give up | session keys, validation, framing, mock radio |
| host simulator (`host-sim`) | arguments, last counter, radio, metrics file | a pipeline over three sample packets, and a warm wake | all of the crate |
| keyboard skeleton (`firmware/keyboard-skeleton`) | session keys | resume, take a counter, derive a nonce | session keys |
| debugger (`firmware/debugger`) | debounced lines, latched error, two caches of what is shown | a polling loop; the SysTick interrupt | GPIO, LCD (`c/display.c`) |
| radio transmitter, radio receiver (`firmware/radio-tx`, `radio-rx`) | rolling number; iteration count, USB | beacon loop; receiving loop with idle work | each other, over the air |
| build scripts (`firmware/*/build.rs`) | a `memory.x` per profile and one in the crate's directory | find the layout in variables or in the bootloader's file, write it | cargo, the linker, the mounted board |
| debugger board support, `feather-fw`, `led-test`, backend traits | - | - | - |

What is hard about it, and what makes each part correct:

- **Nonces.** A nonce is `salt || counter`, with no randomness per packet, so
  the crate's security rests on no salt and counter ever occurring twice, over
  handshakes, sleeps, warm wakes from a persisted counter, reboots, and a
  counter that runs into its threshold.
- **Retransmission.** One thread plays sender and receiver on a radio that
  drops, reorders and delays. A retransmission may cross the ack it waits for.
  The exchange must end, must not claim an ack that was not sent, and has 10 ms.
- **The receiver's window.** Validation compares with one number, the last
  counter. Copies and latecomers must be refused; a gap as wide as the window is
  never closed again.
- **Two ends that must agree.** Sealing, opening, parsing and validating each
  check lengths, in different orders and with the same exception for handshakes.
- **Two ends that must stay together.** The receiver keeps its session and its last
  counter over everything the keyboard does: sleeps, wakes, re-pairings, and frames
  of a session that both have left.
- **The debugger's loop** has an interrupt under it, a tick that wraps around,
  debounced inputs, a latch with two ways to clear it, and two layers that skip
  redundant updates.
- **The radio firmwares** are two unsynchronised loops; the receiver is deaf
  while it does anything but receive, and does nothing while it receives.

- **The build scripts** run when cargo thinks they must; an image linked for another
  board's layout is written over the wrong flash.

Nothing here persists state itself, and there are no threads apart from the
interrupt; crashes matter only to the session.

## 2. The modules

| Module | Models | Extends / instantiates |
|---|---|---|
| `SessionKeys` | the operations of `SessionKeys`, as operators on a record | - |
| `SessionLifecycle` | a keyboard's session over handshake, packets, sleep, warm wake, reboot | `SessionKeys` |
| `SessionLink` | that keyboard and its receiver, over a radio that loses, copies and reorders | `SessionLifecycle`, `Validation` |
| `SessionProofs` | theorems about both | `SessionLink` |
| `MockRf` | the operations of `MockRf`, as operators on a record | - |
| `MockRfProofs` | lemmas about them | `MockRf` |
| `LossyChannel` | abstract: frames are lost, held, delivered once | - |
| `RfChannel` | a `MockRf` under any sequence of calls; refines `LossyChannel` | `MockRf` |
| `RfChannelProofs` | theorems about it | `RfChannel`, `MockRfProofs` |
| `Validation` | `validate_packet` | - |
| `Framing` | sealing, opening, parsing, with either AEAD | `Validation` |
| `Receiver` | both ends of a session over a radio that does its worst | `Framing` |
| `ReceiverProofs` | theorems about it | `Receiver` |
| `DeliveryPromise` | abstract: what an exchange promises | - |
| `Exchange` | the retransmission loop; refines `DeliveryPromise` | `SessionKeys`, `MockRf`, `Validation` |
| `ExchangeProofs` | theorems about it | `Exchange`, `MockRfProofs` |
| `HostSim` | `main` of the host simulator | `SessionKeys`, `MockRf`, `Framing` |
| `HostSimProofs` | theorems about it | `HostSim`, `MockRfProofs` |
| `Debugger` | the polling loop and the interrupt | - |
| `DebuggerProofs` | theorems about it | `Debugger` |
| `RadioLink` | radio-tx, radio-rx and the air | - |
| `BuildLayout` | the build scripts, and cargo as far as they rely on it | - |
| `FirmwareProofs` | theorems about both | `RadioLink`, `BuildLayout` |
| `MC...` | the instances for TLC | the module they are named after |

The state and the actions, and the code they stand for:

**SessionLifecycle.** `keys` is the live `SessionKeys`, `cache` what was persisted.
`Handshake` is `SessionKeys::new` and the packet under `handshake_nonce`;
`NextCounter` is `next_counter` and `nonce_for`, as the keyboard skeleton calls them;
`CounterExhausted` its error; `Sleep`, `WarmWake` and `Reboot` are what host-sim, the
tests and `docs/protocol.md` presume around `resume_from`; `ResetCounter` is
`reset_counter`. The variable `caller` is the kind of caller of a run: careful ones
never reset a live session and resume from the persisted counter, resetting ones do
as the test of counter exhaustion does, free ones as they like. The history `issued`
is the set of nonces handed out.

**SessionLink.** Every step of `SessionLifecycle`, joined with what it means to the
receiver: `Pair` is a handshake that both ends take part in, `Send` a `NextCounter`
whose frame goes into `air`, `KeyboardAlone` the rest, which the receiver does not
notice. `expected` and `last` are the arguments that the tests give to
`validate_packet`. A frame is told by its nonce and opens under no other, so a frame
of an old session is refused by the AEAD, whatever its counter.

**RfChannel.** `rf` is the struct. `PushFrame`, `PopFrame` and `AdvanceClock` are
its three methods, `PushOverflows` the panic of `now_ms + jitter_ms` in a build
with overflow checks; without them the sum wraps (`DeliverAt`). The refinement
maps the queue to the frames in the air and forgets the clock.

**Framing, Receiver.** A frame keeps the header, the length field, the number of
bytes behind it, and whether the bytes are those that were sealed. `suite` is the
configured AEAD and the length of its tag. A tag is the term of all that went into it
(an ideal AEAD), unless it has no bytes: then it fits everything. `Send` takes the next counter,
also if sealing fails; `Arrive` is `open_framed` under the nonce of the header's
counter, then `validate_packet`, then the last counter is kept, as
`proto/tests/flow_basic.rs` chains them; `Damage`, `Lose` and the copies that
`Arrive` leaves behind are the radio.

**Exchange.** One `flow` describes what the three loops of the tests differ in:
the radio, the resumed counter, how much the clock is advanced and when, whether
a keep-alive follows the ack, whether the first ack is withheld, whether the ack
ends the draining. `TakeCounter`, `Transmit`, then one of `ReceiveReport`,
`ReceiveAck`, `IgnoreFrame` for every frame that `pop` returns, then `Succeed`,
`Retry` or `GiveUp`. `ReceiveReport` panics where the test's `expect` would.

**HostSim.** `args` is the command line. The loops of `main` are `ValidateSample`,
`FrameOnly` or `FrameAndPush` with `PopDelivered` and `PopNone`, then `Report`,
`WarmWake`, `ReportAgain`. `--drop-first` and `--reorder` are flags that default
to true, so they are true in every run of the program. A panic ends the program in a
place named for its cause: `frame_panic` (the `expect`s on framing and sealing, never
reached), `push_panic` (the sum in `push`), `counter_panic` (the `expect` on
`next_counter`) and `write_panic` (those on the two writes of the metrics file). A write
(`Written`) succeeds or fails as the file system pleases; when it fails, the file is as it
was, or emptied. `csv` is what this run has in the file.

**Debugger.** `Poll` is one iteration of the loop, `Tick` the interrupt. An
iteration reads the tick once and each line once, so an interrupt inside it is
the same as one before or after it. `drawn` is the cache of `display.c`, `shown`
that of the loop. The histories `recent`, `held`, `cleared` and `bootLatch` serve
the properties.

**RadioLink.** `rx_at` is the place in the receiver's loop, with the time it still
stays there; `Heard`, `Unheard` and `Spoilt` are a beacon sent while the receiver
listens, is deaf, or has noise on top of it; `Burst` is noise that ends a
reception with a bad CRC; `Tick` lets time pass for whoever waits.

**BuildLayout.** `env` and `disk` change between builds (`Export`, `Mount`). A build
of a profile finds the script fresh (`BuildSkips`), or runs it (`BuildRuns`,
`BuildFails`). `Found` is the decision between variables and files, with
`FromInfo` going through the candidate files in their order. `Named` is what the
script prints as `rerun-if-env-changed`, and all that cargo's `Fresh` looks at. rustc
runs in the workspace's directory, so the linker finds the `memory.x` of `OUT_DIR`;
that of the crate's directory is written (`root`) and not read.

## 3. What is checked

| Run | States | Shows |
|---|---|---|
| `session_link` | 2 656 318 | careful callers: no nonce twice (`NonceUsedOnce`), the counter ahead of all that was used (`AheadOfIssued`), counters of a salt increase over sleeps and wakes (`CountersIncrease`), an exhausted session seals nothing more (`SpentForGood`), and unless a window of packets was lost the next packet gets through (`NextGetsThrough`). All callers: the receiver takes no packet twice, none out of order and none of a session it has left (`AcceptedOnce`); packet counters stay off the handshake's and below the threshold (`PacketCountersInRange`) |
| `rf_channel` | 30 047 | every configuration: frames are accounted for (`StatsAccount`), in order, or overtaken by one at a time where reordering is on (`OvertakesOne`), never early (`JitterPasses`); refinement (`ImplementsChannel`) |
| `exchange` | 11 672 | all flows: the promise is kept, an outcome included and no panic (`ImplementsPromise`), bounded latency (`LatencyBounded`: 8 ms at the pace of the tests, of a budget of 10), no nonce for two packets that differ (`NonceBindsPacket`); flows that let jitter pass, the three of the tests among them: never given up (`NeverFails`), and so always acked |
| `receiver` | 709 590 | with tags of 16 and 8 bytes and none: accepted in order and once (`AcceptedInOrder`), as sent (`AcceptedAsSent`); what is sealed opens, and is refused for its counter only (`IntactOpens`); parsing and opening agree (`ParseAgrees`); a window of packets lost in a row is for good (`LockedOutForGood`) |
| `debugger` | 28 860 | no glitch is accepted and no steady level missed (`Debounced`), the LCD shows the lines and the live error, or else the latched one (`LcdTruthful`), the latch lasts as long as it should across the wrap (`LatchHeld`, `LatchExpires`), and the panel recovers (`Recovers`) |
| `radio_link` | 48 770 | a beacon is missed only for noise, one per burst (`OneLossPerBurst`); numbers tell losses across the wrap (`SeqTellsLosses`); while beacons come, USB comes up and the heartbeat comes again and again (`BeatsWithBeacons`) |
| `host_sim` | 8 256 | the samples pass validation and sealing, and the program panics only for a jitter that overflows the clock, a counter at the threshold, or a metrics file that cannot be written (`SamplesSound`); the default warm wake takes a fresh nonce (`WarmWakeFresh`); the reported attempts are the packets less those still on the radio: all of them up to a jitter of 2 ms, too few beyond it (`AttemptsAccount`) |
| `build_layout` | 659 920 | whatever is exported, mounted and built in between, an image is linked for what its build was told, by variables or by one file, never by both (`LinkedAsTold`) |

Four runs show that the code does not do what the repository says of it:

- `session_reset` (`lib.rs` 529): `reset_counter` on a live session keeps the
  salt. The test `counter_exhaustion_prevents_nonce_reuse` calls it on an
  exhausted session, and the nonces come again, where the doc of `next_counter`
  asks for a fresh salt.
- `radio_heartbeat` (radio-rx `main.rs` 220): without packets `rx_packet` never
  returns, and the heartbeat that is to work "even without packets" does not.
  With packets it comes every 1000 packets, not every second.
- `host_warm` (host-sim `main.rs` 175): after `--session-salt` the warm wake
  goes on under the default salt, which is not the cached session's.
- `debugger_boot` (debugger `main.rs` 128): the error latched at the boot has the
  timestamp 0 and expires early by the duration of the boot. `LatchHeld` says the
  same of every other latch, and holds.

Other observations, which no run records: in a release build `JitterPasses` fails,
because `push` wraps where `advance` saturates (set `OverflowChecks = FALSE`); the
loops of the tests seal acks under `counter + 1` without taking it from the
session, so a second report through the same `SessionKeys` would reuse that nonce;
the receiver of the loops validates against `counter - 1` rather than the last
counter it accepted, so it takes a retransmitted report twice (`DeliveryPromise`
allows this, for each transmission once); the metrics file is written twice and
ends up without its attempts, and if the second write fails after it has emptied the file,
the first metrics are lost with it; the attempts it reports are frames delivered or dropped,
so with a jitter of 3 ms or more they are fewer than the frames pushed; `feather-fw/build.rs` does not ask cargo to
watch the bootloader's file, so a build after another board was mounted at the same path
keeps the layout of the board before (`LinkedAsTold` claims of the file only that it was
there when the script ran); and it reads no file that has a line without a colon, an
empty one included, nor says so.

### Bounds, and why they are enough

- `session_link`: two sessions, a threshold of 4 and counters up to it, so free callers
  resume at the threshold too; a window of 2 for 50, two frames on their way. Every boundary
  (first packet, threshold, window) is reached, a session is exhausted, and frames of the
  first session arrive in the second; the proofs cover all values.
- `session_reset`: two salts, a threshold of 5, a counter of three bits.
- `rf_channel`: four frames, a clock that ends at 5 ms. Dropping concerns the first
  frame and reordering two neighbours; the end of the clock is reached.
- `exchange`: jitter up to 3 ms and steps up to 2 ms, so jitter is below, at and above
  the pace; the code's single retransmission; counters resumed from 1 and 10.
- `receiver`: a window of 2 for 50, four packets, one damaged frame, tags of
  16, 8 and 0 bytes, the other lengths of the source, payloads at the limit and one byte beyond. Two packets lost in a row leave the
  window. One damaged frame, because damage to a frame does not depend on damage
  to another.
- `debugger`: a tick of three bits, a latch of 3 ms, iterations at most 2 ticks apart,
  two equal readings for the code's three. The tick wraps while the latch is held, at every offset. The
  assumption of the module, that the latch time and an iteration fit into the tick,
  holds of 5000 ms and a u32.
- `radio_link`: units of 10 ms, rounded up, with every delay up to a unit late; a heartbeat
  after 6 packets, USB after 3; beacon numbers of three bits; two bursts.
- `host_sim`: jitter on both sides of the step of 2 ms, and of what overflows the clock at
  the second and at the third push; resumed counters on both sides of the default and of
  the threshold.
- `build_layout`: two profiles, two paths, and environments and files for every branch:
  complete, complete with RAM, equal bounds, half, malformed; a good file, one whose second
  `App start` is malformed, one with a line without a colon.

Deadlock is checked where the system runs on (`debugger`, `radio_link`, `build_layout`);
exchange, receiver and simulator end, and a keyboard that has used up its salts may stop.

### Fairness, and why the code justifies it

- `Exchange`: weak fairness of `Next`. One thread runs the loop and waits for
  nothing: `pop` returns at once.
- `Debugger`: weak fairness of an iteration and of the tick. The loop has no exit and
  calls nothing that waits; SysTick is enabled in `HAL_Init`. The lines are the
  environment's: `Recovers` presumes that they stay good in the end.
- `RadioLink`: weak fairness of beacons, of the steps of the receiver's loop and of
  time. Nobody is obliged to switch a device on, and noise is bounded.

## 4. What is proved

Every invariant and every safety property of the passing runs is a theorem. A theorem is
about `Spec` (`LinkSpec`, `BuildSpec`), and so about every value of the constants that
satisfies the assumption of its module; where it needs more it says so. Each module has
an inductive invariant, called `IInv` in most, which relates what the property does not
speak of; the lemma `<Action>Keeps` shows for an action that it is kept.

### The session (`SessionProofs`)

Of `SessionLifecycle`, for every threshold, width of the counter and set of salts:

| Theorem | States |
|---|---|
| `TypeCorrect` | `TypeOK` always |
| `CountersStayInRange` | `PacketCountersInRange`, of all callers |
| `AheadAlways` | `AheadOfIssued` always; its main part of careful callers |
| `NoNonceReused` | `NonceUsedOnce` always, of careful callers |
| `CountersAlwaysIncrease` | `CountersIncrease`, of careful callers |
| `SpentStaysSpent` | `SpentForGood`, of careful callers |

They are theorems of `Spec` without further assumptions: that a caller is careful
(`RulesKept`) is the hypothesis of the properties themselves, and `CallerStays` carries
it through a run. It is needed: without it, `session_reset` is the counterexample. The
model adds that a handshake picks a salt never used before, which in the program is up
to randomness.

That no nonce is used twice is not inductive: it says nothing of the counter that
comes next. The inductive invariant is `AheadOfIssued`: the live counter, and the
persisted one while there is one, is greater than every counter used under its salt.
It is kept by `NextCounter` since the counter moves past the one it hands out
(`IncrementExact`: below the threshold the increment does not wrap), by `Sleep` and
`WarmWake` since they carry it over, and by `Handshake` since its salt is unused
(`SessionClosed`, `UsedGrows`). `IssueStep` then says that a nonce handed out is
new, and the properties follow.

Of `SessionLink`, for every window, number of sessions and number of frames in the air
besides:

| Theorem | States |
|---|---|
| `LinkImplementsLifecycle` | `LinkSpec => Spec`: a step of the link is a step of the keyboard or none |
| `LinkNonceUsedOnce` | `NonceUsedOnce` always, of careful callers |
| `AcceptedOnceAlways` | `AcceptedOnce` always, of all callers |
| `LinkTypeCorrect` | `LinkTypeOK` always |
| `NextAlwaysGetsThrough` | `NextGetsThrough` always, of careful callers |

The first carries every theorem about the keyboard over to the link. `AcceptedOnce` is
about pairs of accepted packets and says nothing of the receiver's own state; the
invariant that ties the two is `Follows`: the session and the counter that the receiver
keeps are those of the last packet it accepted, and all it accepted was handed out. A
packet is then accepted only in that session and after that counter (`AcceptMovesOn`),
and a handshake is under a salt that no accepted packet has (`PairIsFresh`), which is
where the receiver depends on the keyboard.

`NextGetsThrough` speaks of how many packets were missed, validation of how far apart
two counters are. The invariant `NoGap` ties the two: while a careful keyboard keeps a
session, in memory or in flash, the receiver is in it too, and every counter between the
receiver's last and the keyboard's next was handed out. A gap of the window's width is
then that many packets missed, since an interval is as large as it is wide.

`LinkAssumption` says that `None`, the absence of a session, is no salt, and that tags and
packets have at least a byte, without which validation refuses every packet.

### The mock radio (`MockRfProofs`, `RfChannelProofs`)

`MockRfProofs` says what `push`, `pop` and `advance` do to a radio of any frames: where an
entry goes, which one leaves, what the lengths and the copies of a frame become. Whoever
holds a radio cites it: `RfChannelProofs` by EXTENDS, the exchange and the simulator
through an instance.

| Theorem | States |
|---|---|
| `ChannelInvariant`, `ChannelTypeOK` | the inductive invariant, and `TypeOK` |
| `StatsAlwaysAccount` | `StatsAccount` always |
| `RadioIsAChannel` | `Spec => ImplementsChannel`, the whole refinement |
| `JitterAlwaysPasses`, `OvertakesAtMostOne` | `JitterPasses`, `OvertakesOne`, in builds with overflow checks |

The invariant is that a frame is in the queue once and only the first is ever lost
(`Once`, `Accounts`). For the two properties about time there is `TimeInvariant` besides:
every entry is due its jitter after its push, and the entries are in the order of their
pushes, but for the last one of a radio that reorders. It has the hypothesis
`OverflowChecks`: a release build wraps `now_ms + jitter_ms`, and then a frame may be due
at once. The other theorems are of both builds.

### The exchange (`ExchangeProofs`)

For every set of loops, every number of retransmissions, every clock and counter:

| Theorem | States |
|---|---|
| `ExchangeInvariant`, `ExchangeTypeOK` | the inductive invariant, and `TypeOK` |
| `LatencyAlwaysBounded` | `LatencyBounded` always |
| `NonceAlwaysBinds` | `NonceBindsPacket` always |
| `ExchangeKeepsPromise` | the initial state is the promise's, and every step one of the promise or none |
| `PushNeverPanics` | no push overflows |
| `OwedInvariant`, `PacedNeverFails` | the inductive invariant of the ack, and `NeverFails` always, if `MaxRetransmit > 0` |
| `StepsAlwaysNearer` | `Left`, a number, decreases with every step |

That the clock is bounded, and that the report is accepted no more often than it is sent,
are not inductive: both need the copies in flight. `Counted` says that the
transmissions accepted and those in the queue are no more than those sent, and that the
clock has moved by a step at most for each transmission and each acceptance. An acceptance takes a
copy out of the queue, so there are at most as many as transmissions, and `2 *
(MaxRetransmit + 1)` steps. `ExchangeKeepsPromise` is the safety part of
`ImplementsPromise`; that an outcome comes is liveness. `PushNeverPanics` is why the loop
of the model needs no panic in `push`.

That a loop which lets jitter pass never gives up is a fact about the moment at which it
has drained after its last transmission, and the invariant `OInv` says how it gets there.
The radio drops its first frame and no other, so one of the transmissions is queued, and
every later answer (`Owed`): from the retransmission on, the report or the ack to it is on
the radio until the ack is there. The wait after the retransmission is longer than the
jitter, so all that is on the radio is then due (`Due`), whatever overtook what, and the
loop drains until nothing is. The hypothesis `MaxRetransmit > 0` holds of the code's 1;
without a retransmission a dropped report is the end.

That an outcome comes needs a measure that no radio can raise: an accepted report puts up
to two answers on the queue, so a report in flight weighs two and its entry one, and a
transmission to come weighs five: itself, its report's three, and the outcome of the
attempt. `StepCosts` has a step for each action. An exchange so makes at most
`5 * (MaxRetransmit + 1) + 1` steps (the 11 that TLC finds), and one of a paced loop does
not end in a failure. That it makes a step when it can is fairness and stays with TLC,
as the outcome in `ImplementsPromise`.

`ExchangeAssumption` asks that a loop does not run into the end of the clock, that its
first wait is not longer than the others, as in the three tests, and that the two counters
after the report's, which the loops use for answers, fit into the counter's type.

### The receiver (`ReceiverProofs`)

For every window, limit, suite and payload, any number of packets and any damage:

| Theorem | States |
|---|---|
| `ReceiverInvariant`, `ReceiverTypeOK` | the inductive invariant, and `TypeOK` |
| `NeverTwiceNorBack` | `AcceptedInOrder` always |
| `OnlyWhatWasSent` | `AcceptedAsSent` always |
| `IntactAlwaysOpens` | `IntactOpens` always |
| `ParsersAgree` | `ParseAgrees` always |
| `LockedOutStays` | `LockedOutForGood` |

The invariant follows the frames: each one in the air stems from a packet that was sealed
(`AllStem`, `Stems`), with that packet's tag or none, a text of the sealed length, and a
counter that damage has not moved too far. A frame that opens is then a whole one, since
its tag is the term of all that went into it (`SealedFields`, `RoundTrip`), and a packet
that validation lets through comes after the last counter (`ArriveVerdict`).
`ReceiverAssumption` asks that a handshake may be longer than an acknowledgement, and that
the bodies are pairs of a kind and a payload that the code can build.

### The debugger (`DebuggerProofs`)

For every width of the tick, number of samples and time that a latch is held:

| Theorem | States |
|---|---|
| `DebuggerInvariant`, `DebuggerTypeOK` | the inductive invariant, and `TypeOK` |
| `LcdAlwaysTruthful` | `LcdTruthful` always |
| `LatchAlwaysHeld`, `LatchAlwaysExpires` | `LatchHeld`, `LatchExpires` |
| `AlwaysDebounced` | `Debounced` |

`Truthful` says of the two caches what each presumes of the other. `Counts` relates the
count of equal readings to the readings: while a line differs from its debounced state,
its last `count` readings are equal and the one before was not, so that it is neither
accepted too early nor too late. `HeldByTick` says that the tick less the
timestamp is the time that the latch was held, once around at most, which is why
`LatchAutoClear` and an iteration must fit into the tick. The latch of the boot is apart:
its timestamp is 0, so it is held from tick 0 as far as the loop can tell, and the loop
must be entered before the tick first wraps (49 days after the boot).

### The radios (`FirmwareProofs`)

For every delay up to `Slack`, as long as the receiver waits again before the next beacon,
and as many bursts of noise as the number of a beacon can count:

| Theorem | States |
|---|---|
| `RadioLinkInvariant`, `RadioLinkTypeOK` | the inductive invariant, and `TypeOK` |
| `OneLossForEachBurst` | `OneLossPerBurst` always |
| `SeqAlwaysTells` | `SeqTellsLosses` always |

`Losses` compares the longest time that the receiver may stay deaf (`Work`: its blink, heartbeat and pause to
come) with the time until the next beacon: if that beacon may find it deaf, one burst
more than beacons were missed has happened. A beacon heard leaves more time than the
work takes, which is the assumption of the module. `Numbered` says that the difference of
the numbers is the number of beacons missed, or that less one turn.

### The build scripts (`FirmwareProofs`)

For all sets of profiles, environments, paths and files, and every order of the mounts:

| Theorem | States |
|---|---|
| `BuildInvariant`, `BuildTypeCorrect` | the inductive invariant, and `BuildTypeOK` |
| `AlwaysLinkedAsTold` | `LinkedAsTold` always |

A build that skips the script links what an earlier run left, for an environment that may
have changed since. The invariant therefore speaks of what cargo has on record: the
`memory.x` of a profile says what the variables of its `stamp` say, or one file of the disk
at that time. A build skips only if its environment agrees with the stamp, and it does so
for all variables that the layout depends on, since the scripts name them all. The
other half is that the scripts find what they are told: `FromInfo` returns the two numbers
of one file, each from one of its lines. `BuildAssumption` says that `None` and
`Junk` are apart from all data, and that files are sequences of lines.

### The simulator (`HostSimProofs`)

For every command line, threshold, width of the counter and clock, and both builds:

| Theorem | States |
|---|---|
| `HostSimInvariant`, `HostSimTypeOK` | the inductive invariant, and `TypeOK` |
| `SamplesAlwaysSound` | `SamplesSound` always |
| `WarmWakeAlwaysFresh` | `WarmWakeFresh` always |
| `AttemptsAlwaysAccount` | `AttemptsAccount` always |

`Numbered` says that the last counter is that of the sample before, `Accounted` that
the packets pushed are delivered, dropped or on the radio, and `Woken` that the
warm wake goes on, by default, with counter 3. `AttemptsAccount` turns on what is left on
the radio in the end. A jitter of 2 ms at most is over when the clock has moved, so all is
due while packets are popped, and nothing is left when none is to be had (`Drained`). With
a longer one the last packet is not due, a pop takes only what is, and it stays (`Kept`);
the clock is at 4 ms when it is pushed (`Timed`), so this holds as long as 4 ms and the
jitter fit into the clock, with overflow checks and without. `Told` has the causes of the
panics, of which that of the overflow follows from `Timed` too. `HostSimAssumption` asks for a threshold beyond the
samples and room for the longest of their payloads, four bytes; the length of the tag is
16, which `DummyAead` and the real AEAD share with `demo_config`.

### Only model-checked

Liveness is out of the prover's reach: `Recovers`, `BeatsWithBeacons`, and
the outcome in `ImplementsPromise`. The four runs that expect a violation show one by a
counterexample.

## 5. What is not modelled

- The ciphers, and the bits of `DummyAead`'s hash: a tag of at least a byte is ideal. For a
  tag of one byte that is far from the truth; the model keeps what the code decides.
- The bytes of payloads, and the printing of every program; and so the panic of `println!`
  when the output of the host simulator is closed.
- Command lines that the host simulator refuses: it ends before it does anything. What its
  metrics file held before the run, and the numbers in it but for the attempts.
- Registers of the radios, clocks and USB, and the board support and build script of the
  debugger: configuration without state.
- A write of `memory.x` that fails: the build fails with it, and the script runs again.
- `feather-fw` and `led-test`: a greeting and a blink.
- `backend.rs`: traits that nothing implements.
- The handshake's cryptography: `Handshake` is its outcome.

## 6. Plan

Done, in this order: session keys and life cycle with proofs; mock radio; exchange;
debugger; validation, framing and receiver; radio link; host simulator; the life cycle
composed with its receiver, with proofs; the AEADs' own checks; the build scripts; proofs
about the radio, the exchange, the receiver, the debugger, the radio link and the simulator;
of the end of an exchange, and of the layout that an image is linked for.

Next: `Receiver` over `RfChannel` in place of its free radio.
