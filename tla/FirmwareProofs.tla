---------------------------- MODULE FirmwareProofs ----------------------------
(***************************************************************************)
(* Proofs about the firmwares of the nice!nano boards: RadioLink, for      *)
(* every delay that lets the receiver wait again in time, every width of a *)
(* beacon's number and any noise that the number can count; BuildLayout,   *)
(* for every set of profiles, environments and files.                      *)
(***************************************************************************)
EXTENDS RadioLink, BuildLayout, WellFoundedInduction, TLAPS

Deaf == rx_at \in {"blink", "heartbeat", "pause"}

\* The longest time for which the receiver may stay deaf from now on.
Work ==
    CASE rx_at = "blink"     -> rx_wait + (Blip + Slack) + (LoopPause + Slack)
      [] rx_at = "heartbeat" -> rx_wait + (LoopPause + Slack)
      [] OTHER               -> rx_wait

\* Where the receiver is bounds how long it stays there and how far it has counted.
Places ==
    /\ tx_on \in BOOLEAN /\ usb_ready \in BOOLEAN
    /\ tx_wait \in 0 .. BeaconGap + Slack
    /\ rx_at \in {"off", "listen"} \union {"blink", "heartbeat", "pause"}
    /\ rx_wait \in Nat /\ blink_ms \in 0 .. HeartbeatAt
    /\ rx_at \in {"off", "listen"} => rx_wait = 0
    /\ rx_at \in {"blink", "heartbeat"} => rx_wait <= Blip + Slack
    /\ rx_at = "pause" => rx_wait <= LoopPause + Slack /\ blink_ms < HeartbeatAt

\* A beacon that may find the receiver deaf has a burst of its own to blame: every
\* burst but one, at least, is paid for already.
Losses ==
    /\ bursts \in 0 .. MaxBursts
    /\ missed \in [since : Nat, ever : Nat]
    /\ missed.since <= missed.ever /\ missed.ever <= bursts
    /\ Deaf /\ Work >= tx_wait => missed.ever < bursts

\* The number of the next beacon is as far from the last one heard as beacons were
\* missed, once around at most.
Numbered ==
    /\ seq \in 0 .. SeqWrap - 1
    /\ last_seq \in {NoSeq} \union 0 .. SeqWrap - 1
    /\ rx_at = "off" => last_seq = NoSeq
    /\ last_seq # NoSeq =>
          seq - last_seq - 1 = missed.since \/ seq - last_seq - 1 = missed.since - SeqWrap

IInv == Places /\ Losses /\ Numbered

\* The constants are numbers.
LEMMA Numbers ==
    /\ Blip \in Nat \ {0} /\ BeaconPause \in Nat /\ LoopPause \in Nat \ {0} /\ Slack \in Nat
    /\ 2 * Blip + LoopPause + 3 * Slack < BeaconGap /\ BeaconGap \in Nat
    /\ HeartbeatAt \in Nat \ {0} /\ MaxBursts \in Nat
    /\ SeqWrap \in Nat /\ MaxBursts + 1 < SeqWrap
  BY RadioLinkAssumption DEF BeaconGap

\* Whatever the receiver is busy with, it is done before the next beacon.
LEMMA WorkBound ==
    ASSUME Places
    PROVE  Work \in Nat /\ (Deaf => Work < BeaconGap)
  BY Numbers DEF Places, Work, Deaf

\* The idle work never takes longer than a receiver that blinks has reckoned with.
LEMMA IdleWork ==
    ASSUME Places, ToIdleWork
    PROVE  /\ Deaf' /\ Work' <= (Blip + Slack) + (LoopPause + Slack) /\ Work' \in Nat
           /\ rx_at' \in {"heartbeat", "pause"} /\ rx_wait' \in Nat
           /\ rx_at' = "heartbeat" => rx_wait' <= Blip + Slack
           /\ rx_at' = "pause" => rx_wait' <= LoopPause + Slack /\ blink_ms < HeartbeatAt
           /\ blink_ms' = blink_ms /\ usb_ready' = usb_ready
  <1>1. blink_ms \in Nat
    BY Numbers DEF Places
  <1>2. CASE blink_ms >= HeartbeatAt
    BY <1>1, <1>2, Numbers DEF ToIdleWork, Late, Deaf, Work
  <1>3. CASE ~(blink_ms >= HeartbeatAt)
    BY <1>1, <1>3, Numbers DEF ToIdleWork, Late, Deaf, Work
  <1>4. QED
    BY <1>2, <1>3

\* The numbers of two beacons in a row.
LEMMA NextNumber ==
    ASSUME Numbered
    PROVE  NextSeq = IF seq + 1 = SeqWrap THEN 0 ELSE seq + 1
  <1>1. \A m \in Nat \ {0} : \A x \in 0 .. m - 1 : (x + 1) % m = IF x + 1 = m THEN 0 ELSE x + 1
    OBVIOUS
  <1>2. QED
    BY <1>1, Numbers DEF Numbered, NextSeq

\* A beacon that is missed is told by the number of the next.
LEMMA MissedNumber ==
    ASSUME Numbered, Losses, BeaconSent, last_seq' = last_seq, missed'.since = missed.since + 1,
           rx_at' = "off" => rx_at = "off"
    PROVE  Numbered'
  <1>1. seq' = (IF seq + 1 = SeqWrap THEN 0 ELSE seq + 1) /\ seq \in 0 .. SeqWrap - 1
    BY NextNumber DEF BeaconSent, Numbered
  <1>2. missed.since \in Nat /\ missed.since + 1 < SeqWrap
    BY Numbers DEF Losses
  <1>3. seq' \in 0 .. SeqWrap - 1
    BY <1>1, Numbers
  <1>4. ASSUME last_seq # NoSeq
        PROVE  \/ seq' - last_seq - 1 = missed'.since
               \/ seq' - last_seq - 1 = missed'.since - SeqWrap
    <2>1. last_seq \in 0 .. SeqWrap - 1
      BY <1>4 DEF Numbered
    <2>2. seq - last_seq - 1 = missed.since \/ seq - last_seq - 1 = missed.since - SeqWrap
      BY <1>4 DEF Numbered
    <2>3. QED
      BY <1>1, <1>2, <2>1, <2>2, Numbers
  <1>5. QED
    BY <1>3, <1>4 DEF Numbered

-----------------------------------------------------------------------------
(* The invariant is inductive: one lemma for each kind of step.            *)

\* A beacon is heard: the receiver blinks, and is done before the next.
LEMMA HeardKeeps ==
    ASSUME IInv, Heard
    PROVE  IInv'
  <1>1. /\ tx_wait' \in BeaconGap .. BeaconGap + Slack /\ tx_on' = tx_on
        /\ rx_at = "listen" /\ rx_at' = "blink" /\ rx_wait' \in Blip .. Blip + Slack
        /\ UNCHANGED <<blink_ms, usb_ready, bursts>> /\ last_seq' = seq
        /\ missed' = [missed EXCEPT !.since = 0]
    BY DEF Heard, BeaconSent, PacketEnds, Late
  <1>2. seq' = (IF seq + 1 = SeqWrap THEN 0 ELSE seq + 1) /\ seq \in 0 .. SeqWrap - 1
    BY NextNumber DEF IInv, Numbered, Heard, BeaconSent
  <1>3. missed' \in [since : Nat, ever : Nat] /\ missed'.since = 0 /\ missed'.ever = missed.ever
    BY <1>1 DEF IInv, Losses
  <1>4. Places'
    BY <1>1, Numbers DEF IInv, Places
  <1>5. ~(Work' >= tx_wait')
    BY <1>1, Numbers DEF Work
  <1>6. Losses'
    <2>1. missed.ever \in Nat /\ missed.ever <= bursts
      BY DEF IInv, Losses
    <2>2. QED
      BY <1>1, <1>3, <1>5, <2>1 DEF IInv, Losses
  <1>7. Numbered'
    <2>1. seq' \in 0 .. SeqWrap - 1
      BY <1>2, Numbers
    <2>2. seq' - seq - 1 = 0 \/ seq' - seq - 1 = 0 - SeqWrap
      BY <1>2, Numbers
    <2>3. QED
      BY <1>1, <1>2, <1>3, <2>1, <2>2 DEF Numbered
  <1>8. QED
    BY <1>4, <1>6, <1>7 DEF IInv

\* A beacon finds the receiver deaf, and there was a burst to blame; or off.
LEMMA UnheardKeeps ==
    ASSUME IInv, Unheard
    PROVE  IInv'
  <1>1. /\ tx_on /\ tx_wait = 0
        /\ tx_wait' \in BeaconGap .. BeaconGap + Slack /\ tx_on' = tx_on
        /\ rx_at # "listen" /\ UNCHANGED <<rx_at, rx_wait, blink_ms, usb_ready, bursts, last_seq>>
    BY DEF Unheard, BeaconSent, rxVars, Late
  <1>2. Places'
    BY <1>1, Numbers DEF IInv, Places
  <1>3. Work' = Work /\ (Deaf' <=> Deaf) /\ Work \in Nat /\ (Deaf => Work < BeaconGap)
    BY <1>1, WorkBound DEF IInv, Work, Deaf
  <1>4. ~(Deaf' /\ Work' >= tx_wait')
    BY <1>1, <1>3, Numbers
  <1>5. CASE rx_at = "off"
    <2>1. missed' = missed
      BY <1>5 DEF Unheard
    <2>2. Losses'
      BY <1>1, <1>4, <2>1 DEF IInv, Losses
    <2>3. seq' \in 0 .. SeqWrap - 1
      BY NextNumber, Numbers DEF IInv, Numbered, Unheard, BeaconSent
    <2>4. Numbered'
      BY <1>1, <1>5, <2>1, <2>3 DEF IInv, Numbered
    <2>5. QED
      BY <1>2, <2>2, <2>4 DEF IInv
  <1>6. CASE rx_at # "off"
    <2>1. missed' = [since |-> missed.since + 1, ever |-> missed.ever + 1]
      BY <1>6 DEF Unheard
    <2>2. missed.ever < bursts /\ missed.since \in Nat /\ missed.ever \in Nat
          /\ missed.since <= missed.ever /\ bursts \in Nat
      BY <1>1, <1>3, <1>6, Numbers DEF IInv, Losses, Places, Deaf
    <2>3. missed' \in [since : Nat, ever : Nat] /\ missed'.since = missed.since + 1
          /\ missed'.ever = missed.ever + 1
      BY <2>1, <2>2
    <2>4. Losses'
      BY <1>1, <1>4, <2>2, <2>3 DEF IInv, Losses
    <2>5. Numbered'
      BY <1>1, <2>3, MissedNumber DEF IInv, Unheard
    <2>6. QED
      BY <1>2, <2>4, <2>5 DEF IInv
  <1>7. QED
    BY <1>5, <1>6

\* Noise ends the waiting of the receiver.
LEMMA NoiseBusy ==
    ASSUME IInv, rx_at = "listen", PacketEnds(FALSE), UNCHANGED tx_on,
           tx_wait' \in 0 .. BeaconGap + Slack
    PROVE  /\ Places' /\ Deaf'
           /\ Work' \in Nat /\ Work' < BeaconGap /\ rx_at' # "off"
  <1>1. ToIdleWork
    BY DEF PacketEnds
  <1>2. /\ Deaf' /\ Work' <= (Blip + Slack) + (LoopPause + Slack) /\ Work' \in Nat
        /\ rx_at' \in {"heartbeat", "pause"} /\ rx_wait' \in Nat
        /\ rx_at' = "heartbeat" => rx_wait' <= Blip + Slack
        /\ rx_at' = "pause" => rx_wait' <= LoopPause + Slack /\ blink_ms < HeartbeatAt
        /\ blink_ms' = blink_ms /\ usb_ready' = usb_ready
    BY <1>1, IdleWork DEF IInv
  <1>3. Places'
    BY <1>2 DEF IInv, Places
  <1>4. QED
    BY <1>2, <1>3, Numbers

\* A beacon under noise is missed, and charged to the burst that ends with it.
LEMMA SpoiltKeeps ==
    ASSUME IInv, Spoilt
    PROVE  IInv'
  <1>1. /\ tx_wait' \in BeaconGap .. BeaconGap + Slack /\ UNCHANGED <<tx_on, last_seq>>
        /\ rx_at = "listen" /\ PacketEnds(FALSE) /\ bursts < MaxBursts /\ bursts' = bursts + 1
        /\ missed' = [since |-> missed.since + 1, ever |-> missed.ever + 1]
    BY DEF Spoilt, BeaconSent, Late
  <1>2. Places' /\ Work' \in Nat /\ Work' < BeaconGap /\ rx_at' # "off"
    <2>1. tx_wait' \in 0 .. BeaconGap + Slack
      BY <1>1, Numbers
    <2>2. QED
      BY <1>1, <2>1, NoiseBusy
  <1>3. missed.since \in Nat /\ missed.ever \in Nat /\ missed.since <= missed.ever
        /\ missed.ever <= bursts /\ bursts \in Nat
    BY Numbers DEF IInv, Losses
  <1>4. missed' \in [since : Nat, ever : Nat] /\ missed'.since = missed.since + 1
        /\ missed'.ever = missed.ever + 1
    BY <1>1, <1>3
  <1>5. Losses'
    <2>1. ~(Work' >= tx_wait')
      BY <1>1, <1>2, Numbers
    <2>2. bursts' \in 0 .. MaxBursts
      BY <1>1, <1>3, Numbers
    <2>3. missed'.since <= missed'.ever /\ missed'.ever <= bursts'
      BY <1>1, <1>3, <1>4
    <2>4. QED
      BY <1>4, <2>1, <2>2, <2>3 DEF Losses
  <1>6. Numbered'
    BY <1>1, <1>2, <1>4, MissedNumber DEF IInv, Spoilt
  <1>7. QED
    BY <1>2, <1>5, <1>6 DEF IInv

\* Noise between beacons ends a reception and costs no beacon by itself.
LEMMA BurstKeeps ==
    ASSUME IInv, Burst
    PROVE  IInv'
  <1>1. /\ UNCHANGED <<tx_on, tx_wait, seq, last_seq, missed>>
        /\ rx_at = "listen" /\ PacketEnds(FALSE) /\ bursts < MaxBursts /\ bursts' = bursts + 1
    BY DEF Burst, txVars
  <1>2. Places' /\ rx_at' # "off"
    BY <1>1, NoiseBusy DEF IInv, Places
  <1>3. Losses'
    <2>1. missed.ever \in Nat /\ missed.ever <= bursts /\ bursts \in 0 .. MaxBursts
      BY DEF IInv, Losses
    <2>2. bursts' \in 0 .. MaxBursts /\ missed.ever < bursts' /\ missed.ever <= bursts'
      BY <1>1, <2>1, Numbers
    <2>3. QED
      BY <1>1, <2>2 DEF IInv, Losses
  <1>4. Numbered'
    BY <1>1, <1>2 DEF IInv, Numbered
  <1>5. QED
    BY <1>2, <1>3, <1>4 DEF IInv

\* A step of the receiver's own does not add to its work.
LEMMA RxStepKeeps ==
    ASSUME IInv, RxStep \/ ReceiverOn
    PROVE  IInv'
  <1>1. UNCHANGED <<tx_on, tx_wait, seq, bursts, last_seq, missed>>
    BY DEF RxStep, Blinked, Beaten, Paused, ReceiverOn, txVars
  <1>2. tx_wait \in Nat /\ rx_wait \in Nat /\ blink_ms \in 0 .. HeartbeatAt
    BY Numbers DEF IInv, Places
  <1>3. Places' /\ rx_at' # "off" /\ (Deaf' => Deaf /\ Work' <= Work)
    <2>1. CASE Blinked
      <3>1. rx_at = "blink" /\ rx_wait = 0 /\ ToIdleWork
        BY <2>1 DEF Blinked
      <3>2. /\ Deaf' /\ Work' <= (Blip + Slack) + (LoopPause + Slack) /\ Work' \in Nat
            /\ rx_at' \in {"heartbeat", "pause"} /\ rx_wait' \in Nat
            /\ rx_at' = "heartbeat" => rx_wait' <= Blip + Slack
            /\ rx_at' = "pause" => rx_wait' <= LoopPause + Slack /\ blink_ms < HeartbeatAt
            /\ blink_ms' = blink_ms /\ usb_ready' = usb_ready
        BY <3>1, IdleWork DEF IInv
      <3>3. Deaf /\ Work = (Blip + Slack) + (LoopPause + Slack)
        BY <3>1, Numbers DEF Deaf, Work
      <3>4. Places'
        BY <1>1, <3>2 DEF IInv, Places
      <3>5. QED
        BY <3>2, <3>3, <3>4
    <2>2. CASE Beaten
      <3>1. /\ rx_at = "heartbeat" /\ rx_wait = 0 /\ rx_at' = "pause"
            /\ rx_wait' \in LoopPause .. LoopPause + Slack /\ blink_ms' = 0 /\ usb_ready' = usb_ready
        BY <2>2 DEF Beaten, Late
      <3>2. Places'
        BY <1>1, <3>1, Numbers DEF IInv, Places
      <3>3. Deaf /\ Work' <= Work
        BY <3>1, Numbers DEF Deaf, Work
      <3>4. QED
        BY <3>1, <3>2, <3>3
    <2>3. CASE Paused
      <3>1. /\ rx_at = "pause" /\ rx_wait = 0 /\ rx_at' = "listen" /\ rx_wait' = rx_wait
            /\ blink_ms' = blink_ms + 1 /\ usb_ready' \in BOOLEAN
        BY <2>3 DEF Paused, Counted
      <3>2. Places'
        BY <1>1, <1>2, <3>1, Numbers DEF IInv, Places
      <3>3. QED
        BY <3>1, <3>2 DEF Deaf
    <2>4. CASE ReceiverOn
      <3>1. rx_at = "off" /\ rx_at' = "listen" /\ UNCHANGED <<rx_wait, blink_ms, usb_ready>>
        BY <2>4 DEF ReceiverOn
      <3>2. Places'
        BY <1>1, <3>1 DEF IInv, Places
      <3>3. QED
        BY <3>1, <3>2 DEF Deaf
    <2>5. QED
      BY <2>1, <2>2, <2>3, <2>4 DEF RxStep
  <1>4. Losses'
    <2>1. Work \in Nat /\ Work' \in Nat
      BY <1>3, Numbers DEF IInv, Places, Work
    <2>2. Deaf' /\ Work' >= tx_wait => Deaf /\ Work >= tx_wait
      BY <1>2, <1>3, <2>1
    <2>3. QED
      BY <1>1, <2>2 DEF IInv, Losses
  <1>5. Numbered'
    BY <1>1, <1>3 DEF IInv, Numbered
  <1>6. QED
    BY <1>3, <1>4, <1>5 DEF IInv

\* Time is spent by both alike, or by the receiver alone.
LEMMA TickKeeps ==
    ASSUME IInv, Tick
    PROVE  IInv'
  <1>1. /\ UNCHANGED <<tx_on, seq, rx_at, blink_ms, usb_ready, bursts, last_seq, missed>>
        /\ tx_on => tx_wait > 0
        /\ Deaf => rx_wait > 0
        /\ tx_wait' = IF tx_on THEN tx_wait - 1 ELSE tx_wait
        /\ rx_wait' = IF rx_wait > 0 THEN rx_wait - 1 ELSE rx_wait
    BY DEF Tick, Deaf
  <1>2. tx_wait \in 0 .. BeaconGap + Slack /\ rx_wait \in Nat
    BY DEF IInv, Places
  <1>3. Places'
    BY <1>1, <1>2, Numbers DEF IInv, Places
  <1>4. Deaf' => Deaf /\ Work' = Work - 1
    BY <1>1, <1>2, Numbers DEF Deaf, Work
  <1>5. Losses'
    <2>1. Work \in Nat
      BY WorkBound DEF IInv
    <2>2. Deaf' /\ Work' >= tx_wait' => Deaf /\ Work >= tx_wait
      BY <1>1, <1>2, <1>4, <2>1, Numbers
    <2>3. QED
      BY <1>1, <2>2 DEF IInv, Losses
  <1>6. Numbered'
    BY <1>1 DEF IInv, Numbered
  <1>7. QED
    BY <1>3, <1>5, <1>6 DEF IInv

\* The invariant holds whatever the phase of the two loops, and whatever the noise.
THEOREM RadioLinkInvariant == Spec => []IInv
  <1>1. Init => IInv
    <2> SUFFICES ASSUME Init PROVE IInv
      OBVIOUS
    <2>1. Places
      <3>1. 0 \in 0 .. BeaconGap + Slack /\ 0 \in Nat /\ 0 \in 0 .. HeartbeatAt
        BY Numbers
      <3>2. tx_on \in BOOLEAN /\ usb_ready \in BOOLEAN
        BY DEF Init
      <3>3. tx_wait = 0 /\ rx_at = "off" /\ rx_wait = 0 /\ blink_ms = 0
        BY DEF Init
      <3>4. QED
        BY <3>1, <3>2, <3>3 DEF Places
    <2>2. Losses /\ Numbered
      BY Numbers DEF Init, Losses, Numbered, Deaf, NoSeq
    <2>3. QED
      BY <2>1, <2>2 DEF IInv
  <1>2. IInv /\ [Next]_vars => IInv'
    <2> SUFFICES ASSUME IInv, [Next]_vars PROVE IInv'
      OBVIOUS
    <2>1. CASE TransmitterOn \/ UNCHANGED vars
      <3>1. tx_on' \in BOOLEAN /\ UNCHANGED <<tx_wait, seq, rx_at, rx_wait, blink_ms, usb_ready,
                                             bursts, last_seq, missed>>
        BY <2>1 DEF TransmitterOn, rxVars, vars, IInv, Places
      <3>2. Places' /\ Losses' /\ Numbered'
        BY <3>1 DEF IInv, Places, Losses, Numbered, Deaf, Work
      <3>3. QED
        BY <3>2 DEF IInv
    <2>2. CASE Beacon
      BY <2>2, HeardKeeps, UnheardKeeps, SpoiltKeeps DEF Beacon
    <2>3. CASE Burst
      BY <2>3, BurstKeeps
    <2>4. CASE RxStep \/ ReceiverOn
      BY <2>4, RxStepKeeps
    <2>5. CASE Tick
      BY <2>5, TickKeeps
    <2>6. QED
      BY <2>1, <2>2, <2>3, <2>4, <2>5 DEF Next
  <1>3. QED
    BY <1>1, <1>2, PTL DEF Spec

-----------------------------------------------------------------------------
(* What follows.                                                           *)

\* Every state has its types: the count never runs past the heartbeat.
THEOREM RadioLinkTypeOK == Spec => []TypeOK
  <1>1. IInv => TypeOK
    <2> SUFFICES ASSUME IInv PROVE TypeOK
      OBVIOUS
    <2>1. rx_wait \in 0 .. Blip + LoopPause + Slack
      BY Numbers DEF IInv, Places
    <2>2. missed.since \in 0 .. MaxBursts /\ missed.ever \in 0 .. MaxBursts
      BY Numbers DEF IInv, Losses
    <2>3. QED
      BY <2>1, <2>2 DEF IInv, Places, Losses, Numbered, TypeOK
  <1>2. QED
    BY <1>1, RadioLinkInvariant, PTL

\* However the two loops drift, the receiver misses a beacon only for a burst of noise,
\* and one for each at most.
THEOREM OneLossForEachBurst == Spec => []OneLossPerBurst
  <1>1. IInv => OneLossPerBurst
    BY DEF IInv, Losses, OneLossPerBurst
  <1>2. QED
    BY <1>1, RadioLinkInvariant, PTL

\* The rolling number counts the losses right across its wrap, for every width.
THEOREM SeqAlwaysTells == Spec => []SeqTellsLosses
  <1>1. IInv => SeqTellsLosses
    <2> SUFFICES ASSUME IInv, last_seq # NoSeq
                 PROVE  (seq - last_seq - 1) % SeqWrap = missed.since
      BY DEF SeqTellsLosses
    <2>1. missed.since \in 0 .. SeqWrap - 1
      BY Numbers DEF IInv, Losses
    <2>2. \A m \in Nat \ {0} : \A x \in 0 .. m - 1 : x % m = x /\ (x - m) % m = x
      OBVIOUS
    <2>3. missed.since % SeqWrap = missed.since /\ (missed.since - SeqWrap) % SeqWrap = missed.since
      BY <2>1, <2>2, Numbers
    <2>4. seq - last_seq - 1 = missed.since \/ seq - last_seq - 1 = missed.since - SeqWrap
      BY DEF IInv, Numbered
    <2>5. QED
      BY <2>3, <2>4
  <1>2. QED
    BY <1>1, RadioLinkInvariant, PTL

-----------------------------------------------------------------------------
(* The images, for every number of profiles, any environments and any      *)
(* files: what the scripts read, and what cargo lets them forget.          *)

\* A set of numbers with a greatest possible one has a greatest one, and Max is it.
LEMMA MaxIsGreatest ==
    ASSUME NEW n \in Nat, NEW S \in SUBSET (1 .. n), S # {}
    PROVE  Max(S) \in S
  <1> DEFINE R == OpToRel(<, Nat)
             T == {n - x : x \in S}
  <1>1. IsWellFoundedOn(R, Nat)
    BY NatLessThanWellFounded
  <1>2. \A x, y \in Nat : x < y => <<x, y>> \in R
    BY DEF OpToRel
  <1>3. T \in SUBSET Nat /\ T # {}
    <2>1. \A x \in 1 .. n : n - x \in Nat
      OBVIOUS
    <2>2. QED
      BY <2>1
  <1> HIDE DEF R
  <1>4. PICK t \in T : \A u \in T : ~(<<u, t>> \in R)
    <2> HIDE DEF T
    <2>1. QED
      BY <1>1, <1>3, WFMin
  <1>5. PICK x \in S : t = n - x
    BY <1>4
  <1>6. ASSUME NEW y \in S
        PROVE  x >= y
    <2>1. n - y \in T /\ n - y \in Nat /\ t \in Nat /\ x \in 1 .. n /\ y \in 1 .. n
      BY <1>5
    <2>2. ~(n - y < t)
      BY <1>2, <1>4, <2>1
    <2>3. QED
      BY <1>5, <2>1, <2>2
  <1>7. QED
    BY <1>6 DEF Max

\* So has any set of numbers a least one.
LEMMA MinIsLeast ==
    ASSUME NEW S \in SUBSET Nat, S # {}
    PROVE  Min(S) \in S
  <1> DEFINE R == OpToRel(<, Nat)
  <1>1. IsWellFoundedOn(R, Nat)
    BY NatLessThanWellFounded
  <1>2. \A x, y \in Nat : x < y => <<x, y>> \in R
    BY DEF OpToRel
  <1> HIDE DEF R
  <1>3. PICK x \in S : \A y \in S : ~(<<y, x>> \in R)
    BY <1>1, WFMin
  <1>4. ASSUME NEW y \in S
        PROVE  x <= y
    <2>1. x \in Nat /\ y \in Nat /\ ~(y < x)
      BY <1>2, <1>3
    <2>2. QED
      BY <2>1
  <1>5. QED
    BY <1>4 DEF Min

\* The value that counts stands in one of the lines.
LEMMA ValueIsStated ==
    ASSUME NEW file \in Seq(Line), NEW key, LineValue(file, key) # None
    PROVE  LineValue(file, key) \in Nat /\ States(file, key, LineValue(file, key))
  <1> DEFINE lines == {i \in 1 .. Len(file) : file[i].key = key}
             last  == SelectLastInSeq(file, LAMBDA line : line.key = key)
  <1>1. last = IF lines # {} THEN Max(lines) ELSE 0
    BY DEF SelectLastInSeq
  <1>2. Len(file) \in Nat /\ lines \in SUBSET (1 .. Len(file)) /\ 0 \notin lines
    OBVIOUS
  <1>3. LineValue(file, key) = IF last = 0 THEN None ELSE ParseHexU32(file[last].val)
    BY DEF LineValue
  <1>4. last \in lines
    <2> HIDE DEF lines, last
    <2>1. QED
      BY <1>1, <1>2, <1>3, MaxIsGreatest
  <1>5. last \in 1 .. Len(file) /\ file[last].key = key /\ last # 0
    BY <1>2, <1>4
  <1> HIDE DEF last, lines
  <1>6. file[last] \in Line /\ last \in DOMAIN file
    BY <1>5
  <1>7. PICK name \in Key \union {None}, number \in Nat \union {Junk} :
           file[last] = [key |-> name, val |-> number]
    BY <1>6 DEF Line
  <1>8. name = key /\ file[last].val = number
    BY <1>5, <1>7
  <1>9. number # Junk /\ LineValue(file, key) = number
    BY <1>3, <1>5, <1>8 DEF ParseHexU32
  <1>10. number \in Nat /\ file[last] = [key |-> key, val |-> LineValue(file, key)]
    BY <1>7, <1>8, <1>9
  <1>11. QED
    BY <1>6, <1>9, <1>10 DEF States

\* What the environment and the disk may be.
BuildWorld ==
    /\ script \in Scripts /\ env \in Environments
    /\ disk \in [Paths -> Files \union {None}]

\* A variable that is not a number is not heard of again.
LEMMA VarRead ==
    ASSUME BuildWorld, NEW name \in {"APP_BASE", "FLASH_SIZE", "RAM_BASE", "RAM_SIZE"}
    PROVE  /\ Var(name) = None <=> env.vars[name] \in {None, Junk}
           /\ Var(name) # None => Var(name) = env.vars[name] /\ Var(name) \in Nat
  <1>1. env.vars[name] \in Nat \union {None, Junk}
    BY BuildAssumption DEF BuildWorld, Environment, Number
  <1>2. QED
    BY <1>1, BuildAssumption DEF Var, ParseHexU32

\* Both numbers of what is found in a file stand in that one file.
LEMMA FoundInOneFile ==
    ASSUME BuildWorld, FromInfo # None
    PROVE  /\ FromInfo \in [app : Nat, flash : Nat]
           /\ \E path \in Paths :
                 /\ disk[path] # None
                 /\ States(disk[path], "App start", FromInfo.app)
                 /\ States(disk[path], "Flash size", FromInfo.flash)
  <1> DEFINE Usable(path) == disk[path] # None /\ ReadInfoFile(disk[path]) # None
             paths  == CandidateInfoPaths
             found  == {i \in 1 .. Len(paths) : Usable(paths[i])}
             first  == SelectInSeq(paths, LAMBDA path :
                          disk[path] # None /\ ReadInfoFile(disk[path]) # None)
  <1>1. paths \in Seq(Paths)
    <2>1. env.info_path \in Paths \union {None} /\ MountPaths \in Seq(Paths)
      BY BuildAssumption DEF BuildWorld, Environment
    <2>2. (IF env.info_path # None THEN <<env.info_path>> ELSE <<>>) \in Seq(Paths)
      BY <2>1
    <2>3. QED
      BY <2>1, <2>2 DEF CandidateInfoPaths
  <1>2. first = IF found # {} THEN Min(found) ELSE 0
    BY DEF SelectInSeq
  <1>3. FromInfo = IF first = 0 THEN None ELSE ReadInfoFile(disk[paths[first]])
    BY DEF FromInfo
  <1>4. first \in 1 .. Len(paths) /\ Usable(paths[first]) /\ first # 0
    <2>1. found \in SUBSET Nat /\ 0 \notin found
      OBVIOUS
    <2>2. first \in found
      <3> HIDE DEF found, first
      <3>1. QED
        BY <1>2, <1>3, <2>1, MinIsLeast
    <2>3. QED
      BY <2>1, <2>2
  <1> HIDE DEF found, first, paths
  <1>5. paths[first] \in Paths
    BY <1>1, <1>4
  <1> DEFINE path == paths[first]
             file == disk[path]
  <1>6. file # None /\ ReadInfoFile(file) # None /\ FromInfo = ReadInfoFile(file)
    BY <1>3, <1>4
  <1>7. file \in Seq(Line)
    BY <1>5, <1>6, BuildAssumption DEF BuildWorld
  <1>8. path \in Paths
    BY <1>5
  <1> HIDE DEF path
  <1>9. /\ LineValue(file, "App start") # None /\ LineValue(file, "Flash size") # None
        /\ FromInfo = [app |-> LineValue(file, "App start"), flash |-> LineValue(file, "Flash size")]
    BY <1>6 DEF ReadInfoFile
  <1>10. /\ LineValue(file, "App start") \in Nat /\ LineValue(file, "Flash size") \in Nat
         /\ States(file, "App start", LineValue(file, "App start"))
         /\ States(file, "Flash size", LineValue(file, "Flash size"))
    <2> HIDE DEF file
    <2>1. QED
      BY <1>7, <1>9, ValueIsStated
  <1>11. FromInfo.app = LineValue(file, "App start") /\ FromInfo.flash = LineValue(file, "Flash size")
    BY <1>9
  <1>12. QED
    BY <1>6, <1>8, <1>9, <1>10, <1>11

\* A script that does not give up writes a layout that says what it was told.
LEMMA WrittenAsTold ==
    ASSUME BuildWorld, ~ Refuses
    PROVE  MemoryX(Found) \in Linkable /\ AsTold(MemoryX(Found), env.vars, disk)
  <1> DEFINE base == env.vars["APP_BASE"]
             size == env.vars["FLASH_SIZE"]
             Ends == \/ Found.app = base /\ Found.flash = size
                     \/ /\ {base, size} \subseteq {None, Junk}
                        /\ \E path \in Paths :
                              /\ disk[path] # None
                              /\ States(disk[path], "App start", Found.app)
                              /\ States(disk[path], "Flash size", Found.flash)
  <1>1. /\ Var("APP_BASE") = None <=> base \in {None, Junk}
        /\ Var("APP_BASE") # None => Var("APP_BASE") = base /\ Var("APP_BASE") \in Nat
        /\ Var("FLASH_SIZE") = None <=> size \in {None, Junk}
        /\ Var("FLASH_SIZE") # None => Var("FLASH_SIZE") = size /\ Var("FLASH_SIZE") \in Nat
    BY VarRead
  <1>2. Found # None /\ ~ NoRoom(Found)
    BY DEF Refuses
  <1>3. Found \in [app : Nat, flash : Nat] /\ Ends
    <2>1. CASE Var("APP_BASE") # None /\ Var("FLASH_SIZE") # None
      <3>1. Found = [app |-> Var("APP_BASE"), flash |-> Var("FLASH_SIZE")]
        BY <2>1 DEF Found
      <3>2. QED
        BY <1>1, <2>1, <3>1
    <2>2. CASE ~(Var("APP_BASE") # None /\ Var("FLASH_SIZE") # None)
      <3>1. Var("APP_BASE") = None /\ Var("FLASH_SIZE") = None /\ Found = FromInfo
        BY <1>2, <2>2 DEF Found
      <3>2. {base, size} \subseteq {None, Junk}
        BY <1>1, <3>1
      <3>3. QED
        BY <1>2, <3>1, <3>2, FoundInOneFile
    <2>3. QED
      BY <2>1, <2>2
  <1>4. PICK a, f \in Nat : Found = [app |-> a, flash |-> f]
    BY <1>3
  <1>5. Found.app = a /\ Found.flash = f /\ a < f
    BY <1>2, <1>4 DEF NoRoom
  <1> DEFINE rbase == Or(Var("RAM_BASE"), DefaultRamBase)
             rsize == Or(Var("RAM_SIZE"), DefaultRamSize)
  <1>6. /\ rbase \in Nat /\ rsize \in Nat
        /\ rbase = IF env.vars["RAM_BASE"] \in {None, Junk}
                   THEN DefaultRamBase ELSE env.vars["RAM_BASE"]
        /\ rsize = IF env.vars["RAM_SIZE"] \in {None, Junk}
                   THEN DefaultRamSize ELSE env.vars["RAM_SIZE"]
    <2>1. /\ Var("RAM_BASE") = None <=> env.vars["RAM_BASE"] \in {None, Junk}
          /\ Var("RAM_BASE") # None =>
                Var("RAM_BASE") = env.vars["RAM_BASE"] /\ Var("RAM_BASE") \in Nat
          /\ Var("RAM_SIZE") = None <=> env.vars["RAM_SIZE"] \in {None, Junk}
          /\ Var("RAM_SIZE") # None =>
                Var("RAM_SIZE") = env.vars["RAM_SIZE"] /\ Var("RAM_SIZE") \in Nat
      BY VarRead
    <2>2. QED
      BY <2>1, BuildAssumption DEF Or
  <1> DEFINE layout == MemoryX(Found)
  <1>7. /\ layout = [flash |-> [origin |-> a, length |-> f - a],
                     ram |-> [origin |-> rbase, length |-> rsize]]
    BY <1>5 DEF MemoryX
  <1> HIDE DEF rbase, rsize, layout
  <1>8. f - a \in Nat /\ f - a > 0 /\ a + (f - a) = f
    BY <1>5
  <1>9. layout \in Linkable
    BY <1>6, <1>7, <1>8 DEF Linkable, Layout, Region
  <1>10. /\ layout.flash.origin = Found.app /\ layout.flash.origin + layout.flash.length = Found.flash
         /\ layout.ram.origin = rbase /\ layout.ram.length = rsize
    BY <1>5, <1>7, <1>8
  <1>11. AsTold(layout, env.vars, disk)
    BY <1>3, <1>6, <1>10 DEF AsTold
  <1>12. QED
    BY <1>9, <1>11 DEF layout

\* What is remembered of each profile: the memory.x of the last run of its script
\* says what the script named, and what the script had read.
Remembered ==
    /\ stamp \in [Profiles -> {None} \union Environment]
    /\ out \in [Profiles -> {None} \union Linkable]
    /\ image \in [Profiles -> {None} \union Linkable]
    /\ built \in [Profiles -> {None} \union Environment]
    /\ DOMAIN read = Profiles
    /\ root \in {None} \union Linkable
    /\ \A profile \in Profiles :
          stamp[profile] # None =>
             out[profile] # None /\ AsTold(out[profile], stamp[profile].vars, read[profile])
    /\ \A profile \in Profiles : image[profile] = None <=> built[profile] = None

BuildInv == BuildWorld /\ Remembered /\ LinkedAsTold

\* None is no layout and no environment.
LEMMA NoneApart ==
    None \notin Linkable /\ None \notin Environment /\ Environments \subseteq Environment
  BY BuildAssumption DEF Linkable

\* A variable of the environment is named as it is, whatever the script.
LEMMA NamedVars ==
    ASSUME BuildWorld
    PROVE  Named \in Environment /\ Named.vars = env.vars
  <1>1. /\ env.vars \in [{"APP_BASE", "FLASH_SIZE", "RAM_BASE", "RAM_SIZE"} -> Number]
        /\ env.info_path \in Paths \union {None}
    BY NoneApart DEF BuildWorld, Environment
  <1>2. QED
    BY <1>1 DEF Named, Environment

\* A script that has run leaves a layout, and an image, that say what it was told.
LEMMA RunsKeeps ==
    ASSUME BuildInv, NEW p \in Profiles, BuildRuns(p)
    PROVE  BuildInv'
  <1> DEFINE written == MemoryX(Found)
             named   == Named
  <1>1. written \in Linkable /\ AsTold(written, env.vars, disk)
    BY WrittenAsTold DEF BuildInv, BuildRuns
  <1>2. named \in Environment /\ named.vars = env.vars /\ env \in Environment
    BY NamedVars, NoneApart DEF BuildInv, BuildWorld
  <1>3. /\ out' = [out EXCEPT ![p] = written] /\ root' = written
        /\ stamp' = [stamp EXCEPT ![p] = named] /\ image' = [image EXCEPT ![p] = written]
        /\ built' = [built EXCEPT ![p] = env] /\ read' = [read EXCEPT ![p] = disk]
        /\ UNCHANGED <<script, env, disk>>
    BY DEF BuildRuns
  <1> HIDE DEF written, named
  <1>4. BuildWorld'
    BY <1>3 DEF BuildInv, BuildWorld
  <1>5. /\ stamp' \in [Profiles -> {None} \union Environment]
        /\ out' \in [Profiles -> {None} \union Linkable]
        /\ image' \in [Profiles -> {None} \union Linkable]
        /\ built' \in [Profiles -> {None} \union Environment]
        /\ DOMAIN read' = Profiles /\ root' \in {None} \union Linkable
    BY <1>1, <1>2, <1>3 DEF BuildInv, Remembered
  <1>6. ASSUME NEW q \in Profiles, q # p
        PROVE  /\ out'[q] = out[q] /\ stamp'[q] = stamp[q] /\ image'[q] = image[q]
               /\ built'[q] = built[q] /\ read'[q] = read[q]
    BY <1>3, <1>6 DEF BuildInv, Remembered
  <1>7. /\ out'[p] = written /\ stamp'[p] = named /\ image'[p] = written
        /\ built'[p] = env /\ read'[p] = disk
    BY <1>3 DEF BuildInv, Remembered
  <1>8. /\ out'[p] # None /\ image'[p] # None /\ built'[p] # None
        /\ AsTold(out'[p], stamp'[p].vars, read'[p])
        /\ AsTold(image'[p], built'[p].vars, read'[p])
    BY <1>1, <1>2, <1>7, NoneApart
  <1>9. Remembered'
    <2>1. ASSUME NEW q \in Profiles
          PROVE  /\ stamp'[q] # None =>
                       out'[q] # None /\ AsTold(out'[q], stamp'[q].vars, read'[q])
                 /\ image'[q] = None <=> built'[q] = None
      <3>1. CASE q = p
        BY <1>8, <3>1
      <3>2. CASE q # p
        BY <1>6, <3>2 DEF BuildInv, Remembered
      <3>3. QED
        BY <3>1, <3>2
    <2>2. QED
      BY <1>5, <2>1 DEF Remembered
  <1>10. LinkedAsTold'
    <2>1. ASSUME NEW q \in Profiles, image'[q] # None
          PROVE  AsTold(image'[q], built'[q].vars, read'[q])
      <3>1. CASE q = p
        BY <1>8, <3>1
      <3>2. CASE q # p
        BY <1>6, <2>1, <3>2 DEF BuildInv, LinkedAsTold
      <3>3. QED
        BY <3>1, <3>2
    <2>2. QED
      BY <2>1 DEF LinkedAsTold
  <1>11. QED
    BY <1>4, <1>9, <1>10 DEF BuildInv

\* What is linked again was written for the very variables of this build.
LEMMA SkipsKeeps ==
    ASSUME BuildInv, NEW p \in Profiles, BuildSkips(p)
    PROVE  BuildInv'
  <1>1. /\ image' = [image EXCEPT ![p] = out[p]] /\ built' = [built EXCEPT ![p] = env]
        /\ UNCHANGED <<script, env, disk, stamp, out, root, read>>
        /\ stamp[p] = Named
    BY DEF BuildSkips, Fresh
  <1>2. stamp[p] \in Environment /\ stamp[p].vars = env.vars /\ env \in Environment
    BY <1>1, NamedVars, NoneApart DEF BuildInv, BuildWorld
  <1>3. /\ stamp[p] # None /\ out[p] # None /\ out[p] \in Linkable
        /\ AsTold(out[p], env.vars, read[p])
    BY <1>2, NoneApart DEF BuildInv, Remembered
  <1>4. BuildWorld'
    BY <1>1 DEF BuildInv, BuildWorld
  <1>5. image' \in [Profiles -> {None} \union Linkable]
        /\ built' \in [Profiles -> {None} \union Environment]
    BY <1>1, <1>2, <1>3 DEF BuildInv, Remembered
  <1>6. image'[p] = out[p] /\ built'[p] = env
    BY <1>1 DEF BuildInv, Remembered
  <1>7. ASSUME NEW q \in Profiles, q # p
        PROVE  image'[q] = image[q] /\ built'[q] = built[q]
    BY <1>1, <1>7 DEF BuildInv, Remembered
  <1>8. image'[p] # None /\ built'[p] # None
    BY <1>2, <1>3, <1>6, NoneApart
  <1>9. Remembered'
    <2>1. ASSUME NEW q \in Profiles
          PROVE  image'[q] = None <=> built'[q] = None
      BY <1>7, <1>8 DEF BuildInv, Remembered
    <2>2. \A q \in Profiles : stamp[q] # None =>
             out[q] # None /\ AsTold(out[q], stamp[q].vars, read[q])
      BY DEF BuildInv, Remembered
    <2>3. \A q \in Profiles : stamp'[q] # None =>
             out'[q] # None /\ AsTold(out'[q], stamp'[q].vars, read'[q])
      BY <1>1, <2>2
    <2>4. /\ stamp' \in [Profiles -> {None} \union Environment]
          /\ out' \in [Profiles -> {None} \union Linkable]
          /\ DOMAIN read' = Profiles /\ root' \in {None} \union Linkable
      BY <1>1 DEF BuildInv, Remembered
    <2>5. QED
      BY <1>5, <2>1, <2>3, <2>4 DEF Remembered
  <1>10. LinkedAsTold'
    <2>1. ASSUME NEW q \in Profiles, image'[q] # None
          PROVE  AsTold(image'[q], built'[q].vars, read'[q])
      <3>1. CASE q = p
        BY <1>1, <1>3, <1>6, <3>1
      <3>2. CASE q # p
        BY <1>1, <1>7, <2>1, <3>2 DEF BuildInv, LinkedAsTold
      <3>3. QED
        BY <3>1, <3>2
    <2>2. QED
      BY <2>1 DEF LinkedAsTold
  <1>11. QED
    BY <1>4, <1>9, <1>10 DEF BuildInv

\* Nothing that happens between two builds changes what was linked.
LEMMA BetweenBuildsKeeps ==
    ASSUME BuildInv, Export \/ Mount \/ (\E p \in Profiles : BuildFails(p)) \/ UNCHANGED buildVars
    PROVE  BuildInv'
  <1>1. UNCHANGED <<out, root, image, built, read>>
    BY DEF Export, Mount, BuildFails, buildVars
  <1>2. BuildWorld'
    <2>1. script' = script
      BY DEF Export, Mount, BuildFails, buildVars
    <2>2. env' \in Environments
      BY DEF Export, Mount, BuildFails, buildVars, BuildInv, BuildWorld
    <2>3. disk' \in [Paths -> Files \union {None}]
      <3>1. CASE Mount
        BY <3>1 DEF Mount, BuildInv, BuildWorld
      <3>2. CASE ~ Mount
        BY <3>2 DEF Export, BuildFails, buildVars, BuildInv, BuildWorld
      <3>3. QED
        BY <3>1, <3>2
    <2>4. QED
      BY <2>1, <2>2, <2>3 DEF BuildInv, BuildWorld
  <1>3. /\ stamp' \in [Profiles -> {None} \union Environment]
        /\ \A q \in Profiles : stamp'[q] # None => stamp'[q] = stamp[q]
    <2>1. CASE \E p \in Profiles : BuildFails(p)
      <3>1. PICK p \in Profiles : stamp' = [stamp EXCEPT ![p] = None]
        BY <2>1 DEF BuildFails
      <3>2. QED
        BY <3>1 DEF BuildInv, Remembered
    <2>2. CASE ~(\E p \in Profiles : BuildFails(p))
      <3>1. stamp' = stamp
        BY <2>2 DEF Export, Mount, buildVars
      <3>2. QED
        BY <3>1 DEF BuildInv, Remembered
    <2>3. QED
      BY <2>1, <2>2
  <1>4. ASSUME NEW q \in Profiles, stamp'[q] # None
        PROVE  out[q] # None /\ AsTold(out[q], stamp'[q].vars, read[q])
    BY <1>3, <1>4 DEF BuildInv, Remembered
  <1>5. Remembered'
    <2>1. \A q \in Profiles : stamp'[q] # None =>
             out'[q] # None /\ AsTold(out'[q], stamp'[q].vars, read'[q])
      BY <1>1, <1>4
    <2>2. \A q \in Profiles : image'[q] = None <=> built'[q] = None
      BY <1>1 DEF BuildInv, Remembered
    <2>3. /\ out' \in [Profiles -> {None} \union Linkable]
          /\ image' \in [Profiles -> {None} \union Linkable]
          /\ built' \in [Profiles -> {None} \union Environment]
          /\ DOMAIN read' = Profiles /\ root' \in {None} \union Linkable
      BY <1>1 DEF BuildInv, Remembered
    <2>4. QED
      BY <1>3, <2>1, <2>2, <2>3 DEF Remembered
  <1>6. LinkedAsTold'
    BY <1>1 DEF BuildInv, LinkedAsTold
  <1>7. QED
    BY <1>2, <1>5, <1>6 DEF BuildInv

\* The invariant holds whatever is exported, mounted and built, and in which order.
THEOREM BuildInvariant == BuildSpec => []BuildInv
  <1>1. BuildInit => BuildInv
    BY DEF BuildInit, BuildInv, BuildWorld, Remembered, LinkedAsTold
  <1>2. BuildInv /\ [BuildNext]_buildVars => BuildInv'
    BY RunsKeeps, SkipsKeeps, BetweenBuildsKeeps DEF BuildNext
  <1>3. QED
    BY <1>1, <1>2, PTL DEF BuildSpec

\* No script writes a layout, and no image is linked with one, that has no room for a
\* program; and what a script has named, it has written a layout for.
THEOREM BuildTypeCorrect == BuildSpec => []BuildTypeOK
  <1>1. BuildInv => BuildTypeOK
    BY DEF BuildInv, BuildWorld, Remembered, BuildTypeOK
  <1>2. QED
    BY <1>1, BuildInvariant, PTL

\* Whatever order the user exports, mounts and builds in: every image lies where its
\* environment says, or one file that was mounted when the script ran.
THEOREM AlwaysLinkedAsTold == BuildSpec => []LinkedAsTold
  <1>1. BuildInv => LinkedAsTold
    BY DEF BuildInv
  <1>2. QED
    BY <1>1, BuildInvariant, PTL
=============================================================================
