------------------------------ MODULE RadioLink ------------------------------
(***************************************************************************)
(* The two nice!nano firmwares and the air between them: radio-tx sends a  *)
(* beacon with a rolling number, blinks and pauses; radio-rx waits for a   *)
(* packet, blinks if it was good, and does its idle work, the heartbeat    *)
(* and the bringing up of USB, between one packet and the next.            *)
(*                                                                         *)
(* While the receiver does anything but wait, it is deaf.  A burst of      *)
(* noise may end its waiting, or spoil a beacon, and fails the CRC.  What  *)
(* the two programs print is left out.                                     *)
(***************************************************************************)
EXTENDS Integers

CONSTANTS
    Blip,          \* both LEDs are lit for 50 ms
    BeaconPause,   \* and the transmitter pauses for another 200 ms
    LoopPause,     \* the receiver's loop pauses for 1 ms
    Slack,         \* what a delay may exceed, for polling USB
    HeartbeatAt,   \* 1000
    UsbAfter,      \* 300
    SeqWrap,        \* the number of a beacon is a u8: 256
    MaxBursts      \* bound: bursts of noise

\* However late the receiver is, it waits again before the next beacon is sent.
ASSUME RadioLinkAssumption ==
    /\ Blip \in Nat \ {0} /\ BeaconPause \in Nat /\ LoopPause \in Nat \ {0}
    /\ Slack \in Nat
    /\ 2 * Blip + LoopPause + 3 * Slack < Blip + BeaconPause
    /\ UsbAfter \in Nat /\ HeartbeatAt \in Nat /\ UsbAfter < HeartbeatAt
    /\ MaxBursts \in Nat
    /\ SeqWrap \in Nat /\ MaxBursts + 1 < SeqWrap

VARIABLES
    tx_on,       \* the transmitter runs
    tx_wait,     \* the time until its next beacon
    seq,         \* the number of its next beacon
    rx_at,       \* where the receiver is: "off", "listen", "blink", "heartbeat" or "pause"
    rx_wait,     \* the time it stays there, unless it listens
    blink_ms,    \* its count of iterations since the last heartbeat
    usb_ready,   \* its USB is up
    bursts,      \* the bursts of noise so far
    last_seq,    \* history: the number of the last beacon heard, or NoSeq
    missed       \* history: the beacons sent since, and missed in all

vars == <<tx_on, tx_wait, seq, rx_at, rx_wait, blink_ms, usb_ready, bursts,
          last_seq, missed>>

txVars == <<tx_on, tx_wait, seq>>

rxVars == <<rx_at, rx_wait, blink_ms, usb_ready>>

NoSeq == -1

Late(delay) == delay .. delay + Slack

-----------------------------------------------------------------------------
(* The receiver.                                                           *)

\* Where the loop goes once a packet has been dealt with.
ToIdleWork ==
    /\ rx_at' = IF blink_ms >= HeartbeatAt THEN "heartbeat" ELSE "pause"
    /\ rx_wait' \in Late(IF blink_ms >= HeartbeatAt THEN Blip ELSE LoopPause)
    /\ UNCHANGED <<blink_ms, usb_ready>>

\* rx_packet returns.
PacketEnds(crc_ok) ==
    IF crc_ok
    THEN rx_at' = "blink" /\ rx_wait' \in Late(Blip) /\ UNCHANGED <<blink_ms, usb_ready>>
    ELSE ToIdleWork

ReceiverOn ==
    /\ rx_at = "off"
    /\ rx_at' = "listen"
    /\ UNCHANGED <<txVars, rx_wait, blink_ms, usb_ready, bursts, last_seq, missed>>

Blinked ==
    /\ rx_at = "blink" /\ rx_wait = 0
    /\ ToIdleWork
    /\ UNCHANGED <<txVars, bursts, last_seq, missed>>

\* Mutant of Beaten: the count is not reset.
BeatenOn ==
    /\ rx_at = "heartbeat" /\ rx_wait = 0
    /\ rx_at' = "pause" /\ rx_wait' \in Late(LoopPause)
    /\ UNCHANGED <<txVars, blink_ms, usb_ready, bursts, last_seq, missed>>

Beaten ==
    /\ rx_at = "heartbeat" /\ rx_wait = 0
    /\ rx_at' = "pause" /\ rx_wait' \in Late(LoopPause)
    /\ blink_ms' = 0
    /\ UNCHANGED <<txVars, usb_ready, bursts, last_seq, missed>>

\* Mutant of Counted: never counts past the point where USB comes up.
CountedToUsb == IF blink_ms < UsbAfter THEN blink_ms + 1 ELSE blink_ms

Counted == blink_ms + 1

\* The end of an iteration; usb_init always succeeds.
Paused ==
    /\ rx_at = "pause" /\ rx_wait = 0
    /\ rx_at' = "listen"
    /\ blink_ms' = Counted
    /\ usb_ready' = (usb_ready \/ Counted > UsbAfter)
    /\ UNCHANGED <<txVars, rx_wait, bursts, last_seq, missed>>

-----------------------------------------------------------------------------
(* The transmitter and the air.                                            *)

TransmitterOn ==
    /\ ~ tx_on
    /\ tx_on' = TRUE
    /\ UNCHANGED <<tx_wait, seq, rxVars, bursts, last_seq, missed>>

\* Mutant of BeaconGap: the pause is left out.
BeaconGapBlip == Blip

\* The time from one beacon to the next.
BeaconGap == Blip + BeaconPause

\* Mutant of NextSeq: a sum that saturates.
NextSeqSaturating == IF seq + 1 < SeqWrap THEN seq + 1 ELSE seq

NextSeq == (seq + 1) % SeqWrap

BeaconSent ==
    /\ tx_on /\ tx_wait = 0
    /\ seq' = NextSeq
    /\ tx_wait' \in Late(BeaconGap)
    /\ UNCHANGED tx_on

Heard ==
    /\ BeaconSent
    /\ rx_at = "listen"
    /\ PacketEnds(TRUE)
    /\ last_seq' = seq
    /\ missed' = [missed EXCEPT !.since = 0]
    /\ UNCHANGED bursts

\* The receiver is deaf, or off.
Unheard ==
    /\ BeaconSent
    /\ rx_at # "listen"
    /\ missed' = IF rx_at = "off" THEN missed
                 ELSE [since |-> missed.since + 1, ever |-> missed.ever + 1]
    /\ UNCHANGED <<rxVars, bursts, last_seq>>

Spoilt ==
    /\ bursts < MaxBursts
    /\ BeaconSent
    /\ rx_at = "listen"
    /\ PacketEnds(FALSE)
    /\ bursts' = bursts + 1
    /\ missed' = [since |-> missed.since + 1, ever |-> missed.ever + 1]
    /\ UNCHANGED last_seq

Burst ==
    /\ bursts < MaxBursts
    /\ rx_at = "listen"
    /\ PacketEnds(FALSE)
    /\ bursts' = bursts + 1
    /\ UNCHANGED <<txVars, last_seq, missed>>

\* Time passes for those who wait.
Tick ==
    /\ tx_on => tx_wait > 0
    /\ rx_at \in {"blink", "heartbeat", "pause"} => rx_wait > 0
    /\ tx_on \/ rx_wait > 0
    /\ tx_wait' = IF tx_on THEN tx_wait - 1 ELSE tx_wait
    /\ rx_wait' = IF rx_wait > 0 THEN rx_wait - 1 ELSE rx_wait
    /\ UNCHANGED <<tx_on, seq, rx_at, blink_ms, usb_ready, bursts, last_seq, missed>>

-----------------------------------------------------------------------------

Init ==
    /\ tx_on = FALSE /\ tx_wait = 0 /\ seq = 0
    /\ rx_at = "off" /\ rx_wait = 0 /\ blink_ms = 0 /\ usb_ready = FALSE
    /\ bursts = 0
    /\ last_seq = NoSeq /\ missed = [since |-> 0, ever |-> 0]

Beacon == Heard \/ Unheard \/ Spoilt

RxStep == Blinked \/ Beaten \/ Paused

Next == TransmitterOn \/ ReceiverOn \/ Beacon \/ Burst \/ RxStep \/ Tick

\* Both programs run on, and so does time; nobody has to switch them on.
Spec ==
    Init /\ [][Next]_vars /\ WF_vars(Beacon) /\ WF_vars(RxStep) /\ WF_vars(Tick)

-----------------------------------------------------------------------------
(* Properties.                                                             *)

TypeOK ==
    /\ tx_on \in BOOLEAN
    /\ tx_wait \in 0 .. BeaconGap + Slack
    /\ seq \in 0 .. SeqWrap - 1
    /\ rx_at \in {"off", "listen", "blink", "heartbeat", "pause"}
    /\ rx_wait \in 0 .. Blip + LoopPause + Slack
    /\ blink_ms \in 0 .. HeartbeatAt
    /\ usb_ready \in BOOLEAN
    /\ bursts \in 0 .. MaxBursts
    /\ last_seq \in {NoSeq} \union 0 .. SeqWrap - 1
    /\ missed.since \in 0 .. MaxBursts /\ missed.ever \in 0 .. MaxBursts

\* A burst of noise costs one beacon at most, and without noise none is missed:
\* the receiver's blinking, its heartbeat and its pause are over before the next
\* beacon, whatever the phase of the two loops.
OneLossPerBurst == missed.ever <= bursts

\* The numbers of the beacons tell how many were missed in between, across the
\* wrap of the u8: this is what the receiver prints them for.
SeqTellsLosses ==
    last_seq # NoSeq => (seq - last_seq - 1) % SeqWrap = missed.since

\* While beacons come, the heartbeat comes again and again, and finds USB up: the
\* count that both hang on goes past the one and is reset only by the other.
BeatsWithBeacons == tx_on /\ rx_at # "off" ~> rx_at = "heartbeat" /\ usb_ready

\* The heartbeat needs no packets ("idle blink each second so we know we are
\* alive even without packets", main.rs).
BeatsWithoutPackets == rx_at # "off" ~> rx_at = "heartbeat"
=============================================================================
