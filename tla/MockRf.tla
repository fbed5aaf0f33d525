------------------------------- MODULE MockRf -------------------------------
(***************************************************************************)
(* The mock radio of the protocol crate (proto/src/sim.rs, MockRf): one    *)
(* queue of frames that drops the first frame, swaps neighbours and delays *)
(* what it carries.  These are operators on a value rf, a record of the    *)
(* immutable configuration and of the runtime state; the modules that hold *)
(* a radio in a variable apply them.                                       *)
(***************************************************************************)
EXTENDS Integers, SequencesExt

CONSTANTS
    TimeMax,         \* the last time of the clock, 2^64 - 1 ms in the code
    OverflowChecks   \* whether the build panics on overflow (dev) or wraps (release)

ASSUME RfAssumption == TimeMax \in Nat /\ OverflowChecks \in BOOLEAN

Time == 0 .. TimeMax

Config == [drop_first : BOOLEAN, reorder : BOOLEAN, jitter_ms : Time]

New(config) ==
    [config |-> config, now_ms |-> 0, queue |-> <<>>,
     delivered |-> 0, dropped |-> 0, first_frame_seen |-> FALSE]

\* Mutant of Advance: a plain sum.
AdvancePast(rf, delta) == [rf EXCEPT !.now_ms = @ + delta]

\* The clock saturates.
Advance(rf, delta) ==
    [rf EXCEPT !.now_ms = IF @ + delta > TimeMax THEN TimeMax ELSE @ + delta]

DropsNext(rf) == rf.config.drop_first /\ ~ rf.first_frame_seen

\* Mutant of DeliverAt: no jitter.
DeliverAtOnce(rf) == rf.now_ms

\* The time of delivery is a plain sum: it wraps, or the push panics.
DeliverAt(rf) == (rf.now_ms + rf.config.jitter_ms) % (TimeMax + 1)

PushPanics(rf) ==
    OverflowChecks /\ ~ DropsNext(rf) /\ rf.now_ms + rf.config.jitter_ms > TimeMax

\* Mutant of Enqueued: the newcomer swaps with the oldest entry.
EnqueuedFirst(rf, frame) ==
    LET entry == [deliver_at |-> DeliverAt(rf), frame |-> frame]
    IN  IF rf.config.reorder THEN <<entry>> \o rf.queue ELSE Append(rf.queue, entry)

Enqueued(rf, frame) ==
    LET entry == [deliver_at |-> DeliverAt(rf), frame |-> frame]
    IN  IF rf.config.reorder /\ rf.queue # <<>>
        THEN Append(Front(rf.queue), entry) \o <<Last(rf.queue)>>
        ELSE Append(rf.queue, entry)

\* Mutant of Push: the dropped frame is queued all the same.
PushDropless(rf, frame) ==
    [rf EXCEPT !.first_frame_seen = TRUE,
               !.dropped = IF DropsNext(rf) THEN @ + 1 ELSE @,
               !.queue = Enqueued(rf, frame)]

Push(rf, frame) ==
    IF DropsNext(rf)
    THEN [rf EXCEPT !.first_frame_seen = TRUE, !.dropped = @ + 1]
    ELSE [rf EXCEPT !.first_frame_seen = TRUE, !.queue = Enqueued(rf, frame)]

Deliverable(rf) == {i \in DOMAIN rf.queue : rf.queue[i].deliver_at <= rf.now_ms}

\* pop returns None when nothing is deliverable, and otherwise the frame of the
\* first entry that is.
Popped(rf) == rf.queue[Min(Deliverable(rf))].frame

\* Mutant of Pop: the frame stays in the queue.
PopCopy(rf) == [rf EXCEPT !.delivered = @ + 1]

Pop(rf) ==
    [rf EXCEPT !.delivered = @ + 1,
               !.queue = RemoveAt(@, Min(Deliverable(rf)))]
=============================================================================
