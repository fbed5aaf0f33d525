------------------------------ MODULE RfChannel ------------------------------
(***************************************************************************)
(* A MockRf under every sequence of calls its users may make: push, pop    *)
(* and advance, in any order.  Frames are numbered in the order they are   *)
(* pushed.                                                                 *)
(***************************************************************************)
EXTENDS MockRf

CONSTANTS
    Configs,     \* the configurations a user may ask for
    Steps,       \* the amounts a user advances the clock by
    MaxFrames    \* bound: frames pushed

ASSUME ChannelAssumption ==
    /\ Configs \subseteq Config
    /\ Steps \subseteq Nat
    /\ MaxFrames \in Nat

VARIABLES
    rf,          \* the MockRf
    panicked,    \* a push has overflowed in a build with overflow checks
    sentAt,      \* history: for every frame pushed, the time of the push
    lost,        \* history: the frames dropped
    received     \* history: the frames popped, in order

vars == <<rf, panicked, sentAt, lost, received>>

Init ==
    /\ \E config \in Configs : rf = New(config)
    /\ panicked = FALSE
    /\ sentAt = <<>> /\ lost = {} /\ received = <<>>

PushFrame ==
    /\ ~ panicked
    /\ Len(sentAt) < MaxFrames
    /\ ~ PushPanics(rf)
    /\ rf' = Push(rf, Len(sentAt) + 1)
    /\ sentAt' = Append(sentAt, rf.now_ms)
    /\ lost' = IF DropsNext(rf) THEN lost \union {Len(sentAt) + 1} ELSE lost
    /\ UNCHANGED <<panicked, received>>

PushOverflows ==
    /\ ~ panicked
    /\ Len(sentAt) < MaxFrames
    /\ PushPanics(rf)
    /\ panicked' = TRUE
    /\ UNCHANGED <<rf, sentAt, lost, received>>

AdvanceClock ==
    /\ ~ panicked
    /\ \E delta \in Steps : rf' = Advance(rf, delta)
    /\ UNCHANGED <<panicked, sentAt, lost, received>>

PopFrame ==
    /\ ~ panicked
    /\ Deliverable(rf) # {}
    /\ rf' = Pop(rf)
    /\ received' = Append(received, Popped(rf))
    /\ UNCHANGED <<panicked, sentAt, lost>>

Next == PushFrame \/ PushOverflows \/ AdvanceClock \/ PopFrame

Spec == Init /\ [][Next]_vars

-----------------------------------------------------------------------------
(* Properties.                                                             *)

Queued == {rf.queue[i].frame : i \in DOMAIN rf.queue}

TypeOK ==
    /\ rf.config \in Configs
    /\ rf.now_ms \in Time
    /\ rf.queue \in Seq([deliver_at : Time, frame : 1 .. MaxFrames])
    /\ rf.first_frame_seen = (sentAt # <<>>)
    /\ panicked \in BOOLEAN
    /\ sentAt \in Seq(Time) /\ Len(sentAt) <= MaxFrames
    /\ lost \subseteq DOMAIN sentAt
    /\ received \in Seq(DOMAIN sentAt)

\* The counters that stats returns account for every frame pushed: what is not
\* delivered or dropped is still queued, and what is queued is one entry each.
StatsAccount ==
    /\ rf.delivered = Len(received)
    /\ rf.dropped = Cardinality(lost)
    /\ rf.delivered + rf.dropped + Cardinality(Queued) = Len(sentAt)
    /\ Cardinality(Queued) = Len(rf.queue)

\* A radio that does not reorder delivers frames in the order of the pushes, and
\* one that does lets a frame overtake one older frame at most: when a frame is
\* delivered, a single older one can still be waiting.  (The frame that waits may
\* be overtaken again and again.)
OvertakesOne ==
    [][\A frame \in Queued \ Queued' :
          Cardinality({older \in Queued' : older < frame})
            <= IF rf.config.reorder THEN 1 ELSE 0]_vars

\* No frame is delivered before its jitter has passed since it was pushed.
JitterPasses ==
    [][\A frame \in Queued \ Queued' :
          rf.now_ms >= sentAt[frame] + rf.config.jitter_ms]_vars

\* The radio implements the lossy channel: pushes are sends, pops deliveries,
\* and the clock is not seen.
Channel == INSTANCE LossyChannel
             WITH Frame <- 1 .. MaxFrames, sends <- Len(sentAt), air <- Queued

ImplementsChannel == Channel!Spec
=============================================================================
