----------------------------- MODULE MCExchange -----------------------------
(***************************************************************************)
(* Instances of Exchange for TLC: the three loops of the tests, and all    *)
(* the loops that differ from them in the radio and in the pace.           *)
(***************************************************************************)
EXTENDS Exchange

Loop(drop_first, reorder, jitter_ms) ==
    [radio |-> [drop_first |-> drop_first, reorder |-> reorder, jitter_ms |-> jitter_ms],
     resume |-> 1, first_step |-> 0, step |-> 0,
     keepalive |-> FALSE, mute_first |-> FALSE, ack_breaks |-> TRUE]

\* mock_rf.rs, mock_rf_with_drop_and_reorder_delivers_ack_after_retransmit
DropAndReorder ==
    [Loop(TRUE, TRUE, 2) EXCEPT !.first_step = 2, !.step = 2, !.keepalive = TRUE]

\* mock_rf.rs, mock_rf_drop_ack_stops_after_retry
DropAck ==
    [Loop(FALSE, FALSE, 0) EXCEPT !.mute_first = TRUE, !.ack_breaks = FALSE]

\* warm_wake_rf.rs
WarmWakeRf ==
    [Loop(TRUE, TRUE, 1) EXCEPT !.resume = 10, !.step = 1]

MCTestFlows == {DropAndReorder, DropAck, WarmWakeRf}

\* Every radio with up to 3 ms of jitter, at every pace of up to 2 ms a step.
MCAllFlows ==
    {loop \in [radio : [drop_first : BOOLEAN, reorder : BOOLEAN, jitter_ms : 0 .. 3],
                resume : {1, 10}, first_step : 0 .. 2, step : 0 .. 2,
                keepalive : BOOLEAN, mute_first : BOOLEAN, ack_breaks : BOOLEAN] :
        loop.first_step <= loop.step}

ASSUME TestFlowsChecked == MCTestFlows \subseteq MCAllFlows
=============================================================================
