----------------------------- MODULE LossyChannel -----------------------------
(***************************************************************************)
(* What a radio channel promises the protocol above it: every frame sent   *)
(* is in the air, was lost or was delivered, one of the three and only     *)
(* once.  It may lose the first frame and no other; it may deliver what is *)
(* in the air in any order.                                                *)
(***************************************************************************)
EXTENDS Naturals, Sequences

CONSTANT Frame   \* frames, in the order they are sent: an initial part of 1, 2, ...

VARIABLES
    sends,      \* the number of frames sent
    air,        \* the frames in the air
    lost,       \* the frames lost
    received    \* the frames delivered, in order

channelVars == <<sends, air, lost, received>>

Init ==
    sends = 0 /\ air = {} /\ lost = {} /\ received = <<>>

Send ==
    /\ sends + 1 \in Frame
    /\ sends' = sends + 1
    /\ \/ air' = air \union {sends'} /\ lost' = lost
       \/ sends = 0 /\ lost' = {sends'} /\ air' = air
    /\ UNCHANGED received

Deliver ==
    /\ \E frame \in air :
          air' = air \ {frame} /\ received' = Append(received, frame)
    /\ UNCHANGED <<sends, lost>>

Next == Send \/ Deliver

Spec == Init /\ [][Next]_channelVars
=============================================================================
