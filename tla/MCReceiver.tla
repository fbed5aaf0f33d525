------------------------------ MODULE MCReceiver ------------------------------
(***************************************************************************)
(* An instance of Receiver for TLC: a payload of every type, two that are  *)
(* as long as a payload may be and one byte longer, and the tag as it is,  *)
(* shorter, and left out.                                                  *)
(***************************************************************************)
EXTENDS Receiver

MCBodies ==
    {[kind |-> "Handshake", type |-> "HandshakeAccept", size |-> 0],
     [kind |-> "Control", type |-> "Control", size |-> MaxPayload - 1],
     [kind |-> "Control", type |-> "Control", size |-> MaxPayload],
     [kind |-> "KeyReport", type |-> "KeyReport", size |-> 1],
     [kind |-> "Ack", type |-> "Ack", size |-> 0],
     [kind |-> "KeepAlive", type |-> "KeepAlive", size |-> 0]}

MCSuites ==
    {[cipher |-> "real", mac_len |-> 16],
     [cipher |-> "real", mac_len |-> 8],
     [cipher |-> "dummy", mac_len |-> 8],
     [cipher |-> "dummy", mac_len |-> 0]}
=============================================================================
