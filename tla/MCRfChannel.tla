----------------------------- MODULE MCRfChannel -----------------------------
(***************************************************************************)
(* Instances of RfChannel for TLC: every configuration of a radio whose    *)
(* clock ends soon after the frames of a run, so that the end is reached.  *)
(***************************************************************************)
EXTENDS RfChannel

MCConfigs == Config
=============================================================================
