------------------------- MODULE MCSessionLifecycle -------------------------
(***************************************************************************)
(* An instance of SessionLifecycle for TLC.  A counter of three bits whose *)
(* threshold is 5 stands for the u32 and 2^31: small enough to exhaust a   *)
(* session, and with counters beyond the threshold.                        *)
(***************************************************************************)
EXTENDS SessionLifecycle, TLC

\* Salts are only compared.
MCSymmetry == Permutations(Salts)
=============================================================================
