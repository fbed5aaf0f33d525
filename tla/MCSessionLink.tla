----------------------------- MODULE MCSessionLink -----------------------------
(***************************************************************************)
(* An instance of SessionLink for TLC.  A counter of five values whose     *)
(* threshold is 4 stands for the u32 and 2^31: small enough to exhaust a   *)
(* session, with a counter beyond the threshold to resume from.            *)
(***************************************************************************)
EXTENDS SessionLink, TLC

\* Salts are only compared.
MCSymmetry == Permutations(Salts)
=============================================================================
