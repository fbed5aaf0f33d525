---------------------------- MODULE SessionKeys ----------------------------
(***************************************************************************)
(* The session keys of the protocol crate (proto/src/lib.rs, SessionKeys): *)
(* the salt of a session and the counter of its next packet.  These are    *)
(* operators on a value; the modules that hold a session in a variable     *)
(* apply them.  A salt stands for the pair (session_id, salt) given to     *)
(* SessionKeys::new: no operation changes either of them.                  *)
(***************************************************************************)
EXTENDS Integers

CONSTANTS
    Threshold,   \* COUNTER_REKEY_THRESHOLD, 2^31 in the code
    CounterMod   \* 2^w, for the width w of the counter (a u32: 2^32)

\* The threshold leaves at least one packet to a session, and lies inside the
\* counter's type.
ASSUME CounterAssumption ==
    /\ Threshold \in Nat /\ CounterMod \in Nat
    /\ 1 < Threshold /\ Threshold < CounterMod

Counter == 0 .. CounterMod - 1

HandshakeCounter == 0

FirstCounter == 1

New(salt) == [salt |-> salt, counter |-> FirstCounter]

Exhausted(keys) == keys.counter >= Threshold

\* What next_counter leaves behind when it does not return an error: the
\* counter it returns is the one it found.
Incremented(keys) == [keys EXCEPT !.counter = (keys.counter + 1) % CounterMod]

Reset(keys) == [keys EXCEPT !.counter = FirstCounter]

\* Mutants of Resumed: no clamp; the persisted counter is ignored; one too far;
\* one too near.
ResumedUnclamped(keys, next) == [keys EXCEPT !.counter = next]

ResumedNever(keys, next) == keys

ResumedPast(keys, next) == [keys EXCEPT !.counter = next + 1]

ResumedBefore(keys, next) ==
    [keys EXCEPT !.counter = IF next <= FirstCounter THEN FirstCounter ELSE next - 1]

Resumed(keys, next) ==
    [keys EXCEPT !.counter = IF next < FirstCounter THEN FirstCounter ELSE next]

\* The bytes salt || counter: equal exactly for equal salts and counters.
DeriveNonce(salt, counter) == <<salt, counter>>

NonceFor(keys, counter) == DeriveNonce(keys.salt, counter)
=============================================================================
