-------------------------- MODULE SessionLifecycle --------------------------
(***************************************************************************)
(* The life of the sessions of one keyboard: handshakes, packets, sleep    *)
(* with the session persisted, warm wakes that skip the handshake, reboots *)
(* that lose the session in memory.  The operations on the keys are those  *)
(* of SessionKeys; who calls them, and when, is read off the callers in    *)
(* the repository: sample_packets (handshake, then packets), the warm wake *)
(* of host-sim, of the firmware skeleton and of the tests, and the test of *)
(* counter exhaustion.  What the model watches is the nonces.              *)
(***************************************************************************)
EXTENDS SessionKeys

CONSTANTS
    Salts,        \* the salts that handshakes draw from
    Callers       \* the kinds of callers: see below

\* "careful" callers never reset the counter of a live session and resume from
\* the counter that was persisted.  "resetting" ones reset it once the session is
\* exhausted, as the test of counter exhaustion does.  "free" ones reset it when
\* they like and resume from any counter, as host-sim's --resume-counter may.
ASSUME LifecycleAssumption == Callers \subseteq {"careful", "resetting", "free"}

VARIABLES
    caller,     \* the kind of caller in this run
    power,      \* "off", "awake" or "asleep"
    keys,       \* the SessionKeys in memory (meaningful when awake)
    cache,      \* the persisted session: salt and next counter (when asleep)
    issued,     \* history: every nonce handed out to seal a packet
    reissued,   \* history: the nonce handed out last, if that was not its first time
    spent       \* history: the salts whose session reported CounterExhausted

vars == <<caller, power, keys, cache, issued, reissued, spent>>

Session == [salt : Salts, counter : Counter]

Nonce == Salts \X Counter

Issue(nonce) ==
    /\ issued' = issued \union {nonce}
    /\ reissued' = IF nonce \in issued THEN {nonce} ELSE {}

UsedSalts == {nonce[1] : nonce \in issued}

-----------------------------------------------------------------------------

Init ==
    /\ caller \in Callers
    /\ power = "off"
    /\ \E salt \in Salts : keys = New(salt) /\ cache = New(salt)
    /\ issued = {} /\ reissued = {} /\ spent = {}

\* Mutant of Handshake: the new session may take a salt that was used before.
HandshakeAnySalt ==
    /\ power \in {"off", "awake"}
    /\ \E salt \in Salts :
        /\ keys' = New(salt)
        /\ Issue(NonceFor(New(salt), HandshakeCounter))
    /\ power' = "awake"
    /\ UNCHANGED <<caller, cache, spent>>

\* A cold start, a re-pairing or a rekey: new keys under a salt that no session
\* had, and a handshake packet under the nonce of counter 0.
Handshake ==
    /\ power \in {"off", "awake"}
    /\ \E salt \in Salts \ UsedSalts :
        /\ keys' = New(salt)
        /\ Issue(NonceFor(New(salt), HandshakeCounter))
    /\ power' = "awake"
    /\ UNCHANGED <<caller, cache, spent>>

NextCounter ==
    /\ power = "awake"
    /\ ~ Exhausted(keys)
    /\ Issue(NonceFor(keys, keys.counter))
    /\ keys' = Incremented(keys)
    /\ UNCHANGED <<caller, power, cache, spent>>

CounterExhausted ==
    /\ power = "awake"
    /\ Exhausted(keys)
    /\ spent' = spent \union {keys.salt}
    /\ UNCHANGED <<caller, power, keys, cache, issued, reissued>>

ResetCounter ==
    /\ power = "awake"
    /\ \/ caller = "free"
       \/ caller = "resetting" /\ keys.salt \in spent
    /\ keys' = Reset(keys)
    /\ UNCHANGED <<caller, power, cache, issued, reissued, spent>>

\* Mutant of Sleep: the session goes to flash without its next counter.
SleepForgets ==
    /\ power = "awake"
    /\ power' = "asleep"
    /\ cache' = New(keys.salt)
    /\ UNCHANGED <<caller, keys, issued, reissued, spent>>

\* The session goes to flash, with its next counter, before memory is lost.
Sleep ==
    /\ power = "awake"
    /\ power' = "asleep"
    /\ cache' = keys
    /\ UNCHANGED <<caller, keys, issued, reissued, spent>>

ResumesFrom == IF caller = "free" THEN Counter ELSE {cache.counter}

\* No handshake: fresh SessionKeys under the cached salt, resumed from the
\* persisted counter or from one that the caller gives.
WarmWake ==
    /\ power = "asleep"
    /\ \E next \in ResumesFrom : keys' = Resumed(New(cache.salt), next)
    /\ power' = "awake"
    /\ UNCHANGED <<caller, cache, issued, reissued, spent>>

\* Power is lost: what was in memory is gone, and the session with it.
Reboot ==
    /\ power \in {"awake", "asleep"}
    /\ power' = "off"
    /\ UNCHANGED <<caller, keys, cache, issued, reissued, spent>>

Next ==
    \/ Handshake
    \/ NextCounter
    \/ CounterExhausted
    \/ ResetCounter
    \/ Sleep
    \/ WarmWake
    \/ Reboot

Spec == Init /\ [][Next]_vars

\* The callers that keep to the rules: no reset_counter on a live session, and
\* warm wakes from the counter that was persisted.
RulesKept == caller = "careful"

-----------------------------------------------------------------------------
(* Properties.                                                             *)

TypeOK ==
    /\ caller \in Callers
    /\ power \in {"off", "awake", "asleep"}
    /\ keys \in Session
    /\ cache \in Session
    /\ issued \subseteq Nonce
    /\ reissued \subseteq issued
    /\ spent \subseteq Salts

\* The nonce that a step hands out, for the first time or again.
JustIssued == (issued' \ issued) \union (reissued' \ reissued)

\* No two packets are ever sealed under the same nonce, over packets,
\* handshakes, sleeps, wakes and reboots: what the counter, its threshold and
\* the rekey they demand are for (lib.rs, next_counter).  Holds of the callers
\* that keep to the rules.
NonceUsedOnce == RulesKept => reissued = {}

\* The same of the callers of the test that is named
\* counter_exhaustion_prevents_nonce_reuse: they reset the exhausted session.
ExhaustionPreventsReuse == reissued = {}

\* The counters of a session strictly increase: a packet never takes a counter
\* at or below one that the same salt has used, whatever sleeps came between.
CountersIncrease ==
    [][RulesKept => \A new \in JustIssued, old \in issued :
          new[1] = old[1] => new[2] > old[2]]_vars

\* A session that has reported CounterExhausted seals nothing more, even after
\* it was persisted and resumed: only a new salt goes on.
SpentForGood ==
    [][RulesKept => \A new \in JustIssued : new[1] \notin spent]_vars

\* The session a keyboard would go on with: the one in memory, or in flash.
Current == IF power = "asleep" THEN cache ELSE keys

\* Why a nonce is used once: the counter that a keyboard goes on with is ahead
\* of every counter its salt has used, in memory as in flash, and stays at the
\* threshold once that was reported.
AheadOfIssued ==
    /\ spent \subseteq UsedSalts
    /\ power # "off" => Current.salt \in UsedSalts
    /\ RulesKept /\ power # "off" =>
        /\ \A nonce \in issued :
              nonce[1] = Current.salt => nonce[2] < Current.counter
        /\ Current.salt \in spent => Exhausted(Current)

\* Whatever counter a caller resumes from, and however often it resets: no
\* packet after the handshake takes the handshake's nonce, no counter at the
\* threshold or beyond is used, and the next counter has not wrapped around.
PacketCountersInRange ==
    [][\A new \in JustIssued :
          /\ new[2] = HandshakeCounter => new[1] \notin UsedSalts
          /\ new[2] # HandshakeCounter =>
                /\ new[2] < Threshold
                /\ keys'.counter > new[2]]_vars
=============================================================================
