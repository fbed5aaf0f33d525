---------------------------- MODULE SessionProofs ----------------------------
(***************************************************************************)
(* Proofs about the session: about SessionLifecycle, for every threshold,  *)
(* width of the counter and set of salts; and about SessionLink, whose     *)
(* keyboard is that of SessionLifecycle, so that all that is proved of the *)
(* one holds of the other.                                                 *)
(***************************************************************************)
EXTENDS SessionLink, FiniteSetTheorems, TLAPS

-----------------------------------------------------------------------------
(* SessionLifecycle: the keyboard.                                         *)

\* A counter below the threshold is incremented without wrapping around.
LEMMA IncrementExact ==
    ASSUME NEW k \in Session, ~ Exhausted(k)
    PROVE  Incremented(k) = [salt |-> k.salt, counter |-> k.counter + 1]
  <1>1. k.counter + 1 \in 0 .. CounterMod - 1
    BY CounterAssumption DEF Session, Counter, Exhausted
  <1>2. (k.counter + 1) % CounterMod = k.counter + 1
    BY <1>1, CounterAssumption
  <1> QED
    BY <1>2 DEF Incremented, Session

\* What the operations of the keys return is again a session.
LEMMA SessionClosed ==
    /\ \A salt \in Salts : New(salt) \in Session
    /\ \A k \in Session : Reset(k) \in Session
    /\ \A k \in Session, next \in Counter : Resumed(k, next) \in Session
    /\ \A k \in Session : Incremented(k) \in Session
  <1>1. FirstCounter \in Counter
    BY CounterAssumption DEF FirstCounter, Counter
  <1>2. \A k \in Session : (k.counter + 1) % CounterMod \in Counter
    BY CounterAssumption DEF Session, Counter
  <1>3. \A k \in Session : Incremented(k) \in Session
    BY <1>2 DEF Session, Incremented
  <1> QED
    BY <1>1, <1>3 DEF Session, New, Reset, Resumed

\* Every variable keeps its type: the typing part of the invariants of
\* SessionLifecycle, for whatever the callers do.
THEOREM TypeCorrect == Spec => []TypeOK
  <1>1. Init => TypeOK
    BY SessionClosed DEF Init, TypeOK
  <1>2. TypeOK /\ [Next]_vars => TypeOK'
    <2> SUFFICES ASSUME TypeOK, [Next]_vars PROVE TypeOK'
      OBVIOUS
    <2> USE DEF TypeOK
    <2>1. CASE Handshake
      <3>1. PICK salt \in Salts \ UsedSalts :
              /\ keys' = New(salt)
              /\ Issue(NonceFor(New(salt), HandshakeCounter))
        BY <2>1 DEF Handshake
      <3>2. NonceFor(New(salt), HandshakeCounter) \in Nonce
        BY CounterAssumption
        DEF NonceFor, DeriveNonce, New, Nonce, Counter, HandshakeCounter
      <3> QED
        BY <2>1, <3>1, <3>2, SessionClosed DEF Handshake, Issue
    <2>2. CASE NextCounter
      <3>1. NonceFor(keys, keys.counter) \in Nonce
        BY DEF NonceFor, DeriveNonce, Nonce, Session
      <3> QED
        BY <2>2, <3>1, SessionClosed DEF NextCounter, Issue
    <2>3. CASE CounterExhausted
      BY <2>3 DEF CounterExhausted, Session
    <2>4. CASE ResetCounter
      BY <2>4, SessionClosed DEF ResetCounter
    <2>5. CASE Sleep
      BY <2>5 DEF Sleep
    <2>6. CASE WarmWake
      <3>1. PICK next \in ResumesFrom : keys' = Resumed(New(cache.salt), next)
        BY <2>6 DEF WarmWake
      <3>2. next \in Counter /\ cache.salt \in Salts
        BY DEF ResumesFrom, Session
      <3> QED
        BY <2>6, <3>1, <3>2, SessionClosed DEF WarmWake
    <2>7. CASE Reboot
      BY <2>7 DEF Reboot
    <2>8. CASE UNCHANGED vars
      BY <2>8 DEF vars
    <2> QED
      BY <2>1, <2>2, <2>3, <2>4, <2>5, <2>6, <2>7, <2>8 DEF Next
  <1> QED
    BY <1>1, <1>2, PTL DEF Spec

-----------------------------------------------------------------------------
(* The counter that a keyboard goes on with.                               *)

Ahead == TypeOK /\ AheadOfIssued

\* A salt is used once one of its nonces is issued, and stays so.
LEMMA UsedGrows ==
    ASSUME NEW salt, NEW counter, issued' = issued \union {<<salt, counter>>}
    PROVE  UsedSalts \subseteq UsedSalts' /\ salt \in UsedSalts'
  <1>1. <<salt, counter>>[1] = salt /\ <<salt, counter>> \in issued'
    OBVIOUS
  <1> QED
    BY <1>1, Zenon DEF UsedSalts

\* The caller of a run stays the same.
LEMMA CallerStays ==
    ASSUME [Next]_vars
    PROVE  caller' = caller /\ (RulesKept' <=> RulesKept)
  BY DEF Next, vars, RulesKept, Handshake, NextCounter, CounterExhausted, ResetCounter,
         Sleep, WarmWake, Reboot

\* The keyboard goes on with a counter ahead of all those that its salt has used.
LEMMA AheadInductive ==
    ASSUME Ahead, [Next]_vars
    PROVE  AheadOfIssued'
  <1> USE DEF Ahead, AheadOfIssued
  <1> USE CallerStays
  <1>1. CASE Handshake
    <2>1. PICK salt \in Salts \ UsedSalts :
            /\ keys' = New(salt)
            /\ Issue(NonceFor(New(salt), HandshakeCounter))
      BY <1>1 DEF Handshake
    <2>2. issued' = issued \union {<<salt, 0>>}
      BY <2>1 DEF Issue, NonceFor, DeriveNonce, New, HandshakeCounter
    <2>3. UsedSalts \subseteq UsedSalts' /\ salt \in UsedSalts'
      BY <2>2, UsedGrows
    <2>4. Current' = New(salt) /\ spent' = spent
      BY <1>1, <2>1 DEF Handshake, Current
    <2>5. Current'.salt = salt /\ Current'.counter = 1
      BY <2>4 DEF New, FirstCounter
    <2>6. \A nonce \in issued : nonce[1] # salt
      BY <2>1 DEF UsedSalts
    <2>7. \A nonce \in issued' :
            nonce[1] = Current'.salt => nonce[2] < Current'.counter
      BY <2>2, <2>5, <2>6
    <2>8. salt \notin spent
      BY <2>1
    <2> QED
      BY <2>3, <2>4, <2>5, <2>7, <2>8
  <1>2. CASE NextCounter
    <2>1. keys \in Session /\ Current = keys
      BY <1>2 DEF TypeOK, NextCounter, Current
    <2>2. keys' = [salt |-> keys.salt, counter |-> keys.counter + 1]
      BY <1>2, <2>1, IncrementExact DEF NextCounter
    <2>3. Current' = keys' /\ spent' = spent /\ power' = "awake"
      BY <1>2 DEF NextCounter, Current
    <2>4. issued' = issued \union {<<keys.salt, keys.counter>>}
      BY <1>2 DEF NextCounter, Issue, NonceFor, DeriveNonce
    <2>5. UsedSalts \subseteq UsedSalts' /\ keys.salt \in UsedSalts'
      BY <2>4, UsedGrows
    <2>6. RulesKept => \A nonce \in issued :
            nonce[1] = keys.salt => nonce[2] < keys.counter
      BY <1>2, <2>1 DEF NextCounter
    <2>7. keys.counter \in Int /\ \A nonce \in issued : nonce[2] \in Int
      BY <2>1 DEF TypeOK, Session, Counter, Nonce
    <2>8. RulesKept => \A nonce \in issued' :
            nonce[1] = keys.salt => nonce[2] < keys.counter + 1
      BY <2>4, <2>6, <2>7
    <2>9. RulesKept => keys.salt \notin spent
      BY <1>2, <2>1 DEF NextCounter
    <2> QED
      BY <2>2, <2>3, <2>5, <2>8, <2>9
  <1>3. CASE CounterExhausted
    <2>1. Current' = keys /\ Current = keys /\ UsedSalts' = UsedSalts
      BY <1>3 DEF CounterExhausted, Current, UsedSalts
    <2> QED
      BY <1>3, <2>1 DEF CounterExhausted, Exhausted
  <1>4. CASE ResetCounter
    <2>1. Current' = Reset(keys) /\ Current = keys /\ UsedSalts' = UsedSalts
      BY <1>4 DEF ResetCounter, Current, UsedSalts
    <2>2. Current'.salt = keys.salt
      BY <1>4, <2>1 DEF Reset, TypeOK, Session
    <2>3. ~ RulesKept
      BY <1>4 DEF ResetCounter, RulesKept
    <2> QED
      BY <1>4, <2>1, <2>2, <2>3 DEF ResetCounter
  <1>5. CASE Sleep
    <2>1. Current' = keys /\ Current = keys /\ UsedSalts' = UsedSalts
      BY <1>5 DEF Sleep, Current, UsedSalts
    <2> QED
      BY <1>5, <2>1 DEF Sleep, Exhausted
  <1>6. CASE WarmWake
    <2>1. PICK next \in ResumesFrom : keys' = Resumed(New(cache.salt), next)
      BY <1>6 DEF WarmWake
    <2>2. cache \in Session /\ Current = cache /\ Current' = keys'
      BY <1>6 DEF WarmWake, TypeOK, Current
    <2>3. keys'.salt = cache.salt
      BY <2>1 DEF Resumed, New
    <2>4. RulesKept =>
            /\ keys'.counter \in Int /\ cache.counter \in Int
            /\ cache.counter <= keys'.counter
      BY <2>1, <2>2, CounterAssumption
      DEF RulesKept, ResumesFrom, Resumed, New, Session, Counter, FirstCounter
    <2>5. \A nonce \in issued : nonce[2] \in Int
      BY DEF TypeOK, Nonce, Counter
    <2>6. issued' = issued /\ spent' = spent /\ UsedSalts' = UsedSalts
      BY <1>6 DEF WarmWake, UsedSalts
    <2>7. RulesKept => \A nonce \in issued :
            nonce[1] = cache.salt => nonce[2] < keys'.counter
      BY <1>6, <2>2, <2>4, <2>5 DEF WarmWake
    <2>8. RulesKept /\ cache.salt \in spent => Exhausted(keys')
      BY <1>6, <2>2, <2>4, CounterAssumption DEF WarmWake, Exhausted
    <2>9. power = "asleep" /\ power' = "awake"
      BY <1>6 DEF WarmWake
    <2> QED
      BY <2>2, <2>3, <2>6, <2>7, <2>8, <2>9 DEF Exhausted
  <1>7. CASE Reboot
    BY <1>7 DEF Reboot, UsedSalts
  <1>8. CASE UNCHANGED vars
    BY <1>8 DEF vars, UsedSalts, Current, Exhausted
  <1> QED
    BY <1>1, <1>2, <1>3, <1>4, <1>5, <1>6, <1>7, <1>8 DEF Next

\* The counter of the session in memory or in flash is ahead of every counter
\* its salt has used: AheadOfIssued, of callers that keep to the rules.
THEOREM AheadAlways == Spec => []AheadOfIssued
  <1>1. Init => AheadOfIssued
    BY DEF Init, AheadOfIssued
  <1>2. TypeOK /\ AheadOfIssued /\ [Next]_vars => AheadOfIssued'
    BY AheadInductive DEF Ahead
  <1> QED
    BY <1>1, <1>2, TypeCorrect, PTL DEF Spec

-----------------------------------------------------------------------------
(* The nonces of callers that keep to the rules.                           *)

\* No two packets share a nonce: NonceUsedOnce.
THEOREM NoNonceReused == Spec => []NonceUsedOnce
  <1>1. Init => NonceUsedOnce
    BY DEF Init, NonceUsedOnce
  <1>2. Ahead /\ NonceUsedOnce /\ [Next]_vars => NonceUsedOnce'
    <2> SUFFICES ASSUME Ahead, NonceUsedOnce, [Next]_vars PROVE NonceUsedOnce'
      OBVIOUS
    <2> USE CallerStays DEF NonceUsedOnce
    <2>1. CASE Handshake
      <3>1. PICK salt \in Salts \ UsedSalts :
              Issue(NonceFor(New(salt), HandshakeCounter))
        BY <2>1 DEF Handshake
      <3>2. NonceFor(New(salt), HandshakeCounter) = <<salt, HandshakeCounter>>
        BY DEF NonceFor, DeriveNonce, New
      <3>3. <<salt, HandshakeCounter>> \notin issued
        BY <3>1 DEF UsedSalts
      <3> QED
        BY <3>1, <3>2, <3>3 DEF Issue
    <2>2. CASE NextCounter
      <3>1. keys.counter \in Int /\ Current = keys
        BY <2>2 DEF Ahead, TypeOK, Session, Counter, NextCounter, Current
      <3>2. RulesKept =>
              \A old \in issued : old[1] = keys.salt => old[2] < keys.counter
        BY <2>2, <3>1 DEF NextCounter, Ahead, AheadOfIssued
      <3>3. RulesKept => <<keys.salt, keys.counter>> \notin issued
        BY <3>1, <3>2
      <3> QED
        BY <2>2, <3>3 DEF NextCounter, Issue, NonceFor, DeriveNonce
    <2>3. CASE UNCHANGED reissued
      BY <2>3
    <2> QED
      BY <2>1, <2>2, <2>3
      DEF Next, vars, CounterExhausted, ResetCounter, Sleep, WarmWake, Reboot
  <1> QED
    BY <1>1, <1>2, TypeCorrect, AheadAlways, PTL DEF Spec, Ahead

\* Every nonce that a step issues under a salt exceeds the earlier ones of the
\* salt, and no spent salt is used.
LEMMA IssueStep ==
    ASSUME Ahead, RulesKept, NonceUsedOnce', [Next]_vars, NEW new \in JustIssued
    PROVE  /\ \A old \in issued : new[1] = old[1] => new[2] > old[2]
           /\ new[1] \notin spent
  <1>0. new \in issued' /\ new \notin issued
    BY CallerStays DEF JustIssued, NonceUsedOnce
  <1>1. Handshake \/ NextCounter
    BY <1>0 DEF Next, vars, CounterExhausted, ResetCounter, Sleep, WarmWake, Reboot
  <1>2. CASE Handshake
    <2>1. PICK salt \in Salts \ UsedSalts :
            Issue(NonceFor(New(salt), HandshakeCounter))
      BY <1>2 DEF Handshake
    <2>2. new[1] = salt
      BY <1>0, <2>1 DEF Issue, NonceFor, DeriveNonce, New
    <2> QED
      BY <2>1, <2>2 DEF UsedSalts, Ahead, AheadOfIssued
  <1>3. CASE NextCounter
    <2>1. new = <<keys.salt, keys.counter>> /\ Current = keys
      BY <1>0, <1>3 DEF NextCounter, Issue, NonceFor, DeriveNonce, Current
    <2>2. \A old \in issued : old[1] = keys.salt => old[2] < keys.counter
      BY <1>3, <2>1 DEF NextCounter, Ahead, AheadOfIssued
    <2>3. keys.counter \in Int /\ \A old \in issued : old[2] \in Int
      BY DEF Ahead, TypeOK, Session, Nonce, Counter
    <2> QED
      BY <1>3, <2>1, <2>2, <2>3 DEF NextCounter, Ahead, AheadOfIssued
  <1> QED
    BY <1>1, <1>2, <1>3

\* The counters of a session strictly increase: CountersIncrease.
THEOREM CountersAlwaysIncrease == Spec => CountersIncrease
  <1>1. Ahead /\ NonceUsedOnce' /\ [Next]_vars =>
          [RulesKept => \A new \in JustIssued, old \in issued :
              new[1] = old[1] => new[2] > old[2]]_vars
    BY IssueStep
  <1> QED
    BY <1>1, TypeCorrect, AheadAlways, NoNonceReused, PTL DEF Spec, Ahead, CountersIncrease

\* An exhausted session seals nothing more: SpentForGood.
THEOREM SpentStaysSpent == Spec => SpentForGood
  <1>1. Ahead /\ NonceUsedOnce' /\ [Next]_vars =>
          [RulesKept => \A new \in JustIssued : new[1] \notin spent]_vars
    BY IssueStep
  <1> QED
    BY <1>1, TypeCorrect, AheadAlways, NoNonceReused, PTL DEF Spec, Ahead, SpentForGood

-----------------------------------------------------------------------------
(* With any callers.                                                       *)

Started == power = "awake" => keys.counter >= FirstCounter

\* No caller makes a live session forget that its handshake was packet 0.
LEMMA StartedAlways == Spec => []Started
  <1>1. Init => Started
    BY DEF Init, Started
  <1>2. TypeOK /\ Started /\ [Next]_vars => Started'
    <2> SUFFICES ASSUME TypeOK, Started, [Next]_vars PROVE Started'
      OBVIOUS
    <2> USE CounterAssumption DEF Started, FirstCounter
    <2>1. CASE Handshake
      BY <2>1 DEF Handshake, New
    <2>2. CASE NextCounter
      <3>1. keys' = [salt |-> keys.salt, counter |-> keys.counter + 1]
        BY <2>2, IncrementExact DEF NextCounter, TypeOK
      <3> QED
        BY <2>2, <3>1 DEF NextCounter, TypeOK, Session, Counter
    <2>3. CASE CounterExhausted
      BY <2>3 DEF CounterExhausted
    <2>4. CASE ResetCounter
      BY <2>4 DEF ResetCounter, Reset, TypeOK, Session
    <2>5. CASE Sleep
      BY <2>5 DEF Sleep
    <2>6. CASE WarmWake
      <3>1. PICK next \in ResumesFrom : keys' = Resumed(New(cache.salt), next)
        BY <2>6 DEF WarmWake
      <3>2. next \in Counter
        BY DEF ResumesFrom, TypeOK, Session
      <3> QED
        BY <3>1, <3>2 DEF Resumed, New, Counter
    <2>7. CASE Reboot
      BY <2>7 DEF Reboot
    <2>8. CASE UNCHANGED vars
      BY <2>8 DEF vars
    <2> QED
      BY <2>1, <2>2, <2>3, <2>4, <2>5, <2>6, <2>7, <2>8 DEF Next
  <1> QED
    BY <1>1, <1>2, TypeCorrect, PTL DEF Spec

\* Whatever a caller resumes from or resets, packet counters stay between the
\* handshake's and the threshold, and never wrap: PacketCountersInRange.
THEOREM CountersStayInRange == Spec => PacketCountersInRange
  <1> DEFINE InRange ==
        \A new \in JustIssued :
          /\ new[2] = HandshakeCounter => new[1] \notin UsedSalts
          /\ new[2] # HandshakeCounter =>
                /\ new[2] < Threshold
                /\ keys'.counter > new[2]
  <1>1. TypeOK /\ Started /\ [Next]_vars => [InRange]_vars
    <2> SUFFICES ASSUME TypeOK, Started, Next, NEW new \in JustIssued
                 PROVE  /\ new[2] = HandshakeCounter => new[1] \notin UsedSalts
                        /\ new[2] # HandshakeCounter =>
                              /\ new[2] < Threshold
                              /\ keys'.counter > new[2]
      OBVIOUS
    <2>1. Handshake \/ NextCounter
      BY DEF JustIssued, Next, CounterExhausted, ResetCounter, Sleep, WarmWake, Reboot
    <2>2. CASE Handshake
      BY <2>2 DEF Handshake, JustIssued, Issue, NonceFor, DeriveNonce, New, UsedSalts
    <2>3. CASE NextCounter
      <3>1. new = <<keys.salt, keys.counter>>
        BY <2>3 DEF NextCounter, JustIssued, Issue, NonceFor, DeriveNonce
      <3>2. keys.counter \in Int /\ keys.counter >= 1 /\ keys.counter < Threshold
        BY <2>3, CounterAssumption
        DEF NextCounter, Started, FirstCounter, TypeOK, Session, Counter, Exhausted
      <3>3. keys'.counter = keys.counter + 1
        BY <2>3, IncrementExact DEF NextCounter, TypeOK
      <3> QED
        BY <3>1, <3>2, <3>3 DEF HandshakeCounter
    <2> QED
      BY <2>1, <2>2, <2>3
  <1> QED
    BY <1>1, TypeCorrect, StartedAlways, PTL DEF Spec, PacketCountersInRange

-----------------------------------------------------------------------------
(* SessionLink: the keyboard and its receiver.                             *)

\* A step of the link is a step of the keyboard, or leaves the keyboard alone.
LEMMA LinkStep ==
    ASSUME [LinkNext]_linkVars
    PROVE  [Next]_vars
  <1>1. CASE Pair
    BY <1>1 DEF Pair, Next
  <1>2. CASE Send
    BY <1>2 DEF Send, Next
  <1>3. CASE KeyboardAlone
    BY <1>3 DEF KeyboardAlone, Next
  <1>4. CASE Arrive
    BY <1>4 DEF Arrive
  <1>5. CASE Lose
    BY <1>5 DEF Lose, vars
  <1>6. CASE UNCHANGED linkVars
    BY <1>6 DEF linkVars, vars
  <1>7. QED
    BY <1>1, <1>2, <1>3, <1>4, <1>5, <1>6 DEF LinkNext

\* The receiver and the radio take nothing away from the keyboard and add nothing
\* to it: every behaviour of the link is one of the life cycle.
THEOREM LinkImplementsLifecycle == LinkSpec => Spec
  <1>1. LinkInit => Init
    BY DEF LinkInit
  <1>2. [LinkNext]_linkVars => [Next]_vars
    BY LinkStep
  <1>3. QED
    BY <1>1, <1>2, PTL DEF LinkSpec, Spec

\* The keyboard of the link gets no nonce twice, if its callers are careful.
THEOREM LinkNonceUsedOnce == LinkSpec => []NonceUsedOnce
  BY LinkImplementsLifecycle, NoNonceReused, PTL

-----------------------------------------------------------------------------
(* What the receiver accepts.                                              *)

\* The receiver's session and last counter are those of the last packet it
\* accepted, and all that it accepted, or may accept, was handed out.
Follows ==
    /\ air \subseteq issued
    /\ accepted \in Seq(issued)
    /\ accepted = <<>> => expected = None /\ last = None
    /\ accepted # <<>> =>
          /\ expected = accepted[Len(accepted)][1]
          /\ last = accepted[Len(accepted)][2]

\* A handshake that both take part in is under a salt that was not used before.
LEMMA PairIsFresh ==
    ASSUME TypeOK, Pair
    PROVE  \E salt \in Salts \ UsedSalts :
              /\ expected' = salt /\ last' = 0
              /\ issued' = issued \union {<<salt, 0>>}
              /\ accepted' = Append(accepted, <<salt, 0>>)
              /\ air' = air
  <1>1. PICK salt \in Salts \ UsedSalts :
          keys' = New(salt) /\ Issue(NonceFor(New(salt), HandshakeCounter))
    BY DEF Pair, Handshake
  <1>2. keys'.salt = salt
    BY <1>1 DEF New
  <1>3. NonceFor(keys', HandshakeCounter) = <<salt, 0>>
    BY <1>2 DEF NonceFor, DeriveNonce, HandshakeCounter
  <1>4. issued' = issued \union {<<salt, 0>>}
    BY <1>1, <1>3 DEF Issue
  <1>5. QED
    BY <1>1, <1>2, <1>3, <1>4 DEF Pair, HandshakeCounter

\* A packet that is accepted is of the receiver's session and after its last.
LEMMA AcceptMovesOn ==
    ASSUME TypeOK, Follows, NEW nonce \in air, Accept(nonce)
    PROVE  /\ accepted # <<>>
           /\ nonce \in issued /\ nonce[1] = expected
           /\ nonce[2] \in Int /\ last \in Int /\ last < nonce[2]
  <1>1. nonce \in issued /\ nonce \in Salts \X Counter
    BY DEF Follows, TypeOK, Nonce
  <1>2. nonce[1] \in Salts /\ nonce[2] \in Int
    BY <1>1, CounterAssumption DEF Counter
  <1>3. nonce = <<expected, nonce[2]>>
    BY DEF Accept, ReceiverSays, DeriveNonce
  <1>4. expected = nonce[1]
    BY <1>3
  <1>5. accepted # <<>>
    BY <1>2, <1>4, LinkAssumption DEF Follows
  <1>6. last \in Int /\ last # None
    <2>1. Len(accepted) \in DOMAIN accepted /\ accepted[Len(accepted)] \in issued
      BY <1>5 DEF Follows
    <2>2. accepted[Len(accepted)] \in Salts \X Counter
      BY <2>1 DEF TypeOK, Nonce
    <2>3. last \in Counter
      BY <1>5, <2>2 DEF Follows
    <2>4. QED
      BY <2>3, CounterAssumption DEF Counter, None
  <1>7. Frame(nonce).counter = nonce[2]
    BY DEF Frame
  <1>8. Validate(Frame(nonce), expected, last) = "Ok"
    BY DEF Accept, ReceiverSays
  <1>9. ~ Replays(Frame(nonce), last) /\ ~ Jumps(Frame(nonce), last)
    BY <1>8 DEF Validate
  <1>10. nonce[2] # last /\ ~ (nonce[2] < last)
    BY <1>6, <1>7, <1>9 DEF Replays, Jumps
  <1>11. QED
    BY <1>1, <1>2, <1>4, <1>5, <1>6, <1>10

\* The other steps leave the receiver alone and take no nonce back.
LEMMA OthersLeaveIt ==
    ASSUME Follows, [LinkNext]_linkVars, ~ Pair,
           ~ (Arrive /\ \E nonce \in air : Accept(nonce))
    PROVE  /\ issued \subseteq issued' /\ air' \subseteq issued'
           /\ UNCHANGED <<expected, last, accepted>>
  <1>1. CASE Send
    BY <1>1 DEF Send, NextCounter, Issue, Follows
  <1>2. CASE KeyboardAlone
    BY <1>2 DEF KeyboardAlone, CounterExhausted, ResetCounter, Sleep, WarmWake, Reboot, Follows
  <1>3. CASE Arrive
    BY <1>3 DEF Arrive, Refuse, vars, Follows
  <1>4. CASE Lose
    BY <1>4 DEF Lose, vars, Follows
  <1>5. CASE UNCHANGED linkVars
    BY <1>5 DEF linkVars, Follows
  <1>6. QED
    BY <1>1, <1>2, <1>3, <1>4, <1>5 DEF LinkNext

\* Follows holds throughout.
LEMMA FollowsInductive ==
    ASSUME TypeOK, Follows, [LinkNext]_linkVars
    PROVE  Follows'
  <1>1. CASE Pair
    <2>1. PICK salt \in Salts \ UsedSalts :
            /\ expected' = salt /\ last' = 0
            /\ issued' = issued \union {<<salt, 0>>}
            /\ accepted' = Append(accepted, <<salt, 0>>)
            /\ air' = air
      BY <1>1, PairIsFresh
    <2>2. accepted \in Seq(issued') /\ <<salt, 0>> \in issued'
      BY <2>1 DEF Follows
    <2>3. /\ accepted' \in Seq(issued') /\ accepted' # <<>>
          /\ accepted'[Len(accepted')] = <<salt, 0>>
      BY <2>1, <2>2
    <2>4. QED
      BY <2>1, <2>3 DEF Follows
  <1>2. CASE Arrive /\ \E nonce \in air : Accept(nonce)
    <2>1. SUFFICES ASSUME ~ UNCHANGED accepted PROVE Follows'
      BY <1>2 DEF Arrive, Refuse, vars, Accept, Follows
    <2>2. PICK nonce \in air : Accept(nonce)
      BY <1>2
    <2>3. nonce \in issued /\ nonce[1] = expected
      BY <2>2, AcceptMovesOn
    <2>4. accepted' = Append(accepted, nonce) /\ expected' = expected /\ last' = nonce[2]
      BY <2>2 DEF Accept
    <2>5. issued' = issued /\ air' \subseteq air
      BY <1>2 DEF Arrive, vars
    <2>6. /\ accepted' \in Seq(issued) /\ accepted' # <<>>
          /\ accepted'[Len(accepted')] = nonce
      BY <2>3, <2>4 DEF Follows
    <2>7. QED
      BY <2>3, <2>4, <2>5, <2>6 DEF Follows
  <1>3. CASE ~ Pair /\ ~ (Arrive /\ \E nonce \in air : Accept(nonce))
    <2>1. /\ issued \subseteq issued' /\ air' \subseteq issued'
          /\ UNCHANGED <<expected, last, accepted>>
      BY <1>3, OthersLeaveIt
    <2>2. QED
      BY <2>1 DEF Follows
  <1>4. QED
    BY <1>1, <1>2, <1>3

\* A packet after all that its session has accepted, and that session the last
\* one, keeps the order.
LEMMA AppendKeepsOrder ==
    ASSUME AcceptedOnce, accepted \in Seq(issued),
           NEW nonce, accepted' = Append(accepted, nonce),
           \A i \in DOMAIN accepted : accepted[i][1] = nonce[1] =>
              /\ accepted[i][2] < nonce[2]
              /\ \A k \in i .. Len(accepted) : accepted[k][1] = nonce[1]
    PROVE  AcceptedOnce'
  <1> DEFINE n == Len(accepted)
  <1>1. n \in Nat /\ DOMAIN accepted = 1 .. n /\ DOMAIN accepted' = 1 .. n + 1
    OBVIOUS
  <1>2. accepted'[n + 1] = nonce /\ \A i \in 1 .. n : accepted'[i] = accepted[i]
    OBVIOUS
  <1>3. SUFFICES ASSUME NEW i \in 1 .. n + 1, NEW j \in 1 .. n + 1,
                        i < j, accepted'[i][1] = accepted'[j][1]
                 PROVE  /\ accepted'[i][2] < accepted'[j][2]
                        /\ \A k \in i .. j : accepted'[k][1] = accepted'[i][1]
    BY <1>1 DEF AcceptedOnce
  <1> HIDE DEF n
  <1>4. i \in 1 .. n
    BY <1>1, <1>3
  <1>5. CASE j \in 1 .. n
    <2>1. i .. j \subseteq 1 .. n
      BY <1>1, <1>4, <1>5
    <2>2. QED
      BY <1>1, <1>2, <1>3, <1>4, <1>5, <2>1 DEF AcceptedOnce
  <1>6. CASE j = n + 1
    <2>1. accepted[i][1] = nonce[1] /\ accepted'[i] = accepted[i] /\ accepted'[j] = nonce
      BY <1>2, <1>3, <1>4, <1>6
    <2>2. accepted[i][2] < nonce[2] /\ \A k \in i .. n : accepted[k][1] = nonce[1]
      BY <1>1, <1>4, <2>1 DEF n
    <2>3. \A k \in i .. j : k = n + 1 \/ (k \in i .. n /\ k \in 1 .. n)
      BY <1>1, <1>4, <1>6
    <2>4. QED
      BY <1>2, <1>6, <2>1, <2>2, <2>3
  <1>7. QED
    BY <1>1, <1>5, <1>6

\* The step of the theorem below.
LEMMA AcceptedOnceInductive ==
    ASSUME TypeOK, Follows, AcceptedOnce, [LinkNext]_linkVars
    PROVE  AcceptedOnce'
  <1>0. accepted \in Seq(issued) /\ \A i \in DOMAIN accepted : accepted[i] \in issued
    BY DEF Follows
  <1>1. CASE Pair
    <2>1. PICK salt \in Salts \ UsedSalts : accepted' = Append(accepted, <<salt, 0>>)
      BY <1>1, PairIsFresh
    <2>2. \A i \in DOMAIN accepted : accepted[i][1] # salt
      BY <1>0, <2>1 DEF UsedSalts
    <2>3. <<salt, 0>>[1] = salt
      OBVIOUS
    <2>4. \A i \in DOMAIN accepted : accepted[i][1] # <<salt, 0>>[1]
      BY <2>2, <2>3
    <2>5. QED
      BY <1>0, <2>1, <2>4, AppendKeepsOrder
  <1>2. CASE Arrive /\ \E nonce \in air : Accept(nonce)
    <2>1. PICK nonce \in air : Accept(nonce)
      BY <1>2
    <2>2. /\ accepted # <<>> /\ nonce[1] = expected
          /\ nonce[2] \in Int /\ last \in Int /\ last < nonce[2]
      BY <2>1, AcceptMovesOn
    <2>3. Len(accepted) \in Nat \ {0} /\ DOMAIN accepted = 1 .. Len(accepted)
      BY <1>0, <2>2
    <2>4. accepted[Len(accepted)][1] = nonce[1] /\ accepted[Len(accepted)][2] = last
      BY <2>2 DEF Follows
    <2>5. ASSUME NEW i \in DOMAIN accepted, accepted[i][1] = nonce[1]
          PROVE  /\ accepted[i][2] < nonce[2]
                 /\ \A k \in i .. Len(accepted) : accepted[k][1] = nonce[1]
      <3>1. CASE i = Len(accepted)
        BY <2>2, <2>3, <2>4, <3>1
      <3>2. CASE i < Len(accepted)
        <4>1. /\ accepted[i][2] < last
              /\ \A k \in i .. Len(accepted) : accepted[k][1] = nonce[1]
          BY <2>3, <2>4, <2>5, <3>2 DEF AcceptedOnce
        <4>2. accepted[i][2] \in Int
          BY <1>0 DEF TypeOK, Nonce, Counter
        <4>3. QED
          BY <2>2, <4>1, <4>2
      <3>3. QED
        BY <2>3, <3>1, <3>2
    <2>6. accepted' = Append(accepted, nonce)
      BY <2>1 DEF Accept
    <2>7. QED
      BY <1>0, <2>5, <2>6, AppendKeepsOrder
  <1>3. CASE ~ Pair /\ ~ (Arrive /\ \E nonce \in air : Accept(nonce))
    BY <1>3, OthersLeaveIt DEF AcceptedOnce
  <1>4. QED
    BY <1>1, <1>2, <1>3

\* The receiver takes no nonce twice, takes the counters of a session in order and
\* never goes back to a session it has left: AcceptedOnce, for every window and
\* number of sessions, and whatever callers resume from and reset.
THEOREM AcceptedOnceAlways == LinkSpec => []AcceptedOnce
  <1>1. LinkInit => Follows /\ AcceptedOnce
    BY DEF LinkInit, Init, Follows, AcceptedOnce
  <1>2. TypeOK /\ Follows /\ [LinkNext]_linkVars => Follows'
    BY FollowsInductive
  <1>3. TypeOK /\ Follows /\ AcceptedOnce /\ [LinkNext]_linkVars => AcceptedOnce'
    BY AcceptedOnceInductive
  <1>4. QED
    BY <1>1, <1>2, <1>3, LinkImplementsLifecycle, TypeCorrect, PTL DEF LinkSpec

\* What the receiver keeps is of its type, and it has a session exactly when it has
\* a last counter: LinkTypeOK.
THEOREM LinkTypeCorrect == LinkSpec => []LinkTypeOK
  <1>1. LinkInit => Follows
    BY DEF LinkInit, Init, Follows
  <1>2. TypeOK /\ Follows /\ [LinkNext]_linkVars => Follows'
    BY FollowsInductive
  <1>3. TypeOK /\ Follows => LinkTypeOK
    <2> SUFFICES ASSUME TypeOK, Follows PROVE LinkTypeOK
      OBVIOUS
    <2>1. accepted \in Seq(issued) /\ \A i \in DOMAIN accepted : accepted[i] \in issued
      BY DEF Follows
    <2>2. CASE accepted = <<>>
      BY <2>1, <2>2 DEF Follows, LinkTypeOK
    <2>3. CASE accepted # <<>>
      <3>1. accepted[Len(accepted)] \in Salts \X Counter
        BY <2>1, <2>3 DEF TypeOK, Nonce
      <3>2. expected \in Salts /\ last \in Counter
        BY <2>3, <3>1 DEF Follows
      <3>3. expected # None /\ last # None
        BY <3>2, LinkAssumption, CounterAssumption DEF Counter, None
      <3>4. QED
        BY <2>1, <3>2, <3>3 DEF Follows, LinkTypeOK
    <2>4. QED
      BY <2>2, <2>3
  <1>4. QED
    BY <1>1, <1>2, <1>3, LinkImplementsLifecycle, TypeCorrect, PTL DEF LinkSpec

-----------------------------------------------------------------------------
(* What the receiver is still open to.                                     *)

\* While careful callers keep a session, in memory or in flash, the receiver is in
\* it too, and every counter between its last one and the next was handed out.
NoGap ==
    RulesKept /\ power # "off" =>
        /\ expected = Current.salt
        /\ FirstCounter <= Current.counter /\ last < Current.counter
        /\ \A c \in last + 1 .. Current.counter - 1 : <<expected, c>> \in issued

\* The session that the keyboard would go on with, and the receiver's last counter.
LEMMA CurrentTypes ==
    ASSUME TypeOK, Follows, NoGap, RulesKept, power # "off"
    PROVE  Current \in Session /\ Current.counter \in Nat /\ last \in Nat
  <1>1. Current \in Session
    BY DEF TypeOK, Current
  <1>2. Current.salt \in Salts /\ Current.counter \in Nat
    BY <1>1, CounterAssumption DEF Session, Counter
  <1>3. accepted # <<>>
    BY <1>2, LinkAssumption DEF NoGap, Follows
  <1>4. accepted[Len(accepted)] \in Salts \X Counter
    BY <1>3 DEF Follows, TypeOK, Nonce
  <1>5. last \in Nat
    BY <1>3, <1>4, CounterAssumption DEF Follows, Counter
  <1>6. QED
    BY <1>1, <1>2, <1>5

\* NoGap holds throughout.
LEMMA NoGapInductive ==
    ASSUME Ahead, Follows, NoGap, [LinkNext]_linkVars
    PROVE  NoGap'
  <1>0. [Next]_vars
    BY LinkStep
  <1>1. SUFFICES ASSUME RulesKept, power' # "off"
                 PROVE  /\ expected' = Current'.salt
                        /\ FirstCounter <= Current'.counter /\ last' < Current'.counter
                        /\ \A c \in last' + 1 .. Current'.counter - 1 :
                              <<expected', c>> \in issued'
    BY <1>0, CallerStays DEF NoGap
  <1>2. CASE Pair
    <2>1. PICK salt \in Salts \ UsedSalts :
            keys' = New(salt) /\ power' = "awake" /\ expected' = keys'.salt /\ last' = 0
      BY <1>2 DEF Pair, Handshake, HandshakeCounter
    <2>2. Current'.salt = salt /\ Current'.counter = 1 /\ keys'.salt = salt
      BY <2>1 DEF Current, New, FirstCounter
    <2>3. QED
      BY <2>1, <2>2 DEF FirstCounter
  <1>3. CASE Send
    <2>1. power = "awake" /\ power' = "awake" /\ Current = keys /\ Current' = keys'
      BY <1>3 DEF Send, NextCounter, Current
    <2>2. keys \in Session /\ keys.counter \in Nat /\ last \in Nat
      BY <1>1, <2>1, CurrentTypes DEF Ahead
    <2>3. keys' = [salt |-> keys.salt, counter |-> keys.counter + 1]
      BY <1>3, <2>2, IncrementExact DEF Send, NextCounter
    <2>4. issued' = issued \union {<<keys.salt, keys.counter>>}
      BY <1>3 DEF Send, NextCounter, Issue, NonceFor, DeriveNonce
    <2>5. /\ expected = keys.salt /\ last < keys.counter /\ 1 <= keys.counter
          /\ \A c \in last + 1 .. keys.counter - 1 : <<expected, c>> \in issued
      BY <1>1, <2>1 DEF NoGap, FirstCounter
    <2>6. expected' = expected /\ last' = last
      BY <1>3 DEF Send
    <2>7. Current'.salt = keys.salt /\ Current'.counter = keys.counter + 1
      BY <2>1, <2>3
    <2>8. \A c \in last + 1 .. keys.counter :
            c = keys.counter \/ c \in last + 1 .. keys.counter - 1
      BY <2>2
    <2>9. QED
      BY <2>2, <2>4, <2>5, <2>6, <2>7, <2>8 DEF FirstCounter
  <1>4. CASE KeyboardAlone
    <2>1. UNCHANGED <<issued, expected, last>>
      BY <1>4 DEF KeyboardAlone, CounterExhausted, ResetCounter, Sleep, WarmWake, Reboot
    <2>2. power # "off"
      BY <1>1, <1>4
      DEF KeyboardAlone, CounterExhausted, ResetCounter, Sleep, WarmWake, Reboot
    <2>3. Current \in Session /\ FirstCounter <= Current.counter
      BY <1>1, <2>2, CurrentTypes DEF Ahead, NoGap
    <2>4. Current' = Current
      <3>1. CASE CounterExhausted
        BY <3>1 DEF CounterExhausted, Current
      <3>2. CASE ResetCounter
        BY <1>1, <3>2 DEF ResetCounter, RulesKept
      <3>3. CASE Sleep
        BY <3>3 DEF Sleep, Current
      <3>4. CASE WarmWake
        <4>1. keys' = Resumed(New(cache.salt), cache.counter)
          BY <1>1, <3>4 DEF WarmWake, ResumesFrom, RulesKept
        <4>2. Current = cache /\ Current' = keys'
          BY <3>4 DEF WarmWake, Current
        <4>3. keys' = [salt |-> cache.salt, counter |-> cache.counter]
          BY <2>3, <4>1, <4>2, CounterAssumption
          DEF Resumed, New, FirstCounter, Session, Counter
        <4>4. QED
          BY <2>3, <4>2, <4>3 DEF Session
      <3>5. CASE Reboot
        BY <1>1, <3>5 DEF Reboot
      <3>6. QED
        BY <1>4, <3>1, <3>2, <3>3, <3>4, <3>5 DEF KeyboardAlone
    <2>5. QED
      BY <1>1, <2>1, <2>2, <2>4 DEF NoGap
  <1>5. CASE Arrive
    <2>1. UNCHANGED vars /\ Current' = Current
      BY <1>5 DEF Arrive, vars, Current
    <2>2. PICK nonce \in air : Accept(nonce) \/ Refuse(nonce)
      BY <1>5 DEF Arrive
    <2>3. CASE Refuse(nonce)
      BY <1>1, <2>1, <2>3 DEF Refuse, NoGap, vars
    <2>4. CASE Accept(nonce)
      <3>1. nonce \in issued /\ nonce[1] = expected /\ nonce[2] \in Int /\ last < nonce[2]
        BY <2>4, AcceptMovesOn DEF Ahead
      <3>2. expected' = expected /\ last' = nonce[2] /\ issued' = issued
        BY <2>1, <2>4 DEF Accept, vars
      <3>3. power # "off" /\ Current.counter \in Nat /\ last \in Nat
        BY <1>1, <2>1, CurrentTypes DEF Ahead, vars
      <3>4. nonce[2] < Current.counter
        BY <1>1, <3>1, <3>3 DEF Ahead, AheadOfIssued, NoGap
      <3>5. \A c \in nonce[2] + 1 .. Current.counter - 1 :
              c \in last + 1 .. Current.counter - 1
        BY <3>1, <3>3
      <3>6. QED
        BY <1>1, <2>1, <3>2, <3>3, <3>4, <3>5 DEF NoGap
    <2>5. QED
      BY <2>2, <2>3, <2>4
  <1>6. CASE Lose
    BY <1>1, <1>6 DEF Lose, vars, NoGap, Current
  <1>7. CASE UNCHANGED linkVars
    BY <1>1, <1>7 DEF linkVars, NoGap, Current
  <1>8. QED
    BY <1>2, <1>3, <1>4, <1>5, <1>6, <1>7 DEF LinkNext

\* Only finitely many packets can have been missed: the counters of one session.
LEMMA MissedFinite ==
    ASSUME TypeOK
    PROVE  IsFiniteSet(Missed)
  <1> DEFINE f == [nonce \in Missed |-> nonce[2]]
  <1>1. Missed \subseteq Salts \X Counter
    BY DEF Missed, TypeOK, Nonce
  <1>2. IsFiniteSet(Counter)
    BY CounterAssumption, FS_Interval DEF Counter
  <1>3. f \in [Missed -> Counter]
    BY <1>1
  <1>4. \A a, b \in Missed : f[a] = f[b] => a = b
    <2>1. TAKE a \in Missed, b \in Missed
    <2>2. a \in Salts \X Counter /\ b \in Salts \X Counter /\ a[1] = b[1]
      BY <1>1 DEF Missed
    <2>3. QED
      BY <2>2
  <1>5. f \in Injection(Missed, Counter)
    BY <1>3, <1>4 DEF Injection, IsInjective
  <1>6. QED
    BY <1>2, <1>5, FS_Injection

\* A window's width between the receiver and the next counter is that many packets
\* missed.
LEMMA GapIsMissed ==
    ASSUME TypeOK, Follows, NoGap, RulesKept, power # "off",
           Current.counter - last > JumpWindow
    PROVE  JumpWindow <= Cardinality(Missed)
  <1> DEFINE window == last + 1 .. last + JumpWindow
             f == [c \in window |-> <<expected, c>>]
  <1>1. Current.counter \in Nat /\ last \in Nat /\ JumpWindow \in Nat
    BY CurrentTypes, ValidationAssumption
  <1>2. \A c \in window : c \in last + 1 .. Current.counter - 1 /\ c > last
    BY <1>1
  <1>3. \A c \in window : <<expected, c>> \in issued
    BY <1>2 DEF NoGap
  <1>4. \A c \in window : <<expected, c>> \in Missed
    BY <1>2, <1>3 DEF Missed
  <1>5. f \in Injection(window, Missed)
    BY <1>4 DEF Injection, IsInjective
  <1>6. Cardinality(window) <= Cardinality(Missed)
    BY <1>5, MissedFinite, FS_Injection
  <1>7. Cardinality(window) = JumpWindow
    BY <1>1, FS_Interval
  <1>8. QED
    BY <1>6, <1>7

\* Within the window, the keyboard's next packet is accepted.
LEMMA NextIsAccepted ==
    ASSUME TypeOK, Follows, NoGap
    PROVE  NextGetsThrough
  <1>1. SUFFICES ASSUME RulesKept, power # "off", Cardinality(Missed) < JumpWindow
                 PROVE  ReceiverSays(NonceFor(Current, Current.counter)) = "Ok"
    BY DEF NextGetsThrough
  <1> DEFINE nonce == <<Current.salt, Current.counter>>
  <1>2. /\ expected = Current.salt /\ Current.counter \in Nat /\ last \in Nat
        /\ last < Current.counter
    BY <1>1, CurrentTypes DEF NoGap
  <1>3. Cardinality(Missed) \in Nat /\ JumpWindow \in Nat
    BY MissedFinite, FS_CardinalityType, ValidationAssumption
  <1>4. ~ (Current.counter - last > JumpWindow)
    BY <1>1, <1>3, GapIsMissed
  <1>5. NonceFor(Current, Current.counter) = nonce /\ nonce = DeriveNonce(expected, nonce[2])
    BY <1>2 DEF NonceFor, DeriveNonce
  <1>6. /\ Frame(nonce).session_id = expected /\ Frame(nonce).counter = Current.counter
        /\ Frame(nonce).mac_len = MacLen /\ Frame(nonce).payload_len = 1
        /\ Frame(nonce).kind = "KeyReport"
    BY <1>2 DEF Frame, HandshakeCounter
  <1> HIDE DEF nonce
  <1>7. ~ MacMissing(Frame(nonce)) /\ ~ OtherSession(Frame(nonce), expected)
    BY <1>6, LinkAssumption, ValidationAssumption DEF MacMissing, OtherSession
  <1>8. ~ Replays(Frame(nonce), last) /\ ~ Jumps(Frame(nonce), last)
    BY <1>2, <1>4, <1>6, ValidationAssumption DEF Replays, Jumps
  <1>9. ~ TooLarge(Frame(nonce))
    BY <1>6, LinkAssumption, ValidationAssumption DEF TooLarge, PayloadLimit
  <1>10. QED
    BY <1>5, <1>7, <1>8, <1>9 DEF ReceiverSays, Validate

\* Unless a window's width of packets was lost, the next packet of careful callers
\* is accepted, after whatever sleeps and wakes: NextGetsThrough, for every window.
THEOREM NextAlwaysGetsThrough == LinkSpec => []NextGetsThrough
  <1>1. LinkInit => Follows /\ NoGap
    BY DEF LinkInit, Init, Follows, NoGap
  <1>2. TypeOK /\ Follows /\ [LinkNext]_linkVars => Follows'
    BY FollowsInductive
  <1>3. TypeOK /\ AheadOfIssued /\ Follows /\ NoGap /\ [LinkNext]_linkVars => NoGap'
    BY NoGapInductive DEF Ahead
  <1>4. TypeOK /\ Follows /\ NoGap => NextGetsThrough
    BY NextIsAccepted
  <1>5. QED
    BY <1>1, <1>2, <1>3, <1>4, LinkImplementsLifecycle, TypeCorrect, AheadAlways, PTL
    DEF LinkSpec
=============================================================================
