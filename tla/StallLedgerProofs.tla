------------------------- MODULE StallLedgerProofs -------------------------
(***************************************************************************)
(* Proofs about StallLedger, for any windows, stall age, interval, memory  *)
(* and number of streams: no more than the limit stay stuck, only streams  *)
(* whose consumer takes nothing are chosen, and a peer's report is heard   *)
(* by the evaluation that can act on it.                                   *)
(***************************************************************************)
EXTENDS StallLedger, FiniteSetTheorems, TLAPS

\* A stamp is set exactly while its pump is inside a local write, and is the
\* instant since which the consumer has taken nothing.
Stamped ==
    \A s \in Streams :
        /\ s \in tracks <=> pump[s] \in {"read", "loaded", "write"}
        /\ pump[s] = "new" <=> s > opened
        /\ evicted[s] => s <= opened
        /\ entered[s] # Never <=> pump[s] = "write"
        /\ pump[s] = "write" => waiting[s] = entered[s] /\ entered[s] <= now
        /\ pump[s] = "loaded" => waiting[s] = now

\* The next evaluation is at most an interval away, and what the last one
\* chose is signalled and stopped before the clock moves.
OnTime ==
    /\ LedgerAlive => now <= due /\ due <= now + EvaluateInterval
    /\ (chosen # {} \/ \E s \in tracks : evicted[s]) => due = now + EvaluateInterval

\* Streams that the last evaluation saw stalled and left alone.
LeftAlone ==
    {s \in tracks : /\ ~evicted[s] /\ s \notin chosen /\ entered[s] # Never
                    /\ due - EvaluateInterval - entered[s] >= StallAge}

\* A report that was not answered is still to be seen, or is remembered, and
\* the evaluation that must act on it is not yet past.
Pending(s) ==
    blocked # NotBlocked /\ ~blocked.answered /\ s \in tracks \intersect blocked.watched

Remembered ==
    /\ blocked # NotBlocked => blocked.at # Never /\ blocked.at <= now /\ blocked.watched \subseteq 1..opened
    /\ \A s \in Streams : Pending(s) =>
            /\ ~unseen => rose # Never /\ blocked.at <= rose
            /\ StuckAtReport(s) => due <= AnswerBy(s)

Limited == StuckWithinLimit /\ (tracks # {} => Cardinality(LeftAlone) <= MaxStalled)

LedgerInv == TypeOK /\ Stamped /\ OnTime /\ Limited /\ Remembered

-----------------------------------------------------------------------------
(* Constants and finite sets.                                              *)

\* The constants are numbers, and the limit leaves room for a stalled stream.
LEMMA Numbers ==
    /\ StreamWindow \in Nat /\ StreamWindow > 0
    /\ StallAge \in Nat /\ StallAge > 0
    /\ EvaluateInterval \in Nat /\ EvaluateInterval > 0
    /\ DataBlockedMemory \in Nat /\ DataBlockedMemory >= EvaluateInterval
    /\ ConnectionWindow \in Nat /\ MaxStreams \in Nat /\ MaxTime \in Nat
    /\ Never \notin Int
    /\ MaxStalled \in Nat
<1>1. ConnectionWindow \in Nat /\ StreamWindow \in Nat /\ StreamWindow > 0 /\ ConnectionWindow >= 2 * StreamWindow
    BY LedgerAssumption
<1>2. ConnectionWindow \div StreamWindow \in Int /\ ConnectionWindow \div StreamWindow >= 1
    BY <1>1, SMT
<1>. QED BY <1>1, <1>2, LedgerAssumption DEF MaxStalled

\* Any set of streams is finite.
LEMMA FewStreams ==
    ASSUME NEW S \in SUBSET Streams
    PROVE  IsFiniteSet(S) /\ Cardinality(S) \in Nat
<1>1. MaxStreams \in Int /\ 1 \in Int
    BY Numbers
<1>2. IsFiniteSet(Streams)
    BY <1>1, FS_Interval DEF Streams
<1>3. IsFiniteSet(S)
    BY <1>2, FS_Subset
<1>. QED BY <1>3, FS_CardinalityType

\* A smaller set of streams is within a limit a larger one is within.
LEMMA Fewer ==
    ASSUME NEW S \in SUBSET Streams, NEW T \in SUBSET S, NEW n \in Nat, Cardinality(S) <= n
    PROVE  Cardinality(T) <= n
<1>1. IsFiniteSet(S) /\ Cardinality(S) \in Nat
    BY FewStreams
<1>2. Cardinality(T) <= Cardinality(S) /\ Cardinality(T) \in Nat
    BY <1>1, FS_Subset, FewStreams
<1>. QED BY <1>1, <1>2

\* Streams are numbers, the ledger's are streams, and a stamp is an instant.
LEMMA StreamsTyped ==
    ASSUME TypeOK
    PROVE  /\ Streams \subseteq Int
           /\ 1..opened \subseteq Streams /\ tracks \subseteq Streams /\ chosen \subseteq Streams
           /\ now \in Nat /\ due \in Nat /\ opened \in Nat
           /\ \A s \in Streams : entered[s] # Never => entered[s] \in Nat
           /\ rose # Never => rose \in Nat
           /\ blocked.at # Never => blocked.at \in Nat
<1>1. Streams \subseteq Int
    BY Numbers DEF Streams
<1>2. now \in Nat /\ due \in Nat /\ opened \in Nat /\ opened <= MaxStreams
    BY Numbers DEF TypeOK, Times
<1>3. 1..opened \subseteq Streams
    BY <1>2, Numbers DEF Streams
<1>4. tracks \subseteq Streams /\ chosen \subseteq Streams
    BY <1>3 DEF TypeOK
<1>5. Times \subseteq Nat
    BY Numbers DEF Times
<1>6. \A s \in Streams : entered[s] # Never => entered[s] \in Nat
    BY <1>5 DEF TypeOK
<1>7. (rose # Never => rose \in Nat) /\ (blocked.at # Never => blocked.at \in Nat)
    BY <1>5 DEF TypeOK
<1>. QED BY <1>1, <1>2, <1>3, <1>4, <1>6, <1>7

\* Leaving out the oldest n of the stalled streams leaves all but n: the ranks
\* of the others are distinct numbers from n up.
LEMMA OldestAreMany ==
    ASSUME TypeOK, NEW n \in Nat, n <= Cardinality(Stalled)
    PROVE  Cardinality(Stalled \ Oldest(n)) <= Cardinality(Stalled) - n
<1>. DEFINE m == Cardinality(Stalled)
            Before(s) == {t \in Stalled : Older(t, s)}
            Rank(s) == Cardinality(Before(s))
            R == Stalled \ Oldest(n)
            f == [s \in R |-> Rank(s)]
<1>1. Stalled \in SUBSET Streams /\ \A s \in Stalled : entered[s] \in Int /\ s \in Int
    BY StreamsTyped DEF Stalled
<1>2. IsFiniteSet(Stalled) /\ m \in Nat
    BY <1>1, FewStreams
<1>3. \A s \in Stalled : Rank(s) \in Nat /\ Rank(s) < m
    <2>. TAKE s \in Stalled
    <2>1. Before(s) \in SUBSET Stalled /\ s \notin Before(s)
        BY <1>1 DEF Older
    <2>2. Before(s) \in SUBSET Streams /\ Before(s) # Stalled
        BY <1>1, <2>1
    <2>3. Rank(s) \in Nat
        BY <2>2, FewStreams
    <2>4. Rank(s) <= m /\ (m = Rank(s) => Stalled = Before(s))
        BY <1>2, <2>1, FS_Subset
    <2>. QED BY <1>2, <2>2, <2>3, <2>4
<1>4. ASSUME NEW s \in Stalled, NEW t \in Stalled, Older(s, t)
      PROVE  Rank(s) < Rank(t)
    <2>1. Before(s) \in SUBSET Before(t) /\ s \in Before(t) /\ s \notin Before(s)
        BY <1>1, <1>4 DEF Older
    <2>2. Before(t) \in SUBSET Streams /\ Before(s) # Before(t)
        BY <1>1, <2>1
    <2>3. IsFiniteSet(Before(t))
        BY <2>2, FewStreams
    <2>4. Rank(s) <= Rank(t) /\ (Rank(t) = Rank(s) => Before(t) = Before(s))
        BY <2>1, <2>3, FS_Subset
    <2>. QED BY <1>3, <2>2, <2>4
<1>5. \A s, t \in Stalled : s # t => Older(s, t) \/ Older(t, s)
    BY <1>1 DEF Older
<1>6. \A s, t \in R : Rank(s) = Rank(t) => s = t
    <2>. HIDE DEF Rank
    <2>1. \A s, t \in Stalled : Older(s, t) => Rank(s) < Rank(t)
        BY <1>4
    <2>. QED BY <1>3, <1>5, <2>1
<1>7. \A s \in R : Rank(s) \in n..(m - 1)
    BY <1>2, <1>3 DEF Oldest
<1>8. f \in Injection(R, n..(m - 1))
    BY <1>6, <1>7 DEF Injection, IsInjective
<1>9. IsFiniteSet(n..(m - 1)) /\ Cardinality(n..(m - 1)) = IF n > m - 1 THEN 0 ELSE m - 1 - n + 1
    <2>. HIDE DEF m
    <2>1. n \in Int /\ m - 1 \in Int
        BY <1>2
    <2>. QED BY <2>1, FS_Interval
<1>10. Cardinality(R) <= Cardinality(n..(m - 1))
    BY <1>8, <1>9, FS_Injection
<1>11. Cardinality(R) \in Nat
    BY <1>1, FewStreams
<1>. QED BY <1>2, <1>9, <1>10, <1>11

\* A stalled stream has an oldest.
LEMMA OldestExists ==
    ASSUME TypeOK, Stalled # {}
    PROVE  Oldest(1) # {}
<1>1. Stalled \in SUBSET Streams
    BY StreamsTyped DEF Stalled
<1>2. IsFiniteSet(Stalled) /\ Cardinality(Stalled) \in Nat
    BY <1>1, FewStreams
<1>3. 1 <= Cardinality(Stalled)
    BY <1>2, FS_EmptySet
<1>4. Cardinality(Stalled \ Oldest(1)) <= Cardinality(Stalled) - 1
    BY <1>3, OldestAreMany
<1>5. Oldest(1) = {} => Stalled \ Oldest(1) = Stalled
    OBVIOUS
<1>. QED BY <1>2, <1>4, <1>5

\* What decide leaves alone is within the limit.
LEMMA ChoiceIsEnough ==
    ASSUME TypeOK, NEW at
    PROVE  /\ Choice(at) \subseteq Stalled
           /\ Cardinality(Stalled \ Choice(at)) <= MaxStalled
<1>1. Stalled \in SUBSET Streams
    BY StreamsTyped DEF Stalled
<1>2. Cardinality(Stalled) \in Nat /\ MaxStalled \in Nat
    BY <1>1, FewStreams, Numbers
<1>3. Choice(at) \subseteq Stalled
    BY DEF Choice, Oldest
<1>4. CASE Cardinality(Stalled) > MaxStalled
    <2>. DEFINE n == Cardinality(Stalled) - MaxStalled
    <2>1. n \in Nat /\ n <= Cardinality(Stalled)
        BY <1>2, <1>4
    <2>2. Cardinality(Stalled \ Oldest(n)) <= Cardinality(Stalled) - n
        BY <2>1, OldestAreMany
    <2>3. Choice(at) = Oldest(n)
        BY <1>4 DEF Choice
    <2>. QED BY <1>2, <1>3, <2>2, <2>3
<1>5. CASE Cardinality(Stalled) <= MaxStalled
    BY <1>1, <1>2, <1>3, <1>5, Fewer
<1>. QED BY <1>2, <1>3, <1>4, <1>5

-----------------------------------------------------------------------------
(* Every step keeps the types.                                             *)

\* What each report or its absence looks like.
LEMMA BlockedTyped ==
    ASSUME TypeOK
    PROVE  /\ NotBlocked \in [at : Times \union {Never}, watched : SUBSET Streams, answered : BOOLEAN]
           /\ \A a \in Times, W \in SUBSET Streams, b \in BOOLEAN :
                [at |-> a, watched |-> W, answered |-> b]
                    \in [at : Times \union {Never}, watched : SUBSET Streams, answered : BOOLEAN]
           /\ \A b \in BOOLEAN : [blocked EXCEPT !.answered = b]
                    \in [at : Times \union {Never}, watched : SUBSET Streams, answered : BOOLEAN]
BY DEF TypeOK, NotBlocked

LEMMA TypeStep ==
    ASSUME TypeOK, [Next]_vars
    PROVE  TypeOK'
<1>1. ASSUME Watch PROVE TypeOK'
    <2>1. /\ now' \in Times /\ opened' \in 0..MaxStreams /\ tracks' \subseteq 1..opened'
          /\ due' \in 0..(MaxTime + EvaluateInterval) /\ chosen' \subseteq 1..opened'
        <3>1. now' = now /\ opened' = opened + 1 /\ opened + 1 <= MaxStreams /\ opened \in Nat
            BY <1>1, Numbers, StreamsTyped DEF TypeOK, Watch
        <3>2. tracks' \subseteq 1..opened'
            BY <1>1, <3>1 DEF TypeOK, Watch
        <3>3. chosen' = chosen
            BY <1>1 DEF Watch, ledger
        <3>4. due' \in 0..(MaxTime + EvaluateInterval)
            BY <1>1, Numbers DEF TypeOK, Watch, ledger, Times
        <3>5. chosen' \subseteq 1..opened'
            BY <3>1, <3>3 DEF TypeOK
        <3>. QED BY <3>1, <3>2, <3>4, <3>5, Numbers DEF TypeOK
    <2>2. /\ entered' \in [Streams -> Times \union {Never}] /\ evicted' \in [Streams -> BOOLEAN]
          /\ pump' \in [Streams -> Phases] /\ waiting' \in [Streams -> Times \union {Never}]
        BY <1>1 DEF TypeOK, Phases, Watch, pumps, window, ledger
    <2>3. /\ held' \in [Streams -> 0..StreamWindow] /\ other' \in Nat
          /\ rose' \in Times \union {Never} /\ unseen' \in BOOLEAN
        BY <1>1, Numbers DEF TypeOK, Watch, pumps, window, ledger
    <2>4. blocked' \in [at : Times \union {Never}, watched : SUBSET Streams, answered : BOOLEAN]
        BY <1>1, StreamsTyped, BlockedTyped DEF TypeOK, Watch, pumps, window, ledger
    <2>. QED BY <2>1, <2>2, <2>3, <2>4 DEF TypeOK
<1>2. ASSUME OtherArrive PROVE TypeOK'
    <2>1. /\ now' \in Times /\ opened' \in 0..MaxStreams /\ tracks' \subseteq 1..opened'
          /\ due' \in 0..(MaxTime + EvaluateInterval) /\ chosen' \subseteq 1..opened'
        BY <1>2, Numbers DEF TypeOK, Times, OtherArrive, pumps, window, ledger
    <2>2. /\ entered' \in [Streams -> Times \union {Never}] /\ evicted' \in [Streams -> BOOLEAN]
          /\ pump' \in [Streams -> Phases] /\ waiting' \in [Streams -> Times \union {Never}]
        BY <1>2 DEF TypeOK, Phases, OtherArrive, pumps, window, ledger
    <2>3. /\ held' \in [Streams -> 0..StreamWindow] /\ other' \in Nat
          /\ rose' \in Times \union {Never} /\ unseen' \in BOOLEAN
        BY <1>2, Numbers DEF TypeOK, OtherArrive, pumps, window, ledger
    <2>4. blocked' \in [at : Times \union {Never}, watched : SUBSET Streams, answered : BOOLEAN]
        BY <1>2, StreamsTyped, BlockedTyped DEF TypeOK, OtherArrive, pumps, window, ledger
    <2>. QED BY <2>1, <2>2, <2>3, <2>4 DEF TypeOK
<1>3. ASSUME OtherRead PROVE TypeOK'
    <2>1. /\ now' \in Times /\ opened' \in 0..MaxStreams /\ tracks' \subseteq 1..opened'
          /\ due' \in 0..(MaxTime + EvaluateInterval) /\ chosen' \subseteq 1..opened'
        BY <1>3, Numbers DEF TypeOK, Times, OtherRead, Credit, pumps, window, ledger
    <2>2. /\ entered' \in [Streams -> Times \union {Never}] /\ evicted' \in [Streams -> BOOLEAN]
          /\ pump' \in [Streams -> Phases] /\ waiting' \in [Streams -> Times \union {Never}]
        BY <1>3 DEF TypeOK, Phases, OtherRead, Credit, pumps, window, ledger
    <2>3. /\ held' \in [Streams -> 0..StreamWindow] /\ other' \in Nat
          /\ rose' \in Times \union {Never} /\ unseen' \in BOOLEAN
        BY <1>3, Numbers DEF TypeOK, OtherRead, Credit, pumps, window, ledger
    <2>4. blocked' \in [at : Times \union {Never}, watched : SUBSET Streams, answered : BOOLEAN]
        BY <1>3, StreamsTyped, BlockedTyped DEF TypeOK, OtherRead, Credit, pumps, window, ledger
    <2>. QED BY <2>1, <2>2, <2>3, <2>4 DEF TypeOK
<1>4. ASSUME DataBlocked PROVE TypeOK'
    <2>1. /\ now' \in Times /\ opened' \in 0..MaxStreams /\ tracks' \subseteq 1..opened'
          /\ due' \in 0..(MaxTime + EvaluateInterval) /\ chosen' \subseteq 1..opened'
        BY <1>4, Numbers DEF TypeOK, Times, DataBlocked, pumps, window, ledger
    <2>2. /\ entered' \in [Streams -> Times \union {Never}] /\ evicted' \in [Streams -> BOOLEAN]
          /\ pump' \in [Streams -> Phases] /\ waiting' \in [Streams -> Times \union {Never}]
        BY <1>4 DEF TypeOK, Phases, DataBlocked, pumps, window, ledger
    <2>3. /\ held' \in [Streams -> 0..StreamWindow] /\ other' \in Nat
          /\ rose' \in Times \union {Never} /\ unseen' \in BOOLEAN
        BY <1>4, Numbers DEF TypeOK, DataBlocked, pumps, window, ledger
    <2>4. blocked' \in [at : Times \union {Never}, watched : SUBSET Streams, answered : BOOLEAN]
        BY <1>4, StreamsTyped, BlockedTyped DEF TypeOK, DataBlocked, pumps, window, ledger
    <2>. QED BY <2>1, <2>2, <2>3, <2>4 DEF TypeOK
<1>5. ASSUME Decide PROVE TypeOK'
    <2>1. /\ now' \in Times /\ opened' \in 0..MaxStreams /\ tracks' \subseteq 1..opened'
          /\ due' \in 0..(MaxTime + EvaluateInterval) /\ chosen' \subseteq 1..opened'
        <3>1. chosen' \subseteq tracks
            BY <1>5, ChoiceIsEnough DEF Decide, Stalled
        <3>. QED BY <1>5, <3>1, Numbers DEF TypeOK, Times, Decide
    <2>2. /\ entered' \in [Streams -> Times \union {Never}] /\ evicted' \in [Streams -> BOOLEAN]
          /\ pump' \in [Streams -> Phases] /\ waiting' \in [Streams -> Times \union {Never}]
        BY <1>5 DEF TypeOK, Phases, Decide, pumps, window, ledger
    <2>3. /\ held' \in [Streams -> 0..StreamWindow] /\ other' \in Nat
          /\ rose' \in Times \union {Never} /\ unseen' \in BOOLEAN
        BY <1>5, Numbers DEF TypeOK, Decide, pumps, window, ledger
    <2>4. blocked' \in [at : Times \union {Never}, watched : SUBSET Streams, answered : BOOLEAN]
        BY <1>5, StreamsTyped, BlockedTyped DEF TypeOK, Decide, pumps, window, ledger
    <2>. QED BY <2>1, <2>2, <2>3, <2>4 DEF TypeOK
<1>6. ASSUME Signal PROVE TypeOK'
    <2>1. /\ now' \in Times /\ opened' \in 0..MaxStreams /\ tracks' \subseteq 1..opened'
          /\ due' \in 0..(MaxTime + EvaluateInterval) /\ chosen' \subseteq 1..opened'
        BY <1>6, Numbers DEF TypeOK, Times, Signal, pumps, window, ledger
    <2>2. /\ entered' \in [Streams -> Times \union {Never}] /\ evicted' \in [Streams -> BOOLEAN]
          /\ pump' \in [Streams -> Phases] /\ waiting' \in [Streams -> Times \union {Never}]
        BY <1>6 DEF TypeOK, Phases, Signal, pumps, window, ledger
    <2>3. /\ held' \in [Streams -> 0..StreamWindow] /\ other' \in Nat
          /\ rose' \in Times \union {Never} /\ unseen' \in BOOLEAN
        BY <1>6, Numbers DEF TypeOK, Signal, pumps, window, ledger
    <2>4. blocked' \in [at : Times \union {Never}, watched : SUBSET Streams, answered : BOOLEAN]
        BY <1>6, StreamsTyped, BlockedTyped DEF TypeOK, Signal, pumps, window, ledger
    <2>. QED BY <2>1, <2>2, <2>3, <2>4 DEF TypeOK
<1>7. ASSUME Advance PROVE TypeOK'
    <2>1. /\ now' \in Times /\ opened' \in 0..MaxStreams /\ tracks' \subseteq 1..opened'
          /\ due' \in 0..(MaxTime + EvaluateInterval) /\ chosen' \subseteq 1..opened'
        BY <1>7, Numbers DEF TypeOK, Times, Advance, pumps, window, ledger
    <2>2. /\ entered' \in [Streams -> Times \union {Never}] /\ evicted' \in [Streams -> BOOLEAN]
          /\ pump' \in [Streams -> Phases] /\ waiting' \in [Streams -> Times \union {Never}]
        BY <1>7 DEF TypeOK, Phases, Advance, pumps, window, ledger
    <2>3. /\ held' \in [Streams -> 0..StreamWindow] /\ other' \in Nat
          /\ rose' \in Times \union {Never} /\ unseen' \in BOOLEAN
        BY <1>7, Numbers DEF TypeOK, Advance, pumps, window, ledger
    <2>4. blocked' \in [at : Times \union {Never}, watched : SUBSET Streams, answered : BOOLEAN]
        BY <1>7, StreamsTyped, BlockedTyped DEF TypeOK, Advance, pumps, window, ledger
    <2>. QED BY <2>1, <2>2, <2>3, <2>4 DEF TypeOK
<1>8. ASSUME NEW s \in Streams, Arrive(s) PROVE TypeOK'
    <2>1. /\ now' \in Times /\ opened' \in 0..MaxStreams /\ tracks' \subseteq 1..opened'
          /\ due' \in 0..(MaxTime + EvaluateInterval) /\ chosen' \subseteq 1..opened'
        BY <1>8, Numbers DEF TypeOK, Times, Arrive, pumps, window, ledger
    <2>2. /\ entered' \in [Streams -> Times \union {Never}] /\ evicted' \in [Streams -> BOOLEAN]
          /\ pump' \in [Streams -> Phases] /\ waiting' \in [Streams -> Times \union {Never}]
        BY <1>8 DEF TypeOK, Phases, Arrive, pumps, window, ledger
    <2>3. /\ held' \in [Streams -> 0..StreamWindow] /\ other' \in Nat
          /\ rose' \in Times \union {Never} /\ unseen' \in BOOLEAN
        BY <1>8, Numbers DEF TypeOK, Arrive, pumps, window, ledger
    <2>4. blocked' \in [at : Times \union {Never}, watched : SUBSET Streams, answered : BOOLEAN]
        BY <1>8, StreamsTyped, BlockedTyped DEF TypeOK, Arrive, pumps, window, ledger
    <2>. QED BY <2>1, <2>2, <2>3, <2>4 DEF TypeOK
<1>9. ASSUME NEW s \in Streams, Read(s) PROVE TypeOK'
    <2>1. /\ now' \in Times /\ opened' \in 0..MaxStreams /\ tracks' \subseteq 1..opened'
          /\ due' \in 0..(MaxTime + EvaluateInterval) /\ chosen' \subseteq 1..opened'
        BY <1>9, Numbers DEF TypeOK, Times, Read, Credit, pumps, window, ledger
    <2>2. /\ entered' \in [Streams -> Times \union {Never}] /\ evicted' \in [Streams -> BOOLEAN]
          /\ pump' \in [Streams -> Phases] /\ waiting' \in [Streams -> Times \union {Never}]
        BY <1>9 DEF TypeOK, Phases, Read, Credit, pumps, window, ledger
    <2>3. /\ held' \in [Streams -> 0..StreamWindow] /\ other' \in Nat
          /\ rose' \in Times \union {Never} /\ unseen' \in BOOLEAN
        BY <1>9, Numbers DEF TypeOK, Read, Credit, pumps, window, ledger
    <2>4. blocked' \in [at : Times \union {Never}, watched : SUBSET Streams, answered : BOOLEAN]
        BY <1>9, StreamsTyped, BlockedTyped DEF TypeOK, Read, Credit, pumps, window, ledger
    <2>. QED BY <2>1, <2>2, <2>3, <2>4 DEF TypeOK
<1>10. ASSUME NEW s \in Streams, EnterWrite(s) PROVE TypeOK'
    <2>1. /\ now' \in Times /\ opened' \in 0..MaxStreams /\ tracks' \subseteq 1..opened'
          /\ due' \in 0..(MaxTime + EvaluateInterval) /\ chosen' \subseteq 1..opened'
        BY <1>10, Numbers DEF TypeOK, Times, EnterWrite, pumps, window, ledger
    <2>2. /\ entered' \in [Streams -> Times \union {Never}] /\ evicted' \in [Streams -> BOOLEAN]
          /\ pump' \in [Streams -> Phases] /\ waiting' \in [Streams -> Times \union {Never}]
        BY <1>10 DEF TypeOK, Phases, EnterWrite, pumps, window, ledger
    <2>3. /\ held' \in [Streams -> 0..StreamWindow] /\ other' \in Nat
          /\ rose' \in Times \union {Never} /\ unseen' \in BOOLEAN
        BY <1>10, Numbers DEF TypeOK, EnterWrite, pumps, window, ledger
    <2>4. blocked' \in [at : Times \union {Never}, watched : SUBSET Streams, answered : BOOLEAN]
        BY <1>10, StreamsTyped, BlockedTyped DEF TypeOK, EnterWrite, pumps, window, ledger
    <2>. QED BY <2>1, <2>2, <2>3, <2>4 DEF TypeOK
<1>11. ASSUME NEW s \in Streams, LeaveWrite(s) PROVE TypeOK'
    <2>1. /\ now' \in Times /\ opened' \in 0..MaxStreams /\ tracks' \subseteq 1..opened'
          /\ due' \in 0..(MaxTime + EvaluateInterval) /\ chosen' \subseteq 1..opened'
        BY <1>11, Numbers DEF TypeOK, Times, LeaveWrite, pumps, window, ledger
    <2>2. /\ entered' \in [Streams -> Times \union {Never}] /\ evicted' \in [Streams -> BOOLEAN]
          /\ pump' \in [Streams -> Phases] /\ waiting' \in [Streams -> Times \union {Never}]
        BY <1>11 DEF TypeOK, Phases, LeaveWrite, pumps, window, ledger
    <2>3. /\ held' \in [Streams -> 0..StreamWindow] /\ other' \in Nat
          /\ rose' \in Times \union {Never} /\ unseen' \in BOOLEAN
        BY <1>11, Numbers DEF TypeOK, LeaveWrite, pumps, window, ledger
    <2>4. blocked' \in [at : Times \union {Never}, watched : SUBSET Streams, answered : BOOLEAN]
        BY <1>11, StreamsTyped, BlockedTyped DEF TypeOK, LeaveWrite, pumps, window, ledger
    <2>. QED BY <2>1, <2>2, <2>3, <2>4 DEF TypeOK
<1>12. ASSUME NEW s \in Streams, End(s) PROVE TypeOK'
    <2>1. /\ now' \in Times /\ opened' \in 0..MaxStreams /\ tracks' \subseteq 1..opened'
          /\ due' \in 0..(MaxTime + EvaluateInterval) /\ chosen' \subseteq 1..opened'
        BY <1>12, Numbers DEF TypeOK, Times, End, Teardown, Credit, pumps, window, ledger
    <2>2. /\ entered' \in [Streams -> Times \union {Never}] /\ evicted' \in [Streams -> BOOLEAN]
          /\ pump' \in [Streams -> Phases] /\ waiting' \in [Streams -> Times \union {Never}]
        BY <1>12 DEF TypeOK, Phases, End, Teardown, Credit, pumps, window, ledger
    <2>3. /\ held' \in [Streams -> 0..StreamWindow] /\ other' \in Nat
          /\ rose' \in Times \union {Never} /\ unseen' \in BOOLEAN
        BY <1>12, Numbers DEF TypeOK, End, Teardown, Credit, pumps, window, ledger
    <2>4. blocked' \in [at : Times \union {Never}, watched : SUBSET Streams, answered : BOOLEAN]
        BY <1>12, StreamsTyped, BlockedTyped DEF TypeOK, End, Teardown, Credit, pumps, window, ledger
    <2>. QED BY <2>1, <2>2, <2>3, <2>4 DEF TypeOK
<1>13. ASSUME NEW s \in Streams, Stop(s) PROVE TypeOK'
    <2>1. /\ now' \in Times /\ opened' \in 0..MaxStreams /\ tracks' \subseteq 1..opened'
          /\ due' \in 0..(MaxTime + EvaluateInterval) /\ chosen' \subseteq 1..opened'
        BY <1>13, Numbers DEF TypeOK, Times, Stop, Teardown, Credit, pumps, window, ledger
    <2>2. /\ entered' \in [Streams -> Times \union {Never}] /\ evicted' \in [Streams -> BOOLEAN]
          /\ pump' \in [Streams -> Phases] /\ waiting' \in [Streams -> Times \union {Never}]
        BY <1>13 DEF TypeOK, Phases, Stop, Teardown, Credit, pumps, window, ledger
    <2>3. /\ held' \in [Streams -> 0..StreamWindow] /\ other' \in Nat
          /\ rose' \in Times \union {Never} /\ unseen' \in BOOLEAN
        BY <1>13, Numbers DEF TypeOK, Stop, Teardown, Credit, pumps, window, ledger
    <2>4. blocked' \in [at : Times \union {Never}, watched : SUBSET Streams, answered : BOOLEAN]
        BY <1>13, StreamsTyped, BlockedTyped DEF TypeOK, Stop, Teardown, Credit, pumps, window, ledger
    <2>. QED BY <2>1, <2>2, <2>3, <2>4 DEF TypeOK
<1>14. CASE UNCHANGED vars
    BY <1>14 DEF TypeOK, vars, pumps, window, ledger
<1>. QED BY <1>1, <1>2, <1>3, <1>4, <1>5, <1>6, <1>7, <1>8, <1>9, <1>10, <1>11, <1>12, <1>13, <1>14 DEF Next

-----------------------------------------------------------------------------
(* Every step keeps the stamps right.                                      *)

LEMMA StampedStep ==
    ASSUME TypeOK, Stamped, [Next]_vars
    PROVE  Stamped'
<1>1. ASSUME Watch PROVE Stamped'
    BY <1>1, Numbers, StreamsTyped DEF Stamped, TypeOK, Watch, pumps, window, ledger
<1>2. ASSUME OtherArrive PROVE Stamped'
    BY <1>2, Numbers, StreamsTyped DEF Stamped, TypeOK, OtherArrive, pumps, window, ledger
<1>3. ASSUME OtherRead PROVE Stamped'
    BY <1>3, Numbers, StreamsTyped DEF Stamped, TypeOK, OtherRead, pumps, window, ledger
<1>4. ASSUME DataBlocked PROVE Stamped'
    BY <1>4, Numbers, StreamsTyped DEF Stamped, TypeOK, DataBlocked, pumps, window, ledger
<1>5. ASSUME Decide PROVE Stamped'
    BY <1>5, Numbers, StreamsTyped DEF Stamped, TypeOK, Decide, pumps, window, ledger
<1>6. ASSUME Signal PROVE Stamped'
    BY <1>6, Numbers, StreamsTyped DEF Stamped, TypeOK, Signal, pumps, window, ledger
<1>7. ASSUME Advance PROVE Stamped'
    BY <1>7, Numbers, StreamsTyped DEF Stamped, TypeOK, Advance, pumps, window, ledger
<1>8. ASSUME NEW s \in Streams, Arrive(s) PROVE Stamped'
    BY <1>8, Numbers, StreamsTyped DEF Stamped, TypeOK, Arrive, pumps, window, ledger
<1>9. ASSUME NEW s \in Streams, Read(s) PROVE Stamped'
    BY <1>9, Numbers, StreamsTyped DEF Stamped, TypeOK, Read, pumps, window, ledger
<1>10. ASSUME NEW s \in Streams, EnterWrite(s) PROVE Stamped'
    BY <1>10, Numbers, StreamsTyped DEF Stamped, TypeOK, EnterWrite, pumps, window, ledger
<1>11. ASSUME NEW s \in Streams, LeaveWrite(s) PROVE Stamped'
    BY <1>11, Numbers, StreamsTyped DEF Stamped, TypeOK, LeaveWrite, pumps, window, ledger
<1>12. ASSUME NEW s \in Streams, End(s) PROVE Stamped'
    BY <1>12, Numbers, StreamsTyped DEF Stamped, TypeOK, End, Teardown, pumps, window, ledger
<1>13. ASSUME NEW s \in Streams, Stop(s) PROVE Stamped'
    BY <1>13, Numbers, StreamsTyped DEF Stamped, TypeOK, Stop, Teardown, pumps, window, ledger
<1>14. CASE UNCHANGED vars
    BY <1>14 DEF Stamped, vars, pumps, window, ledger
<1>. QED BY <1>1, <1>2, <1>3, <1>4, <1>5, <1>6, <1>7, <1>8, <1>9, <1>10, <1>11, <1>12, <1>13, <1>14 DEF Next

-----------------------------------------------------------------------------
(* Every step keeps the evaluation on time.                                *)

LEMMA OnTimeStep ==
    ASSUME TypeOK, Stamped, OnTime, [Next]_vars
    PROVE  OnTime'
<1>1. ASSUME Watch PROVE OnTime'
    <2>1. ~evicted[opened + 1] /\ evicted' = evicted /\ chosen' = chosen /\ now' = now
        BY <1>1, Numbers, StreamsTyped DEF Stamped, Watch, Streams, ledger
    <2>2. CASE LedgerAlive
        BY <1>1, <2>1, <2>2 DEF OnTime, LedgerAlive, Watch, ledger
    <2>3. CASE ~LedgerAlive
        BY <1>1, <2>1, <2>3, Numbers, StreamsTyped DEF OnTime, LedgerAlive, Watch
    <2>. QED BY <2>2, <2>3
<1>2. ASSUME OtherArrive PROVE OnTime'
    BY <1>2, Numbers, StreamsTyped DEF OnTime, LedgerAlive, TypeOK, OtherArrive, pumps, window, ledger
<1>3. ASSUME OtherRead PROVE OnTime'
    BY <1>3, Numbers, StreamsTyped DEF OnTime, LedgerAlive, TypeOK, OtherRead, pumps, window, ledger
<1>4. ASSUME DataBlocked PROVE OnTime'
    BY <1>4, Numbers, StreamsTyped DEF OnTime, LedgerAlive, TypeOK, DataBlocked, pumps, window, ledger
<1>5. ASSUME Decide PROVE OnTime'
    BY <1>5, Numbers, StreamsTyped DEF OnTime, LedgerAlive, TypeOK, Decide, pumps, window, ledger
<1>6. ASSUME Signal PROVE OnTime'
    BY <1>6, Numbers, StreamsTyped DEF OnTime, LedgerAlive, TypeOK, Signal, pumps, window, ledger
<1>7. ASSUME Advance PROVE OnTime'
    BY <1>7, Numbers, StreamsTyped DEF OnTime, LedgerAlive, TypeOK, Advance, pumps, window, ledger
<1>8. ASSUME NEW s \in Streams, Arrive(s) PROVE OnTime'
    BY <1>8, Numbers, StreamsTyped DEF OnTime, LedgerAlive, TypeOK, Arrive, pumps, window, ledger
<1>9. ASSUME NEW s \in Streams, Read(s) PROVE OnTime'
    BY <1>9, Numbers, StreamsTyped DEF OnTime, LedgerAlive, TypeOK, Read, pumps, window, ledger
<1>10. ASSUME NEW s \in Streams, EnterWrite(s) PROVE OnTime'
    BY <1>10, Numbers, StreamsTyped DEF OnTime, LedgerAlive, TypeOK, EnterWrite, pumps, window, ledger
<1>11. ASSUME NEW s \in Streams, LeaveWrite(s) PROVE OnTime'
    BY <1>11, Numbers, StreamsTyped DEF OnTime, LedgerAlive, TypeOK, LeaveWrite, pumps, window, ledger
<1>12. ASSUME NEW s \in Streams, End(s) PROVE OnTime'
    BY <1>12, Numbers, StreamsTyped DEF OnTime, LedgerAlive, TypeOK, End, Teardown, pumps, window, ledger
<1>13. ASSUME NEW s \in Streams, Stop(s) PROVE OnTime'
    BY <1>13, Numbers, StreamsTyped DEF OnTime, LedgerAlive, TypeOK, Stop, Teardown, pumps, window, ledger
<1>14. CASE UNCHANGED vars
    BY <1>14 DEF OnTime, LedgerAlive, vars, pumps, window, ledger
<1>. QED BY <1>1, <1>2, <1>3, <1>4, <1>5, <1>6, <1>7, <1>8, <1>9, <1>10, <1>11, <1>12, <1>13, <1>14 DEF Next

-----------------------------------------------------------------------------
(* Every step keeps the stuck streams within the limit.                    *)

\* A step after which no more streams are stuck or left alone.
LEMMA Shrinks ==
    ASSUME TypeOK, Limited, Stuck' \subseteq Stuck,
           tracks' # {} => tracks # {} /\ LeftAlone' \subseteq LeftAlone
    PROVE  Limited'
<1>1. Stuck \in SUBSET Streams /\ LeftAlone \in SUBSET Streams /\ MaxStalled \in Nat
    BY StreamsTyped, Numbers DEF Stuck, LeftAlone
<1>2. Cardinality(Stuck') <= MaxStalled
    BY <1>1, Fewer DEF Limited, StuckWithinLimit
<1>3. tracks' # {} => Cardinality(LeftAlone') <= MaxStalled
    BY <1>1, Fewer DEF Limited
<1>. QED BY <1>2, <1>3 DEF Limited, StuckWithinLimit, MaxStalled

LEMMA LimitedStep ==
    ASSUME TypeOK, Stamped, OnTime, Limited, [Next]_vars
    PROVE  Limited'
<1>1. ASSUME Watch PROVE Limited'
    <2>1. /\ entered' = entered /\ now' = now /\ evicted' = evicted /\ chosen' = chosen
          /\ tracks' = tracks \union {opened + 1}
        BY <1>1 DEF Watch, ledger
    <2>2. entered[opened + 1] = Never
        BY <1>1, StreamsTyped, Numbers DEF Stamped, Watch, Streams
    <2>3. Stuck' \subseteq Stuck
        BY <2>1, <2>2 DEF Stuck
    <2>4. CASE tracks # {}
        <3>1. due' = due
            BY <1>1, <2>4 DEF Watch, LedgerAlive, ledger
        <3>2. LeftAlone' \subseteq LeftAlone
            BY <2>1, <2>2, <3>1 DEF LeftAlone
        <3>. QED BY <2>3, <2>4, <3>2, Shrinks
    <2>5. CASE tracks = {}
        <3>1. LeftAlone' = {} /\ Stuck' = {}
            BY <2>1, <2>2, <2>5 DEF LeftAlone, Stuck
        <3>. QED BY <3>1, FS_EmptySet, Numbers DEF Limited, StuckWithinLimit, MaxStalled
    <2>. QED BY <2>4, <2>5
<1>2. ASSUME OtherArrive PROVE Limited'
    <2>1. Stuck' \subseteq Stuck /\ LeftAlone' \subseteq LeftAlone /\ tracks' \subseteq tracks
        BY <1>2, StreamsTyped DEF OtherArrive, Stuck, LeftAlone, TypeOK, pumps, ledger
    <2>. QED BY <2>1, Shrinks
<1>3. ASSUME OtherRead PROVE Limited'
    <2>1. Stuck' \subseteq Stuck /\ LeftAlone' \subseteq LeftAlone /\ tracks' \subseteq tracks
        BY <1>3, StreamsTyped DEF OtherRead, Stuck, LeftAlone, TypeOK, pumps, ledger
    <2>. QED BY <2>1, Shrinks
<1>4. ASSUME DataBlocked PROVE Limited'
    <2>1. Stuck' \subseteq Stuck /\ LeftAlone' \subseteq LeftAlone /\ tracks' \subseteq tracks
        BY <1>4, StreamsTyped DEF DataBlocked, Stuck, LeftAlone, TypeOK, pumps, ledger
    <2>. QED BY <2>1, Shrinks
<1>5. ASSUME Decide PROVE Limited'
    <2>. DEFINE at == IF unseen THEN now ELSE rose
    <2>1. /\ chosen' = Choice(at) /\ due' = now + EvaluateInterval
          /\ now' = now /\ tracks' = tracks /\ evicted' = evicted /\ entered' = entered
        BY <1>5 DEF Decide, pumps
    <2>2. Stuck' = Stuck
        BY <2>1 DEF Stuck
    <2>. HIDE DEF at
    <2>3. now + EvaluateInterval - EvaluateInterval = now
        BY StreamsTyped, Numbers
    <2>4. LeftAlone' \subseteq Stalled \ Choice(at)
        BY <2>1, <2>3, StreamsTyped, Numbers DEF LeftAlone, Stalled
    <2>5. Stalled \ Choice(at) \in SUBSET Streams /\ MaxStalled \in Nat
        BY StreamsTyped, Numbers DEF Stalled
    <2>6. Cardinality(LeftAlone') <= MaxStalled
        BY <2>4, <2>5, ChoiceIsEnough, Fewer
    <2>. QED BY <2>2, <2>6 DEF Limited, StuckWithinLimit, MaxStalled
<1>6. ASSUME Signal PROVE Limited'
    <2>1. Stuck' = Stuck
        BY <1>6 DEF Signal, Stuck, pumps
    <2>2. LeftAlone' \subseteq LeftAlone
        BY <1>6, StreamsTyped DEF Signal, LeftAlone, pumps
    <2>. QED BY <1>6, <2>1, <2>2, Shrinks DEF Signal
<1>7. ASSUME Advance PROVE Limited'
    <2>1. /\ now' = now + 1 /\ tracks' = tracks /\ entered' = entered /\ due' = due
          /\ evicted' = evicted /\ chosen' = chosen /\ chosen = {}
          /\ \A s \in tracks : ~evicted[s]
          /\ tracks # {} => now + 1 <= due
        BY <1>7, StreamsTyped DEF Advance, pumps, ledger
    <2>2. LeftAlone' = LeftAlone
        BY <2>1 DEF LeftAlone
    <2>3. Stuck' \subseteq LeftAlone
        BY <2>1, StreamsTyped, Numbers DEF Stuck, LeftAlone
    <2>4. LeftAlone \in SUBSET Streams /\ MaxStalled \in Nat
        BY StreamsTyped, Numbers DEF LeftAlone
    <2>5. CASE tracks = {}
        <3>1. Stuck' = {}
            BY <2>1, <2>5 DEF Stuck
        <3>. QED BY <2>1, <2>5, <3>1, FS_EmptySet, <2>4 DEF Limited, StuckWithinLimit, MaxStalled
    <2>6. CASE tracks # {}
        <3>1. Cardinality(LeftAlone) <= MaxStalled
            BY <2>6 DEF Limited
        <3>2. Cardinality(Stuck') <= MaxStalled
            BY <2>3, <2>4, <3>1, Fewer
        <3>. QED BY <2>2, <3>1, <3>2 DEF Limited, StuckWithinLimit, MaxStalled
    <2>. QED BY <2>5, <2>6
<1>8. ASSUME NEW s \in Streams, Arrive(s) PROVE Limited'
    <2>1. Stuck' \subseteq Stuck /\ LeftAlone' \subseteq LeftAlone /\ tracks' \subseteq tracks
        BY <1>8, StreamsTyped DEF Arrive, Stuck, LeftAlone, TypeOK, pumps, ledger
    <2>. QED BY <2>1, Shrinks
<1>9. ASSUME NEW s \in Streams, Read(s) PROVE Limited'
    <2>1. Stuck' \subseteq Stuck /\ LeftAlone' \subseteq LeftAlone /\ tracks' \subseteq tracks
        BY <1>9, StreamsTyped DEF Read, Stuck, LeftAlone, TypeOK, pumps, ledger
    <2>. QED BY <2>1, Shrinks
<1>10. ASSUME NEW s \in Streams, EnterWrite(s) PROVE Limited'
    <2>1. /\ entered' = [entered EXCEPT ![s] = now]
          /\ now' = now /\ tracks' = tracks /\ evicted' = evicted /\ due' = due /\ chosen' = chosen
        BY <1>10 DEF EnterWrite, ledger
    <2>2. tracks # {} => due <= now + EvaluateInterval
        BY DEF OnTime, LedgerAlive
    <2>3. Stuck' \subseteq Stuck
        BY <2>1, StreamsTyped, Numbers DEF Stuck, TypeOK
    <2>4. LeftAlone' \subseteq LeftAlone
        BY <2>1, <2>2, StreamsTyped, Numbers DEF LeftAlone, TypeOK
    <2>. QED BY <2>1, <2>3, <2>4, Shrinks
<1>11. ASSUME NEW s \in Streams, LeaveWrite(s) PROVE Limited'
    <2>1. Stuck' \subseteq Stuck /\ LeftAlone' \subseteq LeftAlone /\ tracks' \subseteq tracks
        BY <1>11, StreamsTyped DEF LeaveWrite, Stuck, LeftAlone, TypeOK, pumps, ledger
    <2>. QED BY <2>1, Shrinks
<1>12. ASSUME NEW s \in Streams, End(s) PROVE Limited'
    <2>1. Stuck' \subseteq Stuck /\ LeftAlone' \subseteq LeftAlone /\ tracks' \subseteq tracks
        BY <1>12, StreamsTyped DEF End, Teardown, Stuck, LeftAlone, TypeOK, pumps, ledger
    <2>. QED BY <2>1, Shrinks
<1>13. ASSUME NEW s \in Streams, Stop(s) PROVE Limited'
    <2>1. Stuck' \subseteq Stuck /\ LeftAlone' \subseteq LeftAlone /\ tracks' \subseteq tracks
        BY <1>13, StreamsTyped DEF Stop, Teardown, Stuck, LeftAlone, TypeOK, pumps, ledger
    <2>. QED BY <2>1, Shrinks
<1>14. CASE UNCHANGED vars
    <2>1. Stuck' = Stuck /\ LeftAlone' = LeftAlone /\ tracks' = tracks
        BY <1>14 DEF Stuck, LeftAlone, vars, pumps, ledger
    <2>. QED BY <2>1, Shrinks
<1>. QED BY <1>1, <1>2, <1>3, <1>4, <1>5, <1>6, <1>7, <1>8, <1>9, <1>10, <1>11, <1>12, <1>13, <1>14 DEF Next

-----------------------------------------------------------------------------
(* Every step keeps what is known of an unanswered report.                 *)

\* A step that adds nothing to the report and moves neither the clock nor the
\* evaluation.
LEMMA Quiet ==
    ASSUME TypeOK, TypeOK', Remembered,
           blocked' = blocked \/ blocked' = NotBlocked,
           now' = now, due' = due, rose' = rose, unseen' = unseen, opened' = opened,
           tracks' \subseteq tracks,
           \A s \in Streams : entered'[s] = entered[s] \/ entered'[s] = Never
    PROVE  Remembered'
<1>1. CASE blocked' = NotBlocked
    BY <1>1 DEF Remembered, Pending, NotBlocked
<1>2. CASE blocked' = blocked
    <2>1. ASSUME NEW s \in Streams, Pending(s)'
          PROVE  Pending(s) /\ (StuckAtReport(s)' => StuckAtReport(s) /\ AnswerBy(s)' = AnswerBy(s))
        BY <1>2, <2>1 DEF Pending, StuckAtReport, AnswerBy, NotBlocked
    <2>. QED BY <1>2, <2>1 DEF Remembered, NotBlocked
<1>. QED BY <1>1, <1>2

\* A pending report is answered by an evaluation at which a stream of its own
\* counts as stalled.
LEMMA DecideAnswers ==
    ASSUME TypeOK, OnTime, Remembered, Decide,
           NEW s \in Streams, Pending(s), StuckAtReport(s), now >= entered[s] + StallAge,
           NEW at, at = IF unseen THEN now ELSE rose
    PROVE  Choice(at) # {}
<1>1. /\ s \in tracks /\ entered[s] \in Nat /\ entered[s] # Never
      /\ blocked.at \in Nat /\ now \in Nat /\ blocked.at <= now
    BY StreamsTyped DEF Pending, StuckAtReport, Remembered
<1>2. now = due /\ due \in Nat
    BY StreamsTyped DEF Decide
<1>3. ~evicted[s]
    BY <1>1, <1>2, Numbers DEF OnTime
<1>4. s \in Stalled
    BY <1>1, <1>3, Numbers DEF Stalled
<1>5. now <= AnswerBy(s)
    BY <1>2 DEF Remembered
<1>6. now <= blocked.at + DataBlockedMemory
    BY <1>1, <1>5, Numbers DEF AnswerBy, StuckAtReport
<1>7. at # Never /\ at \in Nat /\ blocked.at <= at
    <2>1. CASE unseen
        BY <1>1, <2>1, Numbers
    <2>2. CASE ~unseen
        BY <2>2, StreamsTyped DEF Remembered
    <2>. QED BY <2>1, <2>2
<1>8. now - at <= DataBlockedMemory
    BY <1>1, <1>6, <1>7, Numbers
<1>9. SUFFICES ASSUME Choice(at) = {} PROVE FALSE
    OBVIOUS
<1>10. Cardinality(Stalled) <= MaxStalled
    <2>1. Stalled \ Choice(at) = Stalled
        BY <1>9
    <2>. QED BY <2>1, ChoiceIsEnough
<1>11. Cardinality(Stalled) \in Nat /\ MaxStalled \in Nat
    <2>1. Stalled \in SUBSET Streams
        BY StreamsTyped DEF Stalled
    <2>. QED BY <2>1, FewStreams, Numbers
<1>12. Choice(at) = Oldest(1)
    BY <1>7, <1>8, <1>10, <1>11 DEF Choice
<1>. QED BY <1>4, <1>9, <1>12, OldestExists

LEMMA RememberedStep ==
    ASSUME TypeOK, TypeOK', Stamped, OnTime, Remembered, [Next]_vars
    PROVE  Remembered'
<1>1. ASSUME Watch PROVE Remembered'
    <2>1. /\ blocked' = blocked /\ entered' = entered /\ now' = now /\ opened' = opened + 1
          /\ tracks' = tracks \union {opened + 1}
          /\ tracks # {} => rose' = rose /\ unseen' = unseen /\ due' = due
        BY <1>1 DEF Watch, LedgerAlive, window, ledger
    <2>2. blocked # NotBlocked => opened + 1 \notin blocked.watched /\ blocked.watched \subseteq 1..(opened + 1)
        BY StreamsTyped DEF Remembered
    <2>3. ASSUME NEW s \in Streams, Pending(s)'
          PROVE  /\ Pending(s) /\ tracks # {}
                 /\ StuckAtReport(s)' => StuckAtReport(s) /\ AnswerBy(s)' = AnswerBy(s)
        BY <2>1, <2>2, <2>3 DEF Pending, StuckAtReport, AnswerBy, NotBlocked
    <2>. QED BY <2>1, <2>2, <2>3 DEF Remembered, NotBlocked
<1>2. ASSUME OtherArrive PROVE Remembered'
    BY <1>2, Quiet DEF OtherArrive, TypeOK, pumps, window, ledger
<1>3. ASSUME OtherRead PROVE Remembered'
    BY <1>3, Quiet DEF OtherRead, Credit, TypeOK, pumps, window, ledger
<1>4. ASSUME DataBlocked PROVE Remembered'
    <2>1. /\ blocked' = [at |-> now, watched |-> tracks, answered |-> FALSE] /\ unseen' = TRUE
          /\ now' = now /\ opened' = opened /\ tracks' = tracks /\ due' = due /\ entered' = entered
        BY <1>4 DEF DataBlocked, pumps
    <2>2. now # Never /\ now <= now /\ tracks \subseteq 1..opened
        BY StreamsTyped, Numbers DEF TypeOK
    <2>3. ASSUME NEW s \in Streams, Pending(s)', StuckAtReport(s)'
          PROVE  due <= AnswerBy(s)'
        <3>1. s \in tracks /\ entered[s] # Never /\ blocked'.at = now
            BY <2>1, <2>3 DEF Pending, StuckAtReport
        <3>2. due <= now + EvaluateInterval
            BY <3>1 DEF OnTime, LedgerAlive
        <3>. QED BY <2>1, <3>1, <3>2, StreamsTyped, Numbers DEF AnswerBy
    <2>. QED BY <2>1, <2>2, <2>3 DEF Remembered, NotBlocked
<1>5. ASSUME Decide PROVE Remembered'
    <2>. DEFINE at == IF unseen THEN now ELSE rose
    <2>1. /\ rose' = (IF Choice(at) # {} THEN Never ELSE at) /\ unseen' = FALSE
          /\ due' = now + EvaluateInterval
          /\ blocked' = [blocked EXCEPT !.answered = @ \/ (blocked # NotBlocked /\ Choice(at) # {})]
          /\ now' = now /\ opened' = opened /\ tracks' = tracks /\ entered' = entered
        BY <1>5 DEF Decide, pumps
    <2>2. /\ blocked'.at = blocked.at /\ blocked'.watched = blocked.watched
          /\ blocked'.answered = (blocked.answered \/ (blocked # NotBlocked /\ Choice(at) # {}))
        BY <2>1 DEF TypeOK
    <2>3. blocked' # NotBlocked => blocked # NotBlocked
        <3>. SUFFICES ASSUME blocked = NotBlocked PROVE blocked' = NotBlocked
            OBVIOUS
        <3>1. (blocked.answered \/ (blocked # NotBlocked /\ Choice(at) # {})) = FALSE
            BY DEF NotBlocked
        <3>2. blocked' = [blocked EXCEPT !.answered = FALSE]
            BY <2>1, <3>1
        <3>. QED BY <3>2 DEF NotBlocked
    <2>. HIDE DEF at
    <2>4. ASSUME NEW s \in Streams, Pending(s)'
          PROVE  Pending(s) /\ Choice(at) = {}
        BY <2>1, <2>2, <2>3, <2>4 DEF Pending, NotBlocked
    <2>5. ASSUME NEW s \in Streams, Pending(s)'
          PROVE  rose' # Never /\ blocked'.at <= rose'
        <3>1. Pending(s) /\ rose' = at /\ blocked # NotBlocked
            BY <2>1, <2>4, <2>5 DEF Pending
        <3>2. CASE unseen
            BY <2>2, <3>1, <3>2, StreamsTyped, Numbers DEF at, Remembered
        <3>3. CASE ~unseen
            BY <2>2, <3>1, <3>3 DEF at, Remembered
        <3>. QED BY <3>2, <3>3
    <2>6. ASSUME NEW s \in Streams, Pending(s)', StuckAtReport(s)'
          PROVE  due' <= AnswerBy(s)'
        <3>1. /\ Pending(s) /\ Choice(at) = {} /\ StuckAtReport(s)
              /\ AnswerBy(s)' = AnswerBy(s)
            BY <2>1, <2>2, <2>4, <2>6 DEF StuckAtReport, AnswerBy
        <3>2. ~(now >= entered[s] + StallAge)
            BY <1>5, <3>1, DecideAnswers DEF at
        <3>3. entered[s] \in Nat /\ blocked.at \in Nat /\ now \in Nat
            BY <3>1, StreamsTyped DEF StuckAtReport, Remembered, Pending
        <3>. QED BY <2>1, <3>1, <3>2, <3>3, Numbers DEF AnswerBy
    <2>. QED BY <2>1, <2>2, <2>3, <2>5, <2>6 DEF Remembered, NotBlocked
<1>6. ASSUME Signal PROVE Remembered'
    BY <1>6, Quiet DEF Signal, TypeOK, pumps, window, ledger
<1>7. ASSUME Advance PROVE Remembered'
    <2>1. /\ now' = now + 1 /\ tracks' = tracks /\ entered' = entered /\ due' = due
          /\ blocked' = blocked /\ rose' = rose /\ unseen' = unseen /\ opened' = opened
        BY <1>7 DEF Advance, pumps, ledger, window
    <2>2. blocked # NotBlocked => blocked.at <= now + 1
        BY StreamsTyped DEF Remembered
    <2>3. ASSUME NEW s \in Streams, Pending(s)'
          PROVE  Pending(s) /\ (StuckAtReport(s)' => StuckAtReport(s) /\ AnswerBy(s)' = AnswerBy(s))
        BY <2>1, <2>3 DEF Pending, StuckAtReport, AnswerBy, NotBlocked
    <2>. QED BY <2>1, <2>2, <2>3 DEF Remembered, NotBlocked
<1>8. ASSUME NEW s \in Streams, Arrive(s) PROVE Remembered'
    BY <1>8, Quiet DEF Arrive, TypeOK, pumps, window, ledger
<1>9. ASSUME NEW s \in Streams, Read(s) PROVE Remembered'
    BY <1>9, Quiet DEF Read, Credit, TypeOK, pumps, window, ledger
<1>10. ASSUME NEW s \in Streams, EnterWrite(s) PROVE Remembered'
    <2>1. /\ entered' = [entered EXCEPT ![s] = now]
          /\ now' = now /\ tracks' = tracks /\ due' = due /\ blocked' = blocked
          /\ rose' = rose /\ unseen' = unseen /\ opened' = opened
        BY <1>10 DEF EnterWrite, ledger, window
    <2>2. ASSUME NEW r \in Streams, Pending(r)'
          PROVE  Pending(r)
        BY <2>1, <2>2 DEF Pending, NotBlocked
    <2>3. ASSUME NEW r \in Streams, Pending(r)', StuckAtReport(r)'
          PROVE  due <= AnswerBy(r)'
        <3>1. CASE r = s
            <4>1. due <= now + EvaluateInterval
                BY <2>2, <2>3 DEF OnTime, LedgerAlive, Pending
            <4>2. entered'[r] = now /\ blocked.at \in Nat
                BY <2>1, <2>2, <2>3, <3>1, StreamsTyped DEF TypeOK, Pending, Remembered
            <4>. QED BY <2>1, <4>1, <4>2, StreamsTyped, Numbers DEF AnswerBy
        <3>2. CASE r # s
            BY <2>1, <2>2, <2>3, <3>2 DEF Remembered, StuckAtReport, AnswerBy, TypeOK
        <3>. QED BY <3>1, <3>2
    <2>. QED BY <2>1, <2>2, <2>3 DEF Remembered, NotBlocked
<1>11. ASSUME NEW s \in Streams, LeaveWrite(s) PROVE Remembered'
    BY <1>11, Quiet DEF LeaveWrite, TypeOK, pumps, window, ledger
<1>12. ASSUME NEW s \in Streams, End(s) PROVE Remembered'
    BY <1>12, Quiet DEF End, Teardown, Credit, TypeOK, pumps, window, ledger
<1>13. ASSUME NEW s \in Streams, Stop(s) PROVE Remembered'
    BY <1>13, Quiet DEF Stop, Teardown, Credit, TypeOK, pumps, window, ledger
<1>14. CASE UNCHANGED vars
    BY <1>14, Quiet DEF vars, pumps, window, ledger
<1>. QED BY <1>1, <1>2, <1>3, <1>4, <1>5, <1>6, <1>7, <1>8, <1>9, <1>10, <1>11, <1>12, <1>13, <1>14 DEF Next

-----------------------------------------------------------------------------
(* The theorems.                                                           *)

LEMMA InitLedgerInv == Init => LedgerInv
<1>. SUFFICES ASSUME Init PROVE LedgerInv
    OBVIOUS
<1>1. TypeOK
    <2>1. /\ now \in Times /\ opened \in 0..MaxStreams /\ tracks \subseteq 1..opened
          /\ held \in [Streams -> 0..StreamWindow] /\ other \in Nat
          /\ due \in 0..(MaxTime + EvaluateInterval) /\ chosen \subseteq 1..opened
        BY Numbers DEF Init, Times
    <2>2. /\ entered \in [Streams -> Times \union {Never}] /\ evicted \in [Streams -> BOOLEAN]
          /\ pump \in [Streams -> Phases] /\ waiting \in [Streams -> Times \union {Never}]
          /\ rose \in Times \union {Never} /\ unseen \in BOOLEAN
        BY DEF Init, Phases
    <2>3. blocked \in [at : Times \union {Never}, watched : SUBSET Streams, answered : BOOLEAN]
        BY DEF Init, NotBlocked
    <2>. QED BY <2>1, <2>2, <2>3 DEF TypeOK
<1>2. Stamped /\ OnTime /\ Remembered
    BY Numbers DEF Init, Stamped, OnTime, LedgerAlive, Remembered, Pending, Streams
<1>3. Stuck = {} /\ MaxStalled \in Nat
    BY Numbers DEF Init, Stuck
<1>4. Limited
    BY <1>3, FS_EmptySet DEF Init, Limited, StuckWithinLimit
<1>. QED BY <1>1, <1>2, <1>4 DEF LedgerInv

LEMMA NextLedgerInv == LedgerInv /\ [Next]_vars => LedgerInv'
BY TypeStep, StampedStep, OnTimeStep, LimitedStep, RememberedStep DEF LedgerInv

(* The inductive invariant holds throughout.                               *)
THEOREM LedgerInvariant == Spec => []LedgerInv
BY InitLedgerInv, NextLedgerInv, PTL DEF Spec

(* However streams open, stall, drain and end between the evaluations of   *)
(* evaluate_loop, no more than MAX_STALLED_STREAMS_PER_CONNECTION of them  *)
(* stay stuck beyond the stall age and an interval, for any windows.       *)
THEOREM LimitHolds == Spec => []StuckWithinLimit
<1>1. LedgerInv => StuckWithinLimit
    BY DEF LedgerInv, Limited
<1>. QED BY <1>1, LedgerInvariant, PTL

(* decide never chooses a stream that is idle or whose consumer has taken  *)
(* bytes within the stall age.                                             *)
THEOREM TheSlowAreSpared == Spec => SlowIsSpared
<1>1. ASSUME LedgerInv, [Next]_vars
      PROVE  [\A s \in chosen' \ chosen :
                /\ pump[s] = "write"
                /\ waiting[s] # Never /\ now - waiting[s] >= StallAge]_vars
    <2>1. ASSUME NEW s \in chosen' \ chosen
          PROVE  /\ pump[s] = "write"
                 /\ waiting[s] # Never /\ now - waiting[s] >= StallAge
        <3>1. Decide
            BY <1>1, <2>1 DEF Next, Watch, OtherArrive, OtherRead, DataBlocked, Signal, Advance,
                Arrive, Read, EnterWrite, LeaveWrite, End, Stop, Teardown, ledger, vars
        <3>2. s \in Stalled /\ s \in Streams
            BY <1>1, <2>1, <3>1, ChoiceIsEnough, StreamsTyped DEF Decide, Stalled, LedgerInv
        <3>. QED BY <1>1, <3>2 DEF LedgerInv, Stamped, Stalled
    <2>. QED BY <2>1
<1>. QED BY <1>1, LedgerInvariant, PTL DEF Spec, SlowIsSpared

(* A rise of the peer's DATA_BLOCKED count is remembered until the         *)
(* evaluation that can act on it, which then chooses a stream.             *)
THEOREM RisesAreHeard == Spec => []RiseIsHeard
<1>1. LedgerInv => RiseIsHeard
    <2>. SUFFICES ASSUME LedgerInv, NEW s \in Streams, blocked # NotBlocked, StuckAtReport(s),
                         now > AnswerBy(s), ~blocked.answered
                  PROVE  FALSE
        BY DEF RiseIsHeard
    <2>1. Pending(s) /\ due <= AnswerBy(s)
        BY DEF LedgerInv, Remembered, Pending, StuckAtReport
    <2>2. now <= due
        BY <2>1 DEF LedgerInv, OnTime, LedgerAlive, Pending
    <2>3. TypeOK /\ entered[s] \in Nat /\ blocked.at \in Nat
        BY StreamsTyped DEF LedgerInv, Remembered, StuckAtReport
    <2>. QED BY <2>1, <2>2, <2>3, StreamsTyped, Numbers DEF AnswerBy
<1>. QED BY <1>1, LedgerInvariant, PTL
=============================================================================
