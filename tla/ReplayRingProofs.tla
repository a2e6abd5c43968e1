-------------------------- MODULE ReplayRingProofs --------------------------
(***************************************************************************)
(* The replay ring's shape, the safety of its read loop, its byte budget   *)
(* and that it implements the log of OutputLog, for every budget, chunk    *)
(* size, control cost and number of consumers.                             *)
(*                                                                         *)
(* Facts about recursive functions (what a deque costs, which items a      *)
(* sequence of events stands for) are proved by a least counterexample.    *)
(***************************************************************************)
EXTENDS ReplayRing, TLAPS, WellFoundedInduction, SequenceTheorems, FiniteSetTheorems

LtNat == {ss \in Nat \X Nat : ss[1] < ss[2]}

\* A nonempty set of naturals has a least element, and Min returns it.
LEMMA MinOfNats ==
    ASSUME NEW S \in SUBSET Nat, S # {}
    PROVE  /\ Min(S) \in S
           /\ \A y \in S : Min(S) <= y
<1>1. IsWellFoundedOn(LtNat, Nat)
  BY NatLessThanWellFounded DEF OpToRel, LtNat
<1>2. \E x \in S : \A y \in S : ~(<<y, x>> \in LtNat)
  BY <1>1, WFMin
<1>3. PICK x \in S : \A y \in S : ~(<<y, x>> \in LtNat)
  BY <1>2
<1>4. \A y \in S : x <= y
  <2>1. TAKE y \in S
  <2>2. x \in Nat /\ y \in Nat
    OBVIOUS
  <2>3. ~(y < x)
    BY <1>3, <2>2 DEF LtNat
  <2> QED
    BY <2>2, <2>3
<1> QED
  BY <1>4 DEF Min

\* Tail drops the first element and shifts the others.
LEMMA TailFacts ==
    ASSUME NEW T, NEW s \in Seq(T), s # <<>>
    PROVE  /\ Tail(s) \in Seq(T)
           /\ Len(s) \in Nat \ {0}
           /\ Len(Tail(s)) = Len(s) - 1
           /\ \A i \in 1..(Len(s) - 1) : Tail(s)[i] = s[i + 1]
  OBVIOUS

\* RemoveAt keeps what is before the index and shifts what is after it.
LEMMA RemoveAtFacts ==
    ASSUME NEW T, NEW s \in Seq(T), NEW i \in 1..Len(s)
    PROVE  /\ RemoveAt(s, i) \in Seq(T)
           /\ Len(RemoveAt(s, i)) = Len(s) - 1
           /\ \A j \in 1..(Len(s) - 1) :
                RemoveAt(s, i)[j] = IF j < i THEN s[j] ELSE s[j + 1]
<1> DEFINE a == SubSeq(s, 1, i - 1)
           b == SubSeq(s, i + 1, Len(s))
<1>0. i \in Nat /\ Len(s) \in Nat /\ 1 <= i /\ i <= Len(s)
  OBVIOUS
<1>1. /\ a \in Seq(T)
      /\ Len(a) = i - 1
      /\ \A j \in 1..(i - 1) : a[j] = s[j]
  BY <1>0
<1>2. /\ b \in Seq(T)
      /\ Len(b) = Len(s) - i
      /\ \A j \in 1..(Len(s) - i) : b[j] = s[i + j]
  BY <1>0
<1> HIDE DEF a, b
<1>3. /\ a \o b \in Seq(T)
      /\ Len(a \o b) = Len(a) + Len(b)
      /\ \A j \in 1..(Len(a) + Len(b)) :
           (a \o b)[j] = IF j <= Len(a) THEN a[j] ELSE b[j - Len(a)]
  BY <1>1, <1>2, ConcatProperties
<1>4. RemoveAt(s, i) = a \o b
  BY DEF RemoveAt, a, b
<1>5. \A j \in 1..(Len(s) - 1) : (a \o b)[j] = IF j < i THEN s[j] ELSE s[j + 1]
  <2>1. TAKE j \in 1..(Len(s) - 1)
  <2>0. j \in 1..(Len(a) + Len(b))
    BY <1>0, <1>1, <1>2
  <2>1a. (a \o b)[j] = IF j <= Len(a) THEN a[j] ELSE b[j - Len(a)]
    BY <1>3, <2>0
  <2>2. CASE j < i
    BY <1>0, <1>1, <2>1a, <2>2
  <2>3. CASE ~(j < i)
    <3>1. j - Len(a) \in 1..(Len(s) - i) /\ ~(j <= Len(a)) /\ i + (j - Len(a)) = j + 1
      BY <1>0, <1>1, <2>3
    <3>2. b[j - Len(a)] = s[i + (j - Len(a))]
      BY <1>2, <3>1
    <3> QED
      BY <2>1a, <2>3, <3>1, <3>2
  <2> QED
    BY <2>2, <2>3
<1>6. Len(a \o b) = Len(s) - 1
  BY <1>0, <1>1, <1>2, <1>3
<1> QED
  BY <1>3, <1>4, <1>5, <1>6


-----------------------------------------------------------------------------
(* Facts about the state *)

\* An entry never ends before its position.
LEMMA EntryEndFacts ==
    ASSUME NEW e \in Entry
    PROVE  EntryEnd(e) \in Nat /\ e.pos <= EntryEnd(e) /\ (e.kind = "out" => e.pos < EntryEnd(e))
  BY DEF Entry, EntryEnd

\* The types of the ring's entries, entry by entry.
LEMMA EntriesFacts ==
    ASSUME TypeOK
    PROVE  /\ entries \in Seq(Entry) /\ Len(entries) \in Nat /\ DOMAIN entries = 1..Len(entries)
           /\ \A i \in 1..Len(entries) :
                /\ entries[i] \in Entry /\ entries[i].kind \in {"out", "ctl"}
                /\ entries[i].pos \in Nat /\ entries[i].n \in Nat \ {0}
                /\ EntryEnd(entries[i]) \in Nat /\ entries[i].pos <= EntryEnd(entries[i])
<1>1. entries \in Seq(Entry) /\ Len(entries) \in Nat /\ DOMAIN entries = 1..Len(entries)
  BY DEF TypeOK
<1>2. \A i \in 1..Len(entries) : entries[i] \in Entry
  BY <1>1
<1>3. \A e \in Entry : e.kind \in {"out", "ctl"} /\ e.pos \in Nat /\ e.n \in Nat \ {0}
  BY DEF Entry
<1> QED
  BY <1>1, <1>2, <1>3, EntryEndFacts

\* What AvailableFrom and Min(Outputs) stand for in an ordered ring.
LEMMA AvailableFromFacts ==
    ASSUME TypeOK, Ordered
    PROVE  /\ AvailableFrom \in Nat /\ AvailableFrom <= end
           /\ Outputs # {} => /\ Min(Outputs) \in 1..Len(entries)
                              /\ entries[Min(Outputs)].kind = "out"
                              /\ \A j \in 1..(Min(Outputs) - 1) : entries[j].kind = "ctl"
           /\ \A i \in DOMAIN entries :
                (\A k \in 1..(i - 1) : entries[k].kind = "ctl") => entries[i].pos <= AvailableFrom
<1>0. entries \in Seq(Entry) /\ end \in Nat /\ DOMAIN entries = 1..Len(entries) /\ Len(entries) \in Nat
  BY DEF TypeOK
<1>1. \A i \in 1..Len(entries) : entries[i] \in Entry
  BY <1>0
<1>2. \A i \in 1..Len(entries) : entries[i].pos \in Nat /\ entries[i].pos <= end
  BY <1>0, <1>1, EntryEndFacts DEF Ordered, Entry
<1>3. CASE Outputs = {}
  BY <1>0, <1>2, <1>3 DEF AvailableFrom
<1>4. CASE Outputs # {}
  <2> DEFINE m == Min(Outputs)
  <2>1. Outputs \in SUBSET Nat
    BY <1>0 DEF Outputs
  <2>2. m \in Outputs /\ \A y \in Outputs : m <= y
    BY <1>4, <2>1, MinOfNats
  <2> HIDE DEF m
  <2>3. m \in 1..Len(entries) /\ entries[m].kind = "out"
    BY <1>0, <2>2 DEF Outputs
  <2>4. \A j \in 1..(m - 1) : entries[j].kind = "ctl"
    <3>1. TAKE j \in 1..(m - 1)
    <3>2. j \in 1..Len(entries) /\ j < m
      BY <1>0, <2>3
    <3>3. j \notin Outputs
      BY <2>2, <2>1, <3>2
    <3> QED
      BY <1>0, <1>1, <3>2, <3>3 DEF Outputs, Entry
  <2>5. AvailableFrom = entries[m].pos
    BY <1>4 DEF AvailableFrom, m
  <2>6. ASSUME NEW i \in DOMAIN entries, \A k \in 1..(i - 1) : entries[k].kind = "ctl"
        PROVE  entries[i].pos <= AvailableFrom
    <3>1. i <= m
      <4>1. SUFFICES ASSUME m < i PROVE FALSE
        BY <1>0, <2>3
      <4>2. m \in 1..(i - 1)
        BY <1>0, <2>3, <4>1
      <4> QED
        BY <2>3, <2>6, <4>2
    <3>2. CASE i = m
      BY <1>2, <2>3, <2>5, <3>2
    <3>3. CASE i < m
      <4>1. EntryEnd(entries[i]) <= entries[m].pos
        BY <1>0, <2>3, <3>3 DEF Ordered
      <4>2. entries[i].pos <= EntryEnd(entries[i]) /\ EntryEnd(entries[i]) \in Nat /\ entries[i].pos \in Nat
        BY <1>0, <1>1, <1>2, EntryEndFacts
      <4> QED
        BY <1>2, <2>3, <2>5, <4>1, <4>2
    <3> QED
      BY <1>0, <2>3, <3>1, <3>2, <3>3
  <2> QED
    BY <1>2, <2>3, <2>4, <2>5, <2>6 DEF m
<1> QED
  BY <1>3, <1>4

\* Dividing naturals gives a natural.
LEMMA DivNat ==
    ASSUME NEW a \in Nat, NEW b \in Nat \ {0}
    PROVE  a \div b \in Nat
  OBVIOUS

\* A chunk size is at least one byte.
LEMMA PieceMaxFacts ==
    ASSUME TypeOK
    PROVE  PieceMax \in Nat \ {0}
<1>1. budget \div ChunkDivisor \in Nat
  BY RingConstants, DivNat DEF TypeOK
<1> QED
  BY <1>1, RingConstants DEF PieceMax, Lesser, AtLeastOne

\* The initial state satisfies the inductive invariant.
LEMMA InitIInv == Init => IInv
<1> SUFFICES ASSUME Init PROVE IInv
  OBVIOUS
<1>1. TypeOK
  BY RingConstants DEF Init, TypeOK, AtLeastOne, NoLoss, Phases, Cursors, FromOffset
<1>2. RingShape
  BY DEF Init, RingShape, Ordered, Contiguous, CtlOrder
<1>3. CursorsValid /\ ReadPosition
  BY DEF Init, CursorsValid, ReadPosition, FromOffset, NoLoss
<1> QED
  BY <1>1, <1>2, <1>3 DEF IInv

-----------------------------------------------------------------------------
(* The write side *)

\* Push only takes the mutex.
LEMMA PushIInv ==
    ASSUME IInv, NEW n \in 1..MaxPush, Push(n)
    PROVE  IInv'
<1>1. TypeOK'
  BY RingConstants DEF IInv, Push, TypeOK, ringVars, Phases
<1>2. RingShape'
  BY DEF IInv, Push, RingShape, Ordered, Contiguous, CtlOrder, ringVars, EntryEnd
<1>3. CursorsValid' /\ ReadPosition'
  BY DEF IInv, Push, CursorsValid, ReadPosition, ringVars
<1> QED
  BY <1>1, <1>2, <1>3 DEF IInv

\* Starting a chunk or a control at the end keeps the ring's shape.
LEMMA AppendShape ==
    ASSUME TypeOK, RingShape, phase # "trim", NEW e \in Entry, e.pos = end,
           entries' = Append(entries, e), end' = EntryEnd(e),
           nextCtl' \in Nat, nextCtl <= nextCtl', e.kind = "ctl" => nextCtl <= e.n /\ e.n < nextCtl'
    PROVE  RingShape' /\ entries' \in Seq(Entry)
<1> DEFINE L == Len(entries)
<1>0. /\ entries \in Seq(Entry) /\ L \in Nat /\ end \in Nat /\ DOMAIN entries = 1..L
      /\ nextCtl \in Nat
  BY DEF TypeOK
<1>1. /\ entries' \in Seq(Entry) /\ Len(entries') = L + 1 /\ DOMAIN entries' = 1..(L + 1)
      /\ \A i \in 1..L : entries'[i] = entries[i]
      /\ entries'[L + 1] = e
  BY <1>0
<1>2. /\ \A i \in 1..L : entries[i] \in Entry
      /\ EntryEnd(e) \in Nat /\ end <= EntryEnd(e)
  BY <1>0, EntryEndFacts
<1>3. \A i \in 1..L : /\ EntryEnd(entries[i]) \in Nat /\ entries[i].pos \in Nat
                      /\ entries[i].n \in Nat
  BY <1>2, EntryEndFacts DEF Entry
<1> HIDE DEF L
<1>4. Ordered'
  <2>1. ASSUME NEW i \in 1..(L + 1), NEW j \in 1..(L + 1), i < j
        PROVE  EntryEnd(entries'[i]) <= entries'[j].pos
    <3>1. CASE j \in 1..L
      <4>1. i \in 1..L
        BY <1>0, <2>1, <3>1
      <4> QED
        BY <1>0, <1>1, <2>1, <3>1, <4>1 DEF RingShape, Ordered
    <3>2. CASE j = L + 1
      <4>1. i \in 1..L
        BY <1>0, <2>1, <3>2
      <4> QED
        BY <1>0, <1>1, <3>2, <4>1 DEF RingShape, Ordered
    <3> QED
      BY <1>0, <3>1, <3>2
  <2>2. ASSUME NEW i \in 1..(L + 1)
        PROVE  EntryEnd(entries'[i]) <= end'
    <3>1. CASE i \in 1..L
      <4>1. EntryEnd(entries[i]) <= end
        BY <1>0, <3>1 DEF RingShape, Ordered
      <4> QED
        BY <1>0, <1>1, <1>2, <1>3, <3>1, <4>1
    <3>2. CASE i = L + 1
      BY <1>1, <1>2, <3>2
    <3> QED
      BY <1>0, <3>1, <3>2
  <2> QED
    BY <1>1, <2>1, <2>2 DEF Ordered, EntryEnd
<1>5. Contiguous'
  <2>1. ASSUME NEW i \in 1..(L + 1), i < L + 1
        PROVE  EntryEnd(entries'[i]) = entries'[i + 1].pos
    <3>1. i \in 1..L
      BY <1>0, <2>1
    <3>2. CASE i < L
      <4>1. i + 1 \in 1..L
        BY <1>0, <3>1, <3>2
      <4>2. EntryEnd(entries[i]) = entries[i + 1].pos
        BY <1>0, <3>1, <3>2 DEF RingShape, Contiguous, L
      <4> QED
        BY <1>1, <3>1, <4>1, <4>2
    <3>3. CASE i = L
      <4>1. EntryEnd(entries[L]) = end
        BY <1>0, <3>1, <3>3 DEF RingShape, Contiguous, L
      <4> QED
        BY <1>1, <3>1, <3>3, <4>1
    <3> QED
      BY <1>0, <3>1, <3>2, <3>3
  <2>2. EntryEnd(entries'[L + 1]) = end'
    BY <1>1
  <2> QED
    BY <1>1, <2>1, <2>2 DEF Contiguous, EntryEnd
<1>6. CtlOrder'
  <2>1. ASSUME NEW i \in 1..(L + 1), entries'[i].kind = "ctl"
        PROVE  entries'[i].n < nextCtl' /\ (i \in 1..L => entries'[i].n < nextCtl)
    <3>1. CASE i \in 1..L
      BY <1>0, <1>1, <1>3, <2>1, <3>1 DEF RingShape, CtlOrder
    <3>2. CASE i = L + 1
      BY <1>0, <1>1, <2>1, <3>2
    <3> QED
      BY <1>0, <3>1, <3>2
  <2>2. ASSUME NEW i \in 1..(L + 1), NEW j \in 1..(L + 1), i < j,
               entries'[i].kind = "ctl", entries'[j].kind = "ctl"
        PROVE  entries'[i].n < entries'[j].n
    <3>0. i \in 1..L
      BY <1>0, <2>2
    <3>1. CASE j \in 1..L
      BY <1>0, <1>1, <2>2, <3>0, <3>1 DEF RingShape, CtlOrder
    <3>2. CASE j = L + 1
      <4>1. entries[i].n < nextCtl /\ nextCtl <= e.n /\ e.n \in Nat /\ entries[i].n \in Nat
        BY <1>1, <1>3, <2>1, <2>2, <3>0, <3>2 DEF Entry
      <4> QED
        BY <1>0, <1>1, <3>0, <3>2, <4>1
    <3> QED
      BY <1>0, <3>1, <3>2
  <2> QED
    BY <1>1, <2>1, <2>2 DEF CtlOrder
<1> QED
  BY <1>1, <1>4, <1>5, <1>6 DEF RingShape

\* Growing the newest chunk, which ends at the end, keeps the ring's shape.
LEMMA CoalesceShape ==
    ASSUME TypeOK, RingShape, phase # "trim", HasRoom, NEW n \in Nat,
           entries' = Coalesce(n), end' = end + n, nextCtl' = nextCtl
    PROVE  RingShape' /\ entries' \in Seq(Entry)
<1> DEFINE L == Len(entries)
<1>0. /\ entries \in Seq(Entry) /\ L \in Nat /\ end \in Nat /\ DOMAIN entries = 1..L
      /\ L \in 1..L /\ nextCtl \in Nat
  BY EmptySeq DEF TypeOK, HasRoom
<1>1. \A i \in 1..L : /\ entries[i] \in Entry /\ EntryEnd(entries[i]) \in Nat
                      /\ entries[i].pos \in Nat /\ entries[i].n \in Nat \ {0}
  BY EntriesFacts
<1> DEFINE g == Out(entries[L].pos, entries[L].n + n)
<1>2. g \in Entry /\ g.kind = "out" /\ g.pos = entries[L].pos
  BY <1>0, <1>1, SMTT(30) DEF Out, Entry
<1>3. EntryEnd(g) = EntryEnd(entries[L]) + n
  BY <1>0, <1>1 DEF HasRoom, Out, EntryEnd
<1>4. /\ entries' \in Seq(Entry) /\ Len(entries') = L /\ DOMAIN entries' = 1..L
      /\ \A i \in 1..L : i # L => entries'[i] = entries[i]
      /\ entries'[L] = g
  <2>1. entries' = [entries EXCEPT ![L] = g]
    BY DEF Coalesce
  <2>2. /\ [entries EXCEPT ![L] = g] \in Seq(Entry)
        /\ Len([entries EXCEPT ![L] = g]) = L
        /\ \A j \in 1..L : [entries EXCEPT ![L] = g][j] = IF j = L THEN g ELSE entries[j]
    <3> HIDE DEF g
    <3> QED
      BY <1>0, <1>2, ExceptSeq
  <2> HIDE DEF g
  <2>3. DOMAIN entries' = 1..Len(entries')
    BY <2>1, <2>2, LenProperties
  <2> QED
    BY <1>0, <2>1, <2>2, <2>3
<1>5. EntryEnd(entries[L]) = end
  BY <1>0, SMTT(30) DEF RingShape, Contiguous
<1> HIDE DEF L, g
<1>6. \A i \in 1..L : entries'[i].pos = entries[i].pos /\ entries'[i].kind = entries[i].kind
  BY <1>0, <1>2, <1>4 DEF HasRoom, L
<1>7. \A i \in 1..L : i < L => EntryEnd(entries'[i]) = EntryEnd(entries[i])
  BY <1>0, <1>4
<1>8. Ordered'
  <2>1. ASSUME NEW i \in 1..L, NEW j \in 1..L, i < j
        PROVE  EntryEnd(entries'[i]) <= entries'[j].pos
    <3>1. i < L
      BY <1>0, <2>1
    <3> QED
      BY <1>0, <1>6, <1>7, <2>1, <3>1 DEF RingShape, Ordered
  <2>2. ASSUME NEW i \in 1..L
        PROVE  EntryEnd(entries'[i]) <= end'
    <3>1. CASE i < L
      <4>1. EntryEnd(entries[i]) <= end
        BY <1>0 DEF RingShape, Ordered
      <4>2. EntryEnd(entries'[i]) = EntryEnd(entries[i]) /\ EntryEnd(entries[i]) \in Nat
        BY <1>1, <1>7, <3>1
      <4> QED
        BY <1>0, <4>1, <4>2
    <3>2. CASE i = L
      BY <1>0, <1>3, <1>4, <1>5, <3>2
    <3> QED
      BY <1>0, <3>1, <3>2
  <2> QED
    BY <1>4, <2>1, <2>2 DEF Ordered, EntryEnd
<1>9. Contiguous'
  <2>1. ASSUME NEW i \in 1..L, i < L
        PROVE  EntryEnd(entries'[i]) = entries'[i + 1].pos
    <3>1. i + 1 \in 1..L
      BY <1>0, <2>1
    <3>2. EntryEnd(entries[i]) = entries[i + 1].pos
      BY <1>0, <2>1 DEF RingShape, Contiguous, L
    <3> QED
      BY <1>6, <1>7, <2>1, <3>1, <3>2
  <2>2. EntryEnd(entries'[L]) = end'
    BY <1>3, <1>4, <1>5
  <2> QED
    BY <1>4, <2>1, <2>2 DEF Contiguous, EntryEnd
<1>10. CtlOrder'
  <2>1. \A i \in 1..L : entries'[i].kind = "ctl" => entries'[i].n = entries[i].n
    BY <1>0, <1>2, <1>4
  <2>2. ASSUME NEW i \in 1..L, entries'[i].kind = "ctl"
        PROVE  entries'[i].n < nextCtl
    BY <1>0, <1>6, <2>1, <2>2 DEF RingShape, CtlOrder
  <2>3. ASSUME NEW i \in 1..L, NEW j \in 1..L, i < j,
               entries'[i].kind = "ctl", entries'[j].kind = "ctl"
        PROVE  entries'[i].n < entries'[j].n
    BY <1>0, <1>6, <2>1, <2>3 DEF RingShape, CtlOrder
  <2> QED
    BY <1>4, <2>2, <2>3 DEF CtlOrder
<1> QED
  BY <1>4, <1>8, <1>9, <1>10 DEF RingShape

\* One iteration of push.
LEMMA AppendOutputIInv ==
    ASSUME IInv, AppendOutput
    PROVE  IInv'
<1> DEFINE room == IF HasRoom THEN PieceMax - entries[Len(entries)].n ELSE PieceMax
           take == Lesser(rest, room)
<1>0. TypeOK /\ RingShape /\ phase = "append"
  BY DEF IInv, AppendOutput
<1>1. room \in Nat \ {0}
  <2>1. CASE HasRoom
    <3>1. entries[Len(entries)] \in Entry
      BY <1>0, <2>1 DEF TypeOK, HasRoom
    <3> QED
      BY <1>0, <2>1, <3>1, PieceMaxFacts DEF HasRoom, Entry
  <2> QED
    BY <1>0, <2>1, PieceMaxFacts
<1>2. rest \in Nat \ {0}
  BY <1>0 DEF TypeOK
<1>3. take \in Nat \ {0} /\ take <= rest
  BY <1>1, <1>2 DEF Lesser
<1>4. /\ entries' = IF HasRoom THEN Coalesce(take) ELSE Append(entries, Out(end, take))
      /\ retained' = retained + take /\ end' = end + take /\ rest' = rest - take
      /\ phase' = "evict"
      /\ UNCHANGED <<budget, nextCtl, lost, ctlAt, rd, cursor, out>>
  BY DEF AppendOutput
<1> HIDE DEF room, take
<1>5. RingShape' /\ entries' \in Seq(Entry)
  <2>1. CASE HasRoom
    BY <1>0, <1>3, <1>4, <2>1, CoalesceShape
  <2>2. CASE ~HasRoom
    <3>1. /\ Out(end, take) \in Entry /\ Out(end, take).pos = end
          /\ EntryEnd(Out(end, take)) = end + take /\ Out(end, take).kind # "ctl"
      BY <1>0, <1>3 DEF TypeOK, Out, Entry, EntryEnd
    <3>2. nextCtl' \in Nat /\ nextCtl <= nextCtl'
      BY <1>0, <1>4 DEF TypeOK
    <3> QED
      BY <1>0, <1>4, <2>2, <3>1, <3>2, AppendShape
  <2> QED
    BY <2>1, <2>2
<1>6. TypeOK'
  BY <1>0, <1>2, <1>3, <1>4, <1>5 DEF TypeOK, Phases
<1>7. CursorsValid' /\ ReadPosition'
  <2>1. end \in Nat /\ cursor \in [Consumers -> Cursors]
    BY <1>0 DEF TypeOK
  <2>2. \A c \in Consumers : cursor[c].after \in Nat
    BY <2>1 DEF Cursors
  <2> QED
    BY <1>3, <1>4, <2>1, <2>2 DEF IInv, CursorsValid, ReadPosition
<1> QED
  BY <1>5, <1>6, <1>7 DEF IInv

\* push_control up to its call of evict.
LEMMA PushControlIInv ==
    ASSUME IInv, PushControl
    PROVE  IInv'
<1>0. TypeOK /\ RingShape /\ phase = "free"
  BY DEF IInv, PushControl
<1>1. /\ Ctl(end, nextCtl) \in Entry /\ Ctl(end, nextCtl).pos = end
      /\ EntryEnd(Ctl(end, nextCtl)) = end /\ Ctl(end, nextCtl).n = nextCtl
  BY <1>0 DEF TypeOK, Ctl, Entry, EntryEnd
<1>2. nextCtl' \in Nat \ {0} /\ nextCtl < nextCtl' /\ nextCtl \in Nat
  BY <1>0 DEF TypeOK, PushControl
<1>3. RingShape' /\ entries' \in Seq(Entry)
  <2>1. entries' = Append(entries, Ctl(end, nextCtl)) /\ end' = end
    BY DEF PushControl
  <2> QED
    BY <1>0, <1>1, <1>2, <2>1, AppendShape
<1>4. ctlAt' \in Seq(Nat)
  BY <1>0 DEF TypeOK, PushControl
<1>5. TypeOK'
  BY <1>0, <1>2, <1>3, <1>4, RingConstants DEF TypeOK, PushControl, Phases
<1>6. CursorsValid' /\ ReadPosition'
  <2>1. cursor \in [Consumers -> Cursors] /\ lost.id \in Nat
    BY <1>0 DEF TypeOK
  <2>2. \A c \in Consumers : cursor[c].ctl \in Nat
    BY <2>1 DEF Cursors
  <2>3. CursorsValid
    BY DEF IInv
  <2> QED
    BY <1>2, <2>1, <2>2, <2>3 DEF PushControl, CursorsValid, ReadPosition
<1> QED
  BY <1>3, <1>5, <1>6 DEF IInv

-----------------------------------------------------------------------------
(* Eviction *)

\* The part of the invariant evict does not disturb.
LEMMA EvictFrame ==
    ASSUME IInv, phase' # "read", UNCHANGED <<end, nextCtl, cursor>>, lost'.id < nextCtl
    PROVE  CursorsValid' /\ ReadPosition'
  BY DEF IInv, CursorsValid, ReadPosition

\* Popping the front entry keeps the shape: nothing precedes what is left.
LEMMA TailShape ==
    ASSUME TypeOK, RingShape, entries # <<>>, entries' = Tail(entries),
           UNCHANGED <<end, nextCtl>>, phase = "trim" => phase' = "trim"
    PROVE  RingShape' /\ entries' \in Seq(Entry)
<1> DEFINE L == Len(entries)
<1>0. /\ entries \in Seq(Entry) /\ DOMAIN entries = 1..L
      /\ L \in Nat \ {0} /\ Len(entries') = L - 1 /\ entries' \in Seq(Entry)
      /\ \A i \in 1..(L - 1) : entries'[i] = entries[i + 1]
  BY EntriesFacts, TailFacts
<1>1. DOMAIN entries' = 1..(L - 1)
  BY <1>0, LenProperties
<1>2. \A i \in 1..(L - 1) : i \in 1..L /\ i + 1 \in 1..L
  BY <1>0
<1> HIDE DEF L
<1>3. Ordered'
  BY <1>0, <1>1, <1>2, SMTT(30) DEF RingShape, Ordered, EntryEnd
<1>4. CtlOrder'
  BY <1>0, <1>1, <1>2 DEF RingShape, CtlOrder
<1>5. Contiguous'
  <2>1. ASSUME NEW i \in 1..(L - 1), i < L - 1
        PROVE  \/ EntryEnd(entries'[i]) = entries'[i + 1].pos
               \/ /\ phase' = "trim"
                  /\ entries'[i].pos < entries'[i + 1].pos
                  /\ \A k \in 1..i : entries'[k].kind = "ctl"
    <3>1. /\ i + 1 \in 1..L /\ i + 1 < L /\ i + 1 \in 1..(L - 1)
          /\ entries'[i] = entries[i + 1] /\ entries'[i + 1] = entries[(i + 1) + 1]
      BY <1>0, <2>1
    <3>2. \/ EntryEnd(entries[i + 1]) = entries[(i + 1) + 1].pos
          \/ /\ phase = "trim"
             /\ entries[i + 1].pos < entries[(i + 1) + 1].pos
             /\ \A k \in 1..(i + 1) : entries[k].kind = "ctl"
      BY <1>0, <3>1 DEF RingShape, Contiguous, L
    <3>3. ASSUME \A k \in 1..(i + 1) : entries[k].kind = "ctl", NEW k \in 1..i
          PROVE  entries'[k].kind = "ctl"
      <4>1. k + 1 \in 1..(i + 1) /\ k \in 1..(L - 1)
        BY <1>0, <2>1
      <4> QED
        BY <1>0, <3>3, <4>1
    <3> QED
      BY <3>1, <3>2, <3>3
  <2>2. ASSUME entries' # <<>>
        PROVE  EntryEnd(entries'[L - 1]) = end'
    <3>1. L - 1 \in 1..(L - 1) /\ (L - 1) + 1 = L
      BY <1>0, <2>2, EmptySeq
    <3>2. EntryEnd(entries[L]) = end
      BY DEF RingShape, Contiguous, L
    <3> QED
      BY <1>0, <3>1, <3>2
  <2> QED
    BY <1>0, <1>1, <2>1, <2>2 DEF Contiguous, EntryEnd
<1> QED
  BY <1>0, <1>3, <1>4, <1>5 DEF RingShape

\* Taking the oldest chunk out leaves at most the controls before it behind.
LEMMA EvictOutputIInv ==
    ASSUME IInv, EvictOutput
    PROVE  IInv'
<1> DEFINE L == Len(entries)
           m == Min(Outputs)
<1>0. TypeOK /\ RingShape /\ phase = "evict" /\ phase' = "trim" /\ end' = end /\ nextCtl' = nextCtl
  BY DEF IInv, EvictOutput
<1>1. /\ m \in 1..L /\ m < L /\ entries[m].kind = "out"
      /\ \A j \in 1..(m - 1) : entries[j].kind = "ctl"
  BY <1>0, AvailableFromFacts DEF EvictOutput, Evictable, RingShape
<1>2. /\ entries \in Seq(Entry) /\ DOMAIN entries = 1..L /\ L \in Nat
      /\ \A i \in 1..L : /\ entries[i].pos \in Nat /\ EntryEnd(entries[i]) \in Nat
                         /\ entries[i].pos <= EntryEnd(entries[i]) /\ entries[i].n \in Nat \ {0}
  BY <1>0, EntriesFacts
<1>3. entries' = RemoveAt(entries, m) /\ retained' = retained - entries[m].n
  BY <1>1 DEF EvictOutput, Cost
<1> HIDE DEF m, L
<1>4. /\ entries' \in Seq(Entry) /\ Len(entries') = L - 1 /\ DOMAIN entries' = 1..(L - 1)
      /\ \A j \in 1..(L - 1) : entries'[j] = IF j < m THEN entries[j] ELSE entries[j + 1]
  <2>1. /\ RemoveAt(entries, m) \in Seq(Entry)
        /\ Len(RemoveAt(entries, m)) = L - 1
        /\ \A j \in 1..(L - 1) : RemoveAt(entries, m)[j] = IF j < m THEN entries[j] ELSE entries[j + 1]
    BY <1>1, <1>2, RemoveAtFacts DEF L
  <2> QED
    BY <1>3, <2>1, LenProperties, SMTT(30)
\* The place in the old ring of each entry of the new one.
<1> DEFINE old(j) == IF j < m THEN j ELSE j + 1
<1>5. \A j \in 1..(L - 1) : old(j) \in 1..L /\ entries'[j] = entries[old(j)]
  BY <1>1, <1>2, <1>4
<1>6. \A i, j \in 1..(L - 1) : i < j => old(i) < old(j)
  BY <1>1, <1>2
<1>7. Ordered'
  <2>1. \A i, j \in 1..(L - 1) : i < j => EntryEnd(entries[old(i)]) <= entries[old(j)].pos
    <3> HIDE DEF old
    <3> QED
      BY <1>0, <1>2, <1>5, <1>6 DEF RingShape, Ordered
  <2>2. \A i \in 1..(L - 1) : EntryEnd(entries[old(i)]) <= end
    <3> HIDE DEF old
    <3> QED
      BY <1>0, <1>2, <1>5 DEF RingShape, Ordered
  <2> HIDE DEF old
  <2> QED
    BY <1>0, <1>4, <1>5, <2>1, <2>2, SMTT(30) DEF Ordered, EntryEnd
<1>8. CtlOrder'
  <2>1. ASSUME NEW i \in 1..(L - 1), NEW j \in 1..(L - 1), i < j,
               entries[old(i)].kind = "ctl", entries[old(j)].kind = "ctl"
        PROVE  entries[old(i)].n < entries[old(j)].n
    <3> HIDE DEF old
    <3> QED
      BY <1>0, <1>2, <1>5, <1>6, <2>1 DEF RingShape, CtlOrder
  <2>2. ASSUME NEW i \in 1..(L - 1), entries[old(i)].kind = "ctl"
        PROVE  entries[old(i)].n < nextCtl
    <3> HIDE DEF old
    <3> QED
      BY <1>0, <1>2, <1>5, <2>2 DEF RingShape, CtlOrder
  <2> HIDE DEF old
  <2> QED
    BY <1>0, <1>4, <1>5, <2>1, <2>2 DEF CtlOrder
<1>9. Contiguous'
  <2>0. \A i \in 1..L : i < L => EntryEnd(entries[i]) = entries[i + 1].pos
    BY <1>0, <1>2 DEF RingShape, Contiguous, L
  <2>1. ASSUME NEW i \in 1..(L - 1), i < L - 1
        PROVE  \/ EntryEnd(entries'[i]) = entries'[i + 1].pos
               \/ /\ entries'[i].pos < entries'[i + 1].pos
                  /\ \A k \in 1..i : entries'[k].kind = "ctl"
    <3>0. i \in Nat /\ m \in Nat /\ L \in Nat
      BY <1>1, <1>2
    <3>1. CASE i + 1 < m
      <4>1. entries'[i] = entries[i] /\ entries'[i + 1] = entries[i + 1] /\ i \in 1..L /\ i < L
        BY <1>1, <1>4, <2>1, <3>0, <3>1
      <4> QED
        BY <2>0, <4>1
    <3>2. CASE i + 1 = m
      <4>1. /\ entries'[i] = entries[i] /\ entries'[i + 1] = entries[m + 1]
            /\ i \in 1..L /\ i < L /\ m + 1 \in 1..L
        BY <1>1, <1>4, <2>1, <3>0, <3>2
      <4>2. EntryEnd(entries[i]) = entries[m].pos /\ EntryEnd(entries[m]) = entries[m + 1].pos
        BY <1>1, <2>0, <3>2, <4>1
      <4>3. entries[m].pos < EntryEnd(entries[m])
        BY <1>1, <1>2 DEF EntryEnd
      <4>4. entries[i].pos < entries[m + 1].pos
        BY <1>1, <1>2, <4>1, <4>2, <4>3
      <4>5. \A k \in 1..i : entries'[k].kind = "ctl"
        BY <1>1, <1>4, <2>1, <3>0, <3>2
      <4> QED
        BY <4>1, <4>4, <4>5
    <3>3. CASE m <= i
      <4>1. /\ entries'[i] = entries[i + 1] /\ entries'[i + 1] = entries[(i + 1) + 1]
            /\ i + 1 \in 1..L /\ i + 1 < L
        BY <1>1, <1>4, <2>1, <3>0, <3>3
      <4> QED
        BY <2>0, <4>1
    <3> QED
      BY <3>0, <3>1, <3>2, <3>3
  <2>2. entries'[L - 1] = entries[L] /\ EntryEnd(entries[L]) = end
    <3>1. L - 1 \in 1..(L - 1) /\ ~(L - 1 < m) /\ (L - 1) + 1 = L
      BY <1>1, <1>2
    <3>2. entries # <<>>
      BY <1>1, <1>2, EmptySeq DEF L
    <3> QED
      BY <1>0, <1>4, <3>1, <3>2 DEF RingShape, Contiguous, L
  <2> QED
    BY <1>0, <1>4, <2>1, <2>2 DEF Contiguous, EntryEnd
<1>10. TypeOK'
  BY <1>0, <1>1, <1>2, <1>3, <1>4, SMTT(30) DEF TypeOK, EvictOutput, Phases
<1>11. CursorsValid' /\ ReadPosition'
  BY <1>0, EvictFrame DEF EvictOutput, IInv, CursorsValid
<1> QED
  BY <1>7, <1>8, <1>9, <1>10, <1>11 DEF IInv, RingShape

\* With no chunk to take, the front is a control and it is recorded as lost.
LEMMA EvictControlIInv ==
    ASSUME IInv, EvictControl
    PROVE  IInv' /\ entries[1].kind = "ctl"
<1>0. /\ TypeOK /\ RingShape /\ phase = "evict" /\ phase' = "trim"
      /\ entries' = Tail(entries) /\ UNCHANGED <<end, nextCtl>>
  BY DEF IInv, EvictControl
<1>1. entries \in Seq(Entry) /\ Len(entries) \in Nat /\ Len(entries) > 1 /\ DOMAIN entries = 1..Len(entries)
  BY <1>0, EntriesFacts DEF EvictControl, OverBudget
<1>2. 1 \in DOMAIN entries /\ entries # <<>> /\ entries[1] \in Entry
  BY <1>1, EmptySeq
<1>3. entries[1].kind = "ctl"
  <2>1. CASE Outputs = {}
    BY <1>2, <2>1 DEF Outputs, Entry
  <2>2. CASE Outputs # {}
    <3>1. /\ Min(Outputs) \in 1..Len(entries) /\ ~(Min(Outputs) < Len(entries))
          /\ \A j \in 1..(Min(Outputs) - 1) : entries[j].kind = "ctl"
      BY <1>0, <2>2, AvailableFromFacts DEF EvictControl, Evictable, RingShape
    <3> QED
      BY <1>1, <3>1
  <2> QED
    BY <2>1, <2>2
<1>4. /\ retained' = retained - CtlCost
      /\ lost' = [seq |-> entries[1].pos, id |-> entries[1].n]
  BY <1>3 DEF EvictControl
<1>5. RingShape' /\ entries' \in Seq(Entry)
  BY <1>0, <1>2, TailShape
<1>6. lost' \in [seq : Nat, id : Nat] /\ lost'.id < nextCtl
  <2>1. entries[1].n < nextCtl
    BY <1>0, <1>2, <1>3 DEF RingShape, CtlOrder
  <2> QED
    BY <1>2, <1>4, <2>1 DEF Entry
<1>7. TypeOK'
  BY <1>0, <1>4, <1>5, <1>6, RingConstants DEF TypeOK, EvictControl, Phases
<1>8. CursorsValid' /\ ReadPosition'
  BY <1>0, <1>6, EvictFrame DEF EvictControl
<1> QED
  BY <1>3, <1>5, <1>7, <1>8 DEF IInv

\* One iteration of the trimming loop.
LEMMA TrimControlIInv ==
    ASSUME IInv, TrimControl
    PROVE  IInv'
<1>0. /\ TypeOK /\ RingShape /\ phase = "trim" /\ phase' = "trim" /\ entries # <<>>
      /\ entries' = Tail(entries) /\ UNCHANGED <<end, nextCtl>>
  BY DEF IInv, TrimControl, StaleFront
<1>1. RingShape' /\ entries' \in Seq(Entry)
  BY <1>0, TailShape
<1>2. TypeOK'
  BY <1>0, <1>1, RingConstants DEF TypeOK, TrimControl
<1>3. CursorsValid' /\ ReadPosition'
  BY <1>0, EvictFrame DEF TrimControl, IInv, CursorsValid
<1> QED
  BY <1>1, <1>2, <1>3 DEF IInv

\* When the front is not stale, no control is behind the rest any more.
LEMMA TrimDoneIInv ==
    ASSUME IInv, TrimDone
    PROVE  IInv'
<1>0. TypeOK /\ RingShape /\ phase = "trim" /\ phase' = "evict" /\ UNCHANGED ringVars
  BY DEF IInv, TrimDone
<1>1. /\ DOMAIN entries = 1..Len(entries) /\ Len(entries) \in Nat /\ end \in Nat
      /\ \A i \in 1..Len(entries) : /\ entries[i].pos \in Nat /\ EntryEnd(entries[i]) \in Nat
                                    /\ entries[i].pos <= EntryEnd(entries[i])
  BY <1>0, EntriesFacts DEF TypeOK
<1>2. ASSUME NEW i \in DOMAIN entries, i < Len(entries)
      PROVE  EntryEnd(entries[i]) = entries[i + 1].pos
  <2>1. SUFFICES ASSUME entries[i].pos < entries[i + 1].pos,
                        \A k \in 1..i : entries[k].kind = "ctl"
                 PROVE  FALSE
    BY <1>0, <1>2 DEF RingShape, Contiguous
  <2>2. 1 \in 1..i /\ 1 \in DOMAIN entries /\ i + 1 \in DOMAIN entries /\ i \in 1..Len(entries)
    BY <1>1, <1>2
  <2>3. entries[1].kind = "ctl" /\ entries # <<>>
    BY <1>1, <1>2, <2>1, <2>2, EmptySeq
  <2>4. ~(entries[1].pos < AvailableFrom)
    BY <2>3 DEF TrimDone, StaleFront
  <2>5. entries[i + 1].pos <= AvailableFrom /\ AvailableFrom \in Nat
    <3>1. \A k \in 1..((i + 1) - 1) : entries[k].kind = "ctl"
      BY <1>1, <2>1, <2>2
    <3> QED
      BY <1>0, <2>2, <3>1, AvailableFromFacts DEF RingShape
  <2>6. entries[1].pos <= entries[i].pos
    <3>1. CASE i = 1
      BY <1>1, <2>2, <3>1
    <3>2. CASE 1 < i
      <4>1. EntryEnd(entries[1]) <= entries[i].pos
        BY <1>0, <2>2, <3>2 DEF RingShape, Ordered
      <4> QED
        BY <1>1, <2>2, <4>1
    <3> QED
      BY <1>1, <2>2, <3>1, <3>2
  <2> QED
    BY <1>1, <2>1, <2>2, <2>4, <2>5, <2>6
<1>3. RingShape'
  <2>1. Ordered' /\ CtlOrder'
    BY <1>0 DEF RingShape, Ordered, CtlOrder, ringVars, EntryEnd
  <2>2. Contiguous'
    BY <1>0, <1>2 DEF RingShape, Contiguous, ringVars, EntryEnd
  <2> QED
    BY <2>1, <2>2 DEF RingShape
<1>4. TypeOK'
  BY <1>0 DEF TypeOK, TrimDone, ringVars, Phases
<1>5. CursorsValid' /\ ReadPosition'
  BY <1>0, EvictFrame DEF TrimDone, ringVars, IInv, CursorsValid
<1> QED
  BY <1>3, <1>4, <1>5 DEF IInv

\* A step that changes neither the ring nor its shape, outside the trim loop.
LEMMA FrameShape ==
    ASSUME RingShape, phase # "trim", UNCHANGED ringVars
    PROVE  RingShape'
  BY DEF RingShape, Ordered, Contiguous, CtlOrder, ringVars, EntryEnd

\* evict returns to push, or the mutex is released.
LEMMA EvictDoneIInv ==
    ASSUME IInv, EvictDone
    PROVE  IInv'
<1>1. TypeOK'
  BY DEF IInv, EvictDone, TypeOK, ringVars, Phases
<1>2. RingShape'
  BY FrameShape DEF IInv, EvictDone
<1>3. CursorsValid' /\ ReadPosition'
  BY EvictFrame DEF IInv, EvictDone, ringVars, CursorsValid
<1> QED
  BY <1>1, <1>2, <1>3 DEF IInv

-----------------------------------------------------------------------------
(* The read side *)

\* A consumer starts over at an offset.
LEMMA ReopenIInv ==
    ASSUME IInv, NEW c \in Consumers, NEW a \in 0..MaxEnd, Reopen(c, a)
    PROVE  IInv'
<1>0. TypeOK /\ RingShape /\ CursorsValid /\ phase = "free" /\ phase' = "free" /\ UNCHANGED <<ringVars, rest, rd>>
  BY DEF IInv, Reopen
<1>1. a \in Nat /\ FromOffset(a) \in Cursors
  BY RingConstants DEF FromOffset, Cursors
<1>2. cursor' \in [Consumers -> Cursors]
  BY <1>0, <1>1 DEF TypeOK, Reopen
<1>3. TypeOK'
  BY <1>0, <1>2 DEF TypeOK, ringVars
<1>4. CursorsValid'
  <2>1. ASSUME NEW d \in Consumers
        PROVE  cursor'[d].after <= end /\ cursor'[d].ctl < nextCtl
    <3>1. CASE d = c /\ ~(a > end)
      <4>1. cursor'[d] = FromOffset(a)
        BY <1>0, <3>1 DEF Reopen, TypeOK
      <4> QED
        BY <1>0, <1>1, <3>1, <4>1 DEF FromOffset, TypeOK
    <3>2. CASE ~(d = c /\ ~(a > end))
      <4>1. cursor'[d] = cursor[d]
        BY <1>0, <3>2 DEF Reopen, TypeOK
      <4> QED
        BY <1>0, <4>1 DEF CursorsValid
    <3> QED
      BY <3>1, <3>2
  <2> QED
    BY <1>0, <2>1 DEF CursorsValid, ringVars
<1>5. RingShape' /\ ReadPosition'
  BY <1>0, FrameShape DEF ReadPosition
<1> QED
  BY <1>3, <1>4, <1>5 DEF IInv

\* The read starts at the first entry, at or after available_from.
LEMMA BeginReadIInv ==
    ASSUME IInv, NEW c \in Consumers, NEW m \in ReadSizes, BeginRead(c, m)
    PROVE  IInv'
<1> DEFINE behind == cursor[c].after < AvailableFrom
           from == IF behind THEN AvailableFrom ELSE cursor[c].after
           owed == cursor[c].ctl < lost.id /\ from <= lost.seq
           ctl == IF owed THEN lost.id ELSE cursor[c].ctl
<1>0. /\ TypeOK /\ RingShape /\ CursorsValid /\ phase = "free" /\ phase' = "read"
      /\ UNCHANGED <<ringVars, rest, cursor>>
  BY DEF IInv, BeginRead
<1>1. /\ cursor[c] \in Cursors /\ lost \in [seq : Nat, id : Nat] /\ end \in Nat /\ m \in Nat
      /\ nextCtl \in Nat
  BY <1>0, RingConstants DEF TypeOK
<1>2. /\ from \in Nat /\ from <= end /\ AvailableFrom <= from
  BY <1>0, <1>1, AvailableFromFacts DEF RingShape, CursorsValid, Cursors
<1>3. ctl \in Nat /\ ctl < nextCtl
  BY <1>0, <1>1 DEF CursorsValid, Cursors
<1>4. rd' = [by |-> c, i |-> 1, start |-> from, from |-> from, remaining |-> m, ctl |-> ctl,
             gap |-> behind \/ owed, events |-> <<>>]
  BY DEF BeginRead
<1> HIDE DEF from, ctl, behind, owed
<1>5. (behind \/ owed) \in BOOLEAN
  BY DEF behind, owed
<1>6. rd' \in Reads
  BY <1>1, <1>2, <1>3, <1>4, <1>5 DEF Reads
<1>7. TypeOK'
  BY <1>0, <1>6 DEF TypeOK, ringVars, Phases
<1>8. ReadPosition'
  <2>1. ASSUME 1 <= Len(entries)
        PROVE  entries[1].pos <= from
    <3>1. 1 \in DOMAIN entries /\ entries[1].pos \in Nat /\ AvailableFrom \in Nat
      BY <1>0, <2>1, EntriesFacts, AvailableFromFacts DEF RingShape
    <3>2. entries[1].pos <= AvailableFrom
      BY <1>0, <3>1, AvailableFromFacts DEF RingShape
    <3> QED
      BY <1>2, <3>1, <3>2
  <2> QED
    BY <1>0, <1>2, <1>3, <1>4, <2>1 DEF ReadPosition, ringVars
<1>9. RingShape' /\ CursorsValid'
  BY <1>0, FrameShape DEF CursorsValid, ringVars
<1> QED
  BY <1>7, <1>8, <1>9 DEF IInv

\* What every iteration of the read loop starts from.
LEMMA ReadLoopFacts ==
    ASSUME IInv, phase = "read", rd.i <= Len(entries)
    PROVE  /\ rd \in Reads /\ rd.i \in DOMAIN entries
           /\ entries[rd.i] \in Entry /\ entries[rd.i].pos <= rd.from
           /\ entries[rd.i].kind = "ctl" => entries[rd.i].n < nextCtl
           /\ EntryEnd(entries[rd.i]) <= end
           /\ rd.i + 1 <= Len(entries) => entries[rd.i + 1].pos = EntryEnd(entries[rd.i])
<1>1. rd \in Reads /\ TypeOK /\ RingShape /\ ReadPosition
  BY DEF IInv, TypeOK
<1>2. rd.i \in Nat \ {0} /\ Len(entries) \in Nat /\ DOMAIN entries = 1..Len(entries)
  BY <1>1, EntriesFacts DEF Reads
<1>3. rd.i \in 1..Len(entries)
  BY <1>2
<1> QED
  BY <1>1, <1>2, <1>3, EntriesFacts DEF ReadPosition, RingShape, Ordered, CtlOrder, Contiguous

\* An iteration that keeps its place within the ring preserves the invariant.
LEMMA ReadStepIInv ==
    ASSUME IInv, phase = "read", phase' = "read", UNCHANGED <<ringVars, rest, cursor>>,
           rd' \in Reads, rd'.from <= end, rd'.ctl < nextCtl,
           rd'.i <= Len(entries) => entries[rd'.i].pos <= rd'.from
    PROVE  IInv'
<1>1. TypeOK'
  BY DEF IInv, TypeOK, ringVars, Phases
<1>2. RingShape'
  BY FrameShape DEF IInv
<1>3. CursorsValid' /\ ReadPosition'
  BY DEF IInv, CursorsValid, ReadPosition, ringVars
<1> QED
  BY <1>1, <1>2, <1>3 DEF IInv

\* The part of a chunk that a read takes: it is not empty and fits both.
LEMMA PartOfChunk ==
  ASSUME NEW pos \in Nat, NEW n \in Nat \ {0}, NEW from \in Nat, NEW m \in Nat,
         pos <= from, ~(pos + n <= from), m # 0
  PROVE  /\ from - pos \in Nat /\ n - (from - pos) \in Nat \ {0}
         /\ Lesser(n - (from - pos), m) \in Nat \ {0}
         /\ Lesser(n - (from - pos), m) <= n - (from - pos)
         /\ Lesser(n - (from - pos), m) <= m
  BY DEF Lesser

\* The loop's chunk branch: the subtraction does not underflow.
LEMMA ReadChunkIInv ==
    ASSUME IInv, ReadChunk
    PROVE  IInv'
<1> DEFINE e == entries[rd.i]
           skip == rd.from - e.pos
           take == Lesser(e.n - skip, rd.remaining)
<1>0. /\ phase = "read" /\ rd.i <= Len(entries) /\ e.kind = "out" /\ phase' = "read"
      /\ UNCHANGED <<ringVars, rest, cursor>>
  BY DEF ReadChunk
<1>1. /\ rd \in Reads /\ e \in Entry /\ e.pos <= rd.from /\ EntryEnd(e) <= end
      /\ rd.i + 1 <= Len(entries) => entries[rd.i + 1].pos = EntryEnd(e)
      /\ Len(entries) \in Nat /\ end \in Nat /\ rd.from <= end /\ rd.ctl < nextCtl
  BY <1>0, ReadLoopFacts, EntriesFacts DEF IInv, TypeOK, ReadPosition
<1>2. /\ rd.i \in Nat \ {0} /\ rd.from \in Nat /\ rd.remaining \in Nat /\ rd.events \in Seq(Entry)
      /\ rd.start \in Nat /\ rd.ctl \in Nat /\ rd.gap \in BOOLEAN /\ rd.by \in Consumers
  BY <1>1 DEF Reads
<1>3. e.pos \in Nat /\ e.n \in Nat \ {0} /\ EntryEnd(e) = e.pos + e.n
  BY <1>0, <1>1 DEF Entry, EntryEnd
<1> HIDE DEF e
<1>4. CASE EntryEnd(e) <= rd.from
  <2>1. rd' = [rd EXCEPT !.i = @ + 1]
    BY <1>0, <1>4 DEF ReadChunk, e
  <2>2. /\ rd' \in Reads /\ rd'.from = rd.from /\ rd'.ctl = rd.ctl /\ rd'.i = rd.i + 1
    BY <1>1, <1>2, <2>1, SMTT(30) DEF Reads
  <2>3. rd'.i <= Len(entries) => entries[rd'.i].pos <= rd'.from
    BY <1>1, <1>4, <2>2
  <2> QED
    BY <1>0, <1>1, <2>2, <2>3, ReadStepIInv
<1>5. CASE ~(EntryEnd(e) <= rd.from) /\ rd.remaining = 0
  <2>1. rd' = [rd EXCEPT !.i = Len(entries) + 1]
    BY <1>0, <1>5 DEF ReadChunk, e, Stop
  <2>2. /\ rd' \in Reads /\ rd'.from = rd.from /\ rd'.ctl = rd.ctl /\ rd'.i = Len(entries) + 1
    BY <1>1, <1>2, <2>1, SMTT(30) DEF Reads
  <2> QED
    BY <1>0, <1>1, <2>2, ReadStepIInv
<1>6. CASE ~(EntryEnd(e) <= rd.from) /\ rd.remaining # 0
  <2>1. rd' = [rd EXCEPT !.from = @ + take, !.remaining = @ - take,
                         !.events = Append(@, Out(rd.from, take)),
                         !.i = IF take < e.n - skip THEN Len(entries) + 1 ELSE @ + 1]
    BY <1>0, <1>6 DEF ReadChunk, e, Stop
  <2>2. /\ skip \in Nat /\ e.n - skip \in Nat \ {0} /\ take \in Nat \ {0}
        /\ take <= e.n - skip /\ take <= rd.remaining
    <3>1. e.pos <= rd.from /\ ~(e.pos + e.n <= rd.from)
      BY <1>1, <1>3, <1>6
    <3> QED
      BY <1>2, <1>3, <1>6, <3>1, PartOfChunk
  <2>3. rd.from + take <= EntryEnd(e) /\ (~(take < e.n - skip) => rd.from + take = EntryEnd(e))
    BY <1>1, <1>2, <1>3, <2>2, SMTT(30)
  <2> HIDE DEF take, skip
  <2>4. Append(rd.events, Out(rd.from, take)) \in Seq(Entry)
    BY <1>2, <2>2 DEF Out, Entry
  <2>5. /\ rd' \in Reads /\ rd'.from = rd.from + take /\ rd'.ctl = rd.ctl
        /\ rd'.i = IF take < e.n - skip THEN Len(entries) + 1 ELSE rd.i + 1
    <3> DEFINE ev == Append(rd.events, Out(rd.from, take))
               ni == IF take < e.n - skip THEN Len(entries) + 1 ELSE rd.i + 1
    <3>0. ev \in Seq(Entry) /\ ni \in Nat \ {0}
      BY <1>1, <1>2, <2>4, SMTT(30)
    <3>1. rd.remaining - take \in Nat /\ rd.from + take \in Nat
      BY <1>2, <2>2
    <3>2. rd' = [rd EXCEPT !.from = rd.from + take, !.remaining = rd.remaining - take,
                           !.events = ev, !.i = ni]
      BY <2>1
    <3> HIDE DEF ev, ni
    <3>3. rd' \in Reads /\ rd'.from = rd.from + take /\ rd'.ctl = rd.ctl /\ rd'.i = ni
      BY <1>1, <3>0, <3>1, <3>2 DEF Reads
    <3> QED
      BY <3>3 DEF ni
  <2>6. rd'.from <= end
    BY <1>1, <1>2, <1>3, <2>2, <2>3, <2>5, SMTT(30)
  <2>7. rd'.i <= Len(entries) => entries[rd'.i].pos <= rd'.from
    BY <1>1, <1>2, <1>3, <2>2, <2>3, <2>5, SMTT(30)
  <2> QED
    BY <1>0, <1>1, <2>5, <2>6, <2>7, ReadStepIInv
<1> QED
  BY <1>4, <1>5, <1>6

\* The loop's control branch.
LEMMA ReadCtlIInv ==
    ASSUME IInv, ReadCtl
    PROVE  IInv'
<1> DEFINE e == entries[rd.i]
<1>0. /\ phase = "read" /\ rd.i <= Len(entries) /\ e.kind = "ctl" /\ phase' = "read"
      /\ UNCHANGED <<ringVars, rest, cursor>>
  BY DEF ReadCtl
<1>1. /\ rd \in Reads /\ e \in Entry /\ e.pos <= rd.from /\ e.n < nextCtl
      /\ rd.i + 1 <= Len(entries) => entries[rd.i + 1].pos = EntryEnd(e)
      /\ Len(entries) \in Nat /\ rd.from <= end /\ rd.ctl < nextCtl
  BY <1>0, ReadLoopFacts, EntriesFacts DEF IInv, ReadPosition
<1>2. /\ rd.i \in Nat \ {0} /\ rd.from \in Nat /\ rd.remaining \in Nat /\ rd.events \in Seq(Entry)
      /\ rd.start \in Nat /\ rd.ctl \in Nat /\ rd.gap \in BOOLEAN /\ rd.by \in Consumers
  BY <1>1 DEF Reads
<1>3. e.pos \in Nat /\ e.n \in Nat /\ EntryEnd(e) = e.pos
  BY <1>0, <1>1 DEF Entry, EntryEnd
<1> HIDE DEF e
<1>4. \/ \E k \in {rd.ctl, e.n} : rd' = [rd EXCEPT !.ctl = k, !.i = @ + 1]
      \/ rd' = [rd EXCEPT !.i = Len(entries) + 1]
      \/ rd' = [rd EXCEPT !.i = @ + 1]
      \/ rd' = [rd EXCEPT !.ctl = e.n, !.events = Append(@, e), !.i = @ + 1]
  BY <1>0 DEF ReadCtl, e, Stop
<1>5. /\ rd' \in Reads /\ rd'.from = rd.from /\ rd'.ctl \in {rd.ctl, e.n}
      /\ rd'.i \in {rd.i + 1, Len(entries) + 1}
  <2>1. Append(rd.events, e) \in Seq(Entry)
    BY <1>1, <1>2
  <2>2. rd.i + 1 \in Nat \ {0} /\ Len(entries) + 1 \in Nat \ {0}
    BY <1>1, <1>2
  <2>3. CASE \E k \in {rd.ctl, e.n} : rd' = [rd EXCEPT !.ctl = k, !.i = @ + 1]
    BY <1>1, <1>2, <1>3, <2>2, <2>3 DEF Reads
  <2>4. CASE rd' = [rd EXCEPT !.i = Len(entries) + 1]
    BY <1>1, <1>2, <1>3, <2>2, <2>4 DEF Reads
  <2>5. CASE rd' = [rd EXCEPT !.i = @ + 1]
    BY <1>1, <1>2, <1>3, <2>2, <2>5 DEF Reads
  <2>6. CASE rd' = [rd EXCEPT !.ctl = e.n, !.events = Append(@, e), !.i = @ + 1]
    <3> DEFINE ev == Append(rd.events, e)
    <3>1. ev \in Seq(Entry) /\ rd' = [rd EXCEPT !.ctl = e.n, !.events = ev, !.i = @ + 1]
      BY <2>1, <2>6
    <3> HIDE DEF ev
    <3> QED
      BY <1>1, <1>2, <1>3, <2>2, <3>1 DEF Reads
  <2> QED
    BY <1>4, <2>3, <2>4, <2>5, <2>6
<1>6. rd'.i <= Len(entries) => entries[rd'.i].pos <= rd'.from
  BY <1>1, <1>2, <1>3, <1>5
<1> QED
  BY <1>0, <1>1, <1>5, <1>6, ReadStepIInv

\* The read hands its position back as the consumer's cursor.
LEMMA EndReadIInv ==
    ASSUME IInv, EndRead
    PROVE  IInv'
<1>0. TypeOK /\ RingShape /\ CursorsValid /\ ReadPosition /\ phase = "read" /\ phase' = "free" /\ UNCHANGED <<ringVars, rest>>
  BY DEF IInv, EndRead
<1>1. /\ rd.by \in Consumers /\ rd.from \in Nat /\ rd.ctl \in Nat /\ rd.from <= end /\ rd.ctl < nextCtl
  BY <1>0 DEF TypeOK, Reads, ReadPosition
<1>2. cursor' = [cursor EXCEPT ![rd.by] = [after |-> rd.from, ctl |-> rd.ctl]] /\ rd' = NoRead
  BY DEF EndRead
<1>3. cursor' \in [Consumers -> Cursors]
  BY <1>0, <1>1, <1>2 DEF TypeOK, Cursors
<1>4. TypeOK'
  BY <1>0, <1>2, <1>3 DEF TypeOK, ringVars, Phases
<1>5. CursorsValid'
  <2>1. ASSUME NEW d \in Consumers
        PROVE  cursor'[d].after <= end /\ cursor'[d].ctl < nextCtl
    BY <1>0, <1>1, <1>2 DEF CursorsValid, TypeOK
  <2> QED
    BY <1>0, <2>1 DEF CursorsValid, ringVars
<1>6. RingShape' /\ ReadPosition'
  BY <1>0, FrameShape DEF ReadPosition
<1> QED
  BY <1>4, <1>5, <1>6 DEF IInv

-----------------------------------------------------------------------------
(* The theorems *)

\* Every step of every operation preserves the inductive invariant.
LEMMA NextIInv == IInv /\ [Next]_vars => IInv'
<1> SUFFICES ASSUME IInv, [Next]_vars PROVE IInv'
  OBVIOUS
<1>1. ASSUME NEW n \in 1..MaxPush, Push(n) PROVE IInv'
  BY <1>1, PushIInv
<1>2. CASE AppendOutput
  BY <1>2, AppendOutputIInv
<1>3. CASE PushControl
  BY <1>3, PushControlIInv
<1>4. CASE EvictOutput
  BY <1>4, EvictOutputIInv
<1>5. CASE EvictControl
  BY <1>5, EvictControlIInv
<1>6. CASE TrimControl
  BY <1>6, TrimControlIInv
<1>7. CASE TrimDone
  BY <1>7, TrimDoneIInv
<1>8. CASE EvictDone
  BY <1>8, EvictDoneIInv
<1>9. ASSUME NEW c \in Consumers, NEW a \in 0..MaxEnd, Reopen(c, a) PROVE IInv'
  BY <1>9, ReopenIInv
<1>10. ASSUME NEW c \in Consumers, NEW m \in ReadSizes, BeginRead(c, m) PROVE IInv'
  BY <1>10, BeginReadIInv
<1>11. CASE ReadChunk
  BY <1>11, ReadChunkIInv
<1>12. CASE ReadCtl
  BY <1>12, ReadCtlIInv
<1>13. CASE EndRead
  BY <1>13, EndReadIInv
<1>14. CASE UNCHANGED vars
  BY <1>14 DEF vars, ringVars, IInv, TypeOK, RingShape, Ordered, Contiguous, CtlOrder,
               CursorsValid, ReadPosition, EntryEnd
<1> QED
  BY <1>1, <1>2, <1>3, <1>4, <1>5, <1>6, <1>7, <1>8, <1>9, <1>10, <1>11, <1>12, <1>13, <1>14 DEF Next

\* The inductive invariant holds in every reachable state.
THEOREM RingInvariant == Spec => []IInv
  BY InitIInv, NextIInv, PTL DEF Spec

\* Type correctness of the ring and of the read loop's locals.
THEOREM RingTypeCorrect == Spec => []TypeOK
<1>1. IInv => TypeOK
  BY DEF IInv
<1> QED
  BY <1>1, RingInvariant, PTL

\* The ring is a contiguous, ordered suffix of the stream whatever is pushed and
\* evicted (the assumption evict and read rest on).
THEOREM RingKeepsShape == Spec => []RingShape
<1>1. IInv => RingShape
  BY DEF IInv
<1> QED
  BY <1>1, RingInvariant, PTL

\* The read loop never computes `from - start' with start past from.
THEOREM ReadNeverUnderflows == Spec => []ReadNeverSkips
<1>1. IInv => ReadNeverSkips
  BY DEF IInv, ReadNeverSkips, ReadPosition
<1> QED
  BY <1>1, RingInvariant, PTL

\* A cursor handed out by the ring is always one it accepts.
THEOREM CursorsStayValid == Spec => []CursorsValid
<1>1. IInv => CursorsValid
  BY DEF IInv
<1> QED
  BY <1>1, RingInvariant, PTL

-----------------------------------------------------------------------------
(* What the entries cost.  CostOf is a recursive function: it is the one      *)
(* sequence of prefix sums, which exists and is unique by the least           *)
(* counterexample.                                                            *)

PrefixSums(s, g) == g = [i \in 0..Len(s) |-> IF i = 0 THEN 0 ELSE g[i - 1] + Cost(s[i])]

SumsUpTo(s, g, n) == g[0] = 0 /\ \A i \in 1..n : g[i] = g[i - 1] + Cost(s[i])

LEMMA CostNat == ASSUME NEW e \in Entry PROVE Cost(e) \in Nat
  BY RingConstants DEF Cost, Entry

\* The prefix sums of a deque exist.
LEMMA SumsExist ==
    ASSUME NEW s \in Seq(Entry), NEW n \in 0..Len(s)
    PROVE  \E g \in [0..n -> Int] : SumsUpTo(s, g, n)
<1> DEFINE P(k) == \E g \in [0..k -> Int] : SumsUpTo(s, g, k)
           Bad == {k \in Nat : k <= Len(s) /\ ~P(k)}
<1>0. Len(s) \in Nat /\ n \in Nat /\ n <= Len(s)
  OBVIOUS
<1>1. P(0)
  <2>1. [i \in 0..0 |-> 0] \in [0..0 -> Int] /\ SumsUpTo(s, [i \in 0..0 |-> 0], 0)
    BY DEF SumsUpTo
  <2> QED
    BY <2>1
<1>2. ASSUME NEW k \in Nat, k + 1 <= Len(s), P(k)
      PROVE  P(k + 1)
  <2>1. PICK g \in [0..k -> Int] : SumsUpTo(s, g, k)
    BY <1>2
  <2>2. s[k + 1] \in Entry
    BY <1>0, <1>2
  <2>3. PICK c \in Nat : c = Cost(s[k + 1])
    BY <2>2, CostNat
  <2> DEFINE h == [i \in 0..(k + 1) |-> IF i <= k THEN g[i] ELSE g[k] + c]
  <2>4. h \in [0..(k + 1) -> Int]
    BY <2>3
  <2>5. h[0] = 0
    BY <2>1 DEF SumsUpTo
  <2>6. ASSUME NEW i \in 1..(k + 1) PROVE h[i] = h[i - 1] + Cost(s[i])
    <3>1. CASE i <= k
      <4>1. i \in 1..k /\ i - 1 \in 0..(k + 1) /\ i - 1 <= k
        BY <3>1
      <4>2. h[i] = g[i] /\ h[i - 1] = g[i - 1]
        BY <4>1
      <4> QED
        BY <2>1, <4>1, <4>2 DEF SumsUpTo
    <3>2. CASE i = k + 1
      BY <3>2, <2>3
    <3> QED
      BY <3>1, <3>2
  <2> HIDE DEF h
  <2> QED
    BY <2>4, <2>5, <2>6 DEF SumsUpTo
<1> HIDE DEF P
<1>3. Bad = {}
  <2>1. SUFFICES ASSUME Bad # {} PROVE FALSE
    OBVIOUS
  <2>2. Bad \in SUBSET Nat
    OBVIOUS
  <2>3. Min(Bad) \in Bad /\ \A y \in Bad : Min(Bad) <= y
    BY <2>1, <2>2, MinOfNats
  <2>4. PICK m \in Bad : \A y \in Bad : m <= y
    BY <2>3
  <2>5. m \in Nat /\ m <= Len(s) /\ ~P(m) /\ m # 0
    BY <1>1
  <2>6. m - 1 \in Nat /\ m - 1 <= Len(s) /\ m - 1 \notin Bad
    BY <2>4, <2>5, <1>0
  <2>7. P(m - 1)
    BY <2>6
  <2>8. PICK k \in Nat : k = m - 1
    BY <2>6
  <2>9. P(k + 1)
    BY <1>2, <2>5, <2>7, <2>8
  <2> QED
    BY <2>5, <2>8, <2>9
<1> QED
  BY <1>0, <1>3 DEF P

\* Any prefix sums of a deque end in its cost.
LEMMA CostIsSum ==
    ASSUME NEW s \in Seq(Entry), NEW g \in [0..Len(s) -> Int], SumsUpTo(s, g, Len(s))
    PROVE  CostOf(s) = g[Len(s)]
<1>0. Len(s) \in Nat
  OBVIOUS
<1> DEFINE f == CHOOSE h : PrefixSums(s, h)
<1>1. PrefixSums(s, g)
  <2> DEFINE h == [i \in 0..Len(s) |-> IF i = 0 THEN 0 ELSE g[i - 1] + Cost(s[i])]
  <2>1. ASSUME NEW i \in 0..Len(s) PROVE g[i] = h[i]
    BY <1>0 DEF SumsUpTo
  <2>2. g = h
    <3>1. g = [i \in 0..Len(s) |-> g[i]]
      OBVIOUS
    <3> HIDE DEF h
    <3>2. h = [i \in 0..Len(s) |-> h[i]]
      BY DEF h
    <3> QED
      BY <2>1, <3>1, <3>2
  <2> QED
    BY <2>2 DEF PrefixSums
<1>2. PrefixSums(s, f)
  BY <1>1
<1>3. CostOf(s) = f[Len(s)]
  BY Zenon DEF CostOf, PrefixSums
<1> HIDE DEF f
<1>4. f[0] = 0 /\ \A i \in 1..Len(s) : f[i] = f[i - 1] + Cost(s[i])
  BY <1>0, <1>2 DEF PrefixSums
<1> DEFINE Bad == {k \in Nat : k <= Len(s) /\ f[k] # g[k]}
<1>5. Bad = {}
  <2>1. SUFFICES ASSUME Bad # {} PROVE FALSE
    OBVIOUS
  <2>2. Bad \in SUBSET Nat
    OBVIOUS
  <2>3. Min(Bad) \in Bad /\ \A y \in Bad : Min(Bad) <= y
    BY <2>1, <2>2, MinOfNats
  <2>4. PICK m \in Bad : \A y \in Bad : m <= y
    BY <2>3
  <2>5. m \in Nat /\ m <= Len(s) /\ f[m] # g[m] /\ m # 0
    BY <1>4 DEF SumsUpTo
  <2>6. m - 1 \in Nat /\ m - 1 <= Len(s) /\ m - 1 \notin Bad
    BY <2>4, <2>5, <1>0
  <2>7. f[m - 1] = g[m - 1]
    BY <2>6
  <2>8. m \in 1..Len(s)
    BY <2>5, <1>0
  <2>9. f[m] = f[m - 1] + Cost(s[m]) /\ g[m] = g[m - 1] + Cost(s[m])
    BY <2>8, <1>4 DEF SumsUpTo
  <2> QED
    BY <2>5, <2>7, <2>9
<1> QED
  BY <1>0, <1>3, <1>5

\* The prefix sums of a deque, at their full length.
LEMMA CostSums ==
    ASSUME NEW s \in Seq(Entry)
    PROVE  \E g \in [0..Len(s) -> Int] : SumsUpTo(s, g, Len(s)) /\ CostOf(s) = g[Len(s)]
<1>1. Len(s) \in 0..Len(s)
  OBVIOUS
<1>2. PICK g \in [0..Len(s) -> Int] : SumsUpTo(s, g, Len(s))
  BY <1>1, SumsExist
<1> QED
  BY <1>2, CostIsSum

\* An empty deque costs nothing.
LEMMA CostEmpty == CostOf(<<>>) = 0
<1>1. <<>> \in Seq(Entry) /\ Len(<<>>) = 0
  OBVIOUS
<1>2. PICK g \in [0..0 -> Int] : SumsUpTo(<<>>, g, 0) /\ CostOf(<<>>) = g[0]
  BY <1>1, CostSums
<1> QED
  BY <1>2 DEF SumsUpTo

\* A deque with one entry more costs that entry more.
LEMMA CostLonger ==
    ASSUME NEW s \in Seq(Entry), NEW t \in Seq(Entry),
           Len(t) = Len(s) + 1, \A i \in 1..Len(s) : t[i] = s[i]
    PROVE  CostOf(t) = CostOf(s) + Cost(t[Len(t)])
<1>0. Len(s) \in Nat
  OBVIOUS
<1>1. PICK g \in [0..Len(s) -> Int] : SumsUpTo(s, g, Len(s)) /\ CostOf(s) = g[Len(s)]
  BY CostSums
<1>2. PICK h \in [0..Len(t) -> Int] : SumsUpTo(t, h, Len(t)) /\ CostOf(t) = h[Len(t)]
  BY CostSums
<1> DEFINE k == [i \in 0..Len(s) |-> h[i]]
<1>3. k \in [0..Len(s) -> Int]
  BY <1>0
<1>4. SumsUpTo(s, k, Len(s))
  <2>1. k[0] = 0
    BY <1>2, <1>0 DEF SumsUpTo
  <2>2. ASSUME NEW i \in 1..Len(s) PROVE k[i] = k[i - 1] + Cost(s[i])
    <3>1. i \in 1..Len(t) /\ i - 1 \in 0..Len(s)
      BY <1>0
    <3>2. h[i] = h[i - 1] + Cost(t[i])
      BY <3>1, <1>2 DEF SumsUpTo
    <3> QED
      BY <3>1, <3>2
  <2> HIDE DEF k
  <2> QED
    BY <2>1, <2>2 DEF SumsUpTo
<1>5. CostOf(s) = k[Len(s)]
  <2> HIDE DEF k
  <2> QED
    BY <1>3, <1>4, CostIsSum
<1>6. h[Len(t)] = h[Len(s)] + Cost(t[Len(t)])
  <2>1. Len(t) \in 1..Len(t) /\ Len(t) - 1 = Len(s)
    BY <1>0
  <2> QED
    BY <2>1, <1>2 DEF SumsUpTo
<1> QED
  BY <1>0, <1>2, <1>5, <1>6

\* A deque whose newest entry changed costs the difference.
LEMMA CostOfNewest ==
    ASSUME NEW s \in Seq(Entry), NEW t \in Seq(Entry), s # <<>>,
           Len(t) = Len(s), \A i \in 1..(Len(s) - 1) : t[i] = s[i]
    PROVE  CostOf(t) = CostOf(s) - Cost(s[Len(s)]) + Cost(t[Len(s)])
<1>0. Len(s) \in Nat \ {0}
  OBVIOUS
<1> DEFINE u == SubSeq(s, 1, Len(s) - 1)
<1>1. u \in Seq(Entry) /\ Len(u) = Len(s) - 1 /\ \A i \in 1..(Len(s) - 1) : u[i] = s[i]
  BY <1>0
<1> HIDE DEF u
<1>2. CostOf(s) = CostOf(u) + Cost(s[Len(s)])
  BY <1>0, <1>1, CostLonger
<1>3. CostOf(t) = CostOf(u) + Cost(t[Len(t)])
  BY <1>0, <1>1, CostLonger
<1>4. PICK g \in [0..Len(u) -> Int] : CostOf(u) = g[Len(u)]
  BY <1>1, CostSums
<1>5. CostOf(u) \in Int
  BY <1>4, <1>0, <1>1
<1>6. s[Len(s)] \in Entry /\ t[Len(s)] \in Entry
  BY <1>0
<1>7. Cost(s[Len(s)]) \in Nat /\ Cost(t[Len(s)]) \in Nat
  BY <1>6, CostNat
<1> QED
  BY <1>2, <1>3, <1>5, <1>7

\* A deque without one of its entries costs that entry less.
LEMMA CostWithout ==
    ASSUME NEW s \in Seq(Entry), NEW t \in Seq(Entry), NEW x \in 1..Len(s),
           Len(t) = Len(s) - 1,
           \A i \in 1..(Len(s) - 1) : t[i] = IF i < x THEN s[i] ELSE s[i + 1]
    PROVE  CostOf(t) = CostOf(s) - Cost(s[x])
<1>0. Len(s) \in Nat \ {0} /\ x \in Nat /\ 1 <= x /\ x <= Len(s)
  OBVIOUS
<1>1. PICK g \in [0..Len(s) -> Int] : SumsUpTo(s, g, Len(s)) /\ CostOf(s) = g[Len(s)]
  BY CostSums
<1>2. s[x] \in Entry
  OBVIOUS
<1>3. PICK c \in Nat : c = Cost(s[x])
  BY <1>2, CostNat
<1> DEFINE h == [i \in 0..Len(t) |-> IF i < x THEN g[i] ELSE g[i + 1] - c]
<1>4. h \in [0..Len(t) -> Int]
  BY <1>0, <1>3
<1>5. SumsUpTo(t, h, Len(t))
  <2>1. h[0] = 0
    BY <1>0, <1>1 DEF SumsUpTo
  <2>2. ASSUME NEW i \in 1..Len(t) PROVE h[i] = h[i - 1] + Cost(t[i])
    <3>0. i \in Nat /\ 1 <= i /\ i + 1 <= Len(s) /\ i - 1 \in 0..Len(t) /\ i \in 0..Len(t)
      BY <1>0
    <3>1. /\ g[i] = g[i - 1] + Cost(s[i])
          /\ g[i + 1] = g[i] + Cost(s[i + 1])
      <4>1. i \in 1..Len(s) /\ i + 1 \in 1..Len(s) /\ (i + 1) - 1 = i
        BY <3>0, <1>0
      <4> QED
        BY <4>1, <1>1 DEF SumsUpTo
    <3>2. CASE i < x
      <4>1. h[i] = g[i] /\ h[i - 1] = g[i - 1] /\ t[i] = s[i]
        BY <3>0, <3>2, <1>0
      <4> QED
        BY <4>1, <3>1
    <3>3. CASE i >= x
      <4>0. h[i] = g[i + 1] - c /\ t[i] = s[i + 1]
        BY <3>0, <3>3, <1>0
      <4>5. g[i] \in Int /\ g[i - 1] \in Int /\ g[i + 1] \in Int
        <5>1. i \in 0..Len(s) /\ i - 1 \in 0..Len(s) /\ i + 1 \in 0..Len(s)
          BY <3>0, <1>0
        <5> QED
          BY <5>1
      <4>3. i + 1 \in 1..Len(s) /\ s[i + 1] \in Entry
        <5>1. i + 1 \in 1..Len(s)
          BY <3>0, <1>0
        <5> QED
          BY <5>1
      <4>4. Cost(s[i + 1]) \in Nat
        BY <4>3, CostNat
      <4>1. CASE i = x
        <5>1. h[i - 1] = g[i - 1]
          BY <4>1, <3>0, <1>0
        <5>2. Cost(s[i]) = c
          BY <4>1, <1>3
        <5> QED
          BY <5>1, <5>2, <4>0, <4>5, <4>4, <3>1
      <4>2. CASE i > x
        <5>1. h[i - 1] = g[(i - 1) + 1] - c /\ (i - 1) + 1 = i
          BY <4>2, <3>0, <1>0
        <5> QED
          BY <5>1, <4>0, <4>5, <4>4, <3>1
      <4> QED
        BY <3>0, <3>3, <4>1, <4>2, <1>0
    <3> QED
      BY <3>0, <1>0, <3>2, <3>3
  <2> HIDE DEF h
  <2> QED
    BY <2>1, <2>2 DEF SumsUpTo
<1>6. CostOf(t) = h[Len(t)]
  <2> HIDE DEF h
  <2> QED
    BY <1>4, <1>5, CostIsSum
<1>7. h[Len(t)] = g[Len(s)] - c
  <2>1. Len(t) \in 0..Len(t) /\ Len(t) + 1 = Len(s)
    BY <1>0
  <2>2. CASE Len(t) < x
    <3>1. x = Len(s) /\ h[Len(t)] = g[Len(s) - 1]
      BY <2>1, <2>2, <1>0
    <3>2. Len(s) \in 1..Len(s)
      BY <1>0
    <3>3. g[Len(s)] = g[Len(s) - 1] + Cost(s[Len(s)])
      BY <3>2, <1>1 DEF SumsUpTo
    <3>4. g[Len(s)] \in Int /\ g[Len(s) - 1] \in Int
      <4>1. Len(s) \in 0..Len(s) /\ Len(s) - 1 \in 0..Len(s)
        BY <1>0
      <4> QED
        BY <4>1
    <3> QED
      BY <3>1, <3>3, <3>4, <1>3
  <2>3. CASE ~(Len(t) < x)
    BY <2>1, <2>3
  <2> QED
    BY <2>2, <2>3
<1> QED
  BY <1>1, <1>3, <1>6, <1>7

\* The inductive form of the budget property: a read finds the ring as the push
\* before it left it.
Accounted == retained = CostOf(entries)

WithinBudget == phase \in {"free", "read"} => retained <= budget \/ Len(entries) = 1

LEMMA AccountedAppend ==
    ASSUME IInv, Accounted, AppendOutput
    PROVE  Accounted'
<1> DEFINE L == Len(entries)
           take == Lesser(rest, IF HasRoom THEN PieceMax - entries[L].n ELSE PieceMax)
<1>0. TypeOK /\ TypeOK'
  BY AppendOutputIInv DEF IInv
<1>1. entries \in Seq(Entry) /\ L \in Nat /\ entries' \in Seq(Entry) /\ end \in Nat
  BY <1>0 DEF TypeOK
<1>2. /\ entries' = IF HasRoom THEN Coalesce(take) ELSE Append(entries, Out(end, take))
      /\ retained' = retained + take
  BY DEF AppendOutput
<1>3. take \in Int
  <2>1. ASSUME HasRoom PROVE entries[L] \in Entry
    BY <1>1, <2>1 DEF HasRoom
  <2>2. PieceMax \in Nat /\ rest \in Nat
    BY <1>0, PieceMaxFacts DEF TypeOK
  <2> QED
    BY <2>1, <2>2 DEF Lesser, Entry
<1> HIDE DEF take, L
<1>4. CASE HasRoom
  <2>1. entries # <<>> /\ L \in 1..L /\ entries[L].kind = "out" /\ entries[L] \in Entry
    BY <1>1, <1>4 DEF HasRoom, L
  <2>2. /\ Len(entries') = L /\ \A i \in 1..(L - 1) : entries'[i] = entries[i]
        /\ entries'[L] = Out(entries[L].pos, entries[L].n + take)
    BY <1>1, <1>2, <1>4, <2>1 DEF Coalesce, L
  <2>3. CostOf(entries') = CostOf(entries) - Cost(entries[L]) + Cost(entries'[L])
    BY <1>1, <2>1, <2>2, CostOfNewest DEF L
  <2>4. /\ Cost(entries[L]) = entries[L].n /\ Cost(entries'[L]) = entries[L].n + take
        /\ entries[L].n \in Nat
    BY <2>1, <2>2 DEF Cost, Out, Entry
  <2>5. retained \in Int /\ retained = CostOf(entries)
    BY <1>0 DEF TypeOK, Accounted
  <2>6. CostOf(entries') = retained + take
    BY <1>3, <2>3, <2>4, <2>5
  <2> QED
    BY <1>2, <2>6 DEF Accounted
<1>5. CASE ~HasRoom
  <2>1. entries' = Append(entries, Out(end, take))
    BY <1>2, <1>5
  <2>2. /\ Len(entries') = L + 1 /\ \A i \in 1..L : entries'[i] = entries[i]
        /\ entries'[L + 1] = Out(end, take)
    BY <1>1, <2>1 DEF L
  <2>3. CostOf(entries') = CostOf(entries) + Cost(entries'[L + 1])
    BY <1>1, <2>2, CostLonger DEF L
  <2>4. Cost(entries'[L + 1]) = take
    BY <2>2 DEF Cost, Out
  <2> QED
    BY <1>2, <2>3, <2>4 DEF Accounted
<1> QED
  BY <1>4, <1>5

LEMMA AccountedPushControl ==
    ASSUME IInv, Accounted, PushControl
    PROVE  Accounted'
<1>1. TypeOK /\ TypeOK'
  BY PushControlIInv DEF IInv
<1>2. entries \in Seq(Entry) /\ Len(entries) \in Nat /\ entries' \in Seq(Entry)
  BY <1>1 DEF TypeOK
<1>3. entries' = Append(entries, Ctl(end, nextCtl)) /\ retained' = retained + CtlCost
  BY DEF PushControl
<1>4. /\ Len(entries') = Len(entries) + 1 /\ \A i \in 1..Len(entries) : entries'[i] = entries[i]
      /\ entries'[Len(entries) + 1] = Ctl(end, nextCtl)
  BY <1>2, <1>3
<1>5. CostOf(entries') = CostOf(entries) + Cost(entries'[Len(entries) + 1])
  BY <1>2, <1>4, CostLonger
<1>6. Cost(entries'[Len(entries) + 1]) = CtlCost
  BY <1>4 DEF Cost, Ctl
<1> QED
  BY <1>3, <1>5, <1>6 DEF Accounted

LEMMA AccountedEvictOutput ==
    ASSUME IInv, Accounted, EvictOutput
    PROVE  Accounted'
<1>1. TypeOK /\ TypeOK' /\ RingShape
  BY EvictOutputIInv DEF IInv
<1>2. entries \in Seq(Entry) /\ entries' \in Seq(Entry)
  BY <1>1 DEF TypeOK
<1>3. PICK m : m = Min(Outputs)
  OBVIOUS
<1>4. m \in 1..Len(entries)
  BY <1>1, <1>3, AvailableFromFacts DEF EvictOutput, Evictable, RingShape
<1>5. entries' = RemoveAt(entries, m) /\ retained' = retained - Cost(entries[m])
  BY <1>3 DEF EvictOutput
<1>6. /\ Len(RemoveAt(entries, m)) = Len(entries) - 1
      /\ \A j \in 1..(Len(entries) - 1) :
           RemoveAt(entries, m)[j] = IF j < m THEN entries[j] ELSE entries[j + 1]
  BY <1>2, <1>4, RemoveAtFacts
<1>7. CostOf(entries') = CostOf(entries) - Cost(entries[m])
  BY <1>2, <1>4, <1>5, <1>6, CostWithout
<1> QED
  BY <1>5, <1>7 DEF Accounted

\* Taking the front control off, by force or by trimming.
LEMMA AccountedTail ==
    ASSUME entries \in Seq(Entry), entries' \in Seq(Entry), Accounted, entries # <<>>,
           entries' = Tail(entries), entries[1].kind = "ctl", retained' = retained - CtlCost
    PROVE  Accounted'
<1>1. /\ Len(Tail(entries)) = Len(entries) - 1 /\ Len(entries) \in Nat \ {0}
      /\ \A i \in 1..(Len(entries) - 1) : Tail(entries)[i] = entries[i + 1]
  BY TailFacts
<1>2. 1 \in 1..Len(entries)
  BY <1>1
<1>3. CostOf(entries') = CostOf(entries) - Cost(entries[1])
  <2>1. Len(entries') = Len(entries) - 1
    BY <1>1
  <2>2. \A i \in 1..(Len(entries) - 1) :
          entries'[i] = IF i < 1 THEN entries[i] ELSE entries[i + 1]
    BY <1>1
  <2> QED
    BY <1>2, <2>1, <2>2, CostWithout
<1>4. Cost(entries[1]) = CtlCost
  BY DEF Cost
<1> QED
  BY <1>3, <1>4 DEF Accounted

LEMMA AccountedEvictControl ==
    ASSUME IInv, Accounted, EvictControl
    PROVE  Accounted'
<1>1. TypeOK /\ TypeOK' /\ entries[1].kind = "ctl"
  BY EvictControlIInv DEF IInv
<1>2. entries \in Seq(Entry) /\ entries' \in Seq(Entry)
  BY <1>1 DEF TypeOK
<1>3. entries # <<>>
  BY <1>2 DEF EvictControl, OverBudget
<1>4. entries' = Tail(entries) /\ retained' = retained - CtlCost
  BY <1>1 DEF EvictControl
<1> QED
  BY <1>1, <1>2, <1>3, <1>4, AccountedTail

LEMMA AccountedTrimControl ==
    ASSUME IInv, Accounted, TrimControl
    PROVE  Accounted'
<1>1. TypeOK /\ TypeOK'
  BY TrimControlIInv DEF IInv
<1>2. entries \in Seq(Entry) /\ entries' \in Seq(Entry)
  BY <1>1 DEF TypeOK
<1>3. /\ entries # <<>> /\ entries[1].kind = "ctl"
      /\ entries' = Tail(entries) /\ retained' = retained - CtlCost
  BY DEF TrimControl, StaleFront
<1> QED
  BY <1>2, <1>3, AccountedTail

\* Every step keeps the counter exact.
LEMMA NextAccounted == IInv /\ Accounted /\ [Next]_vars => Accounted'
<1> SUFFICES ASSUME IInv, Accounted, [Next]_vars PROVE Accounted'
  OBVIOUS
<1>1. CASE AppendOutput
  BY <1>1, AccountedAppend
<1>2. CASE PushControl
  BY <1>2, AccountedPushControl
<1>3. CASE EvictOutput
  BY <1>3, AccountedEvictOutput
<1>4. CASE EvictControl
  BY <1>4, AccountedEvictControl
<1>5. CASE TrimControl
  BY <1>5, AccountedTrimControl
<1>6. CASE UNCHANGED <<entries, retained>>
  BY <1>6 DEF Accounted
<1>7. \/ AppendOutput \/ PushControl \/ EvictOutput \/ EvictControl \/ TrimControl
      \/ UNCHANGED <<entries, retained>>
  BY DEF Next, vars, ringVars, Push, TrimDone, EvictDone, Reopen, BeginRead, ReadChunk, ReadCtl,
         EndRead
<1> QED
  BY <1>1, <1>2, <1>3, <1>4, <1>5, <1>6, <1>7

\* evict ends only within the budget, or with the one entry it never takes.
LEMMA NextWithinBudget ==
    IInv /\ Accounted /\ WithinBudget /\ [Next]_vars => WithinBudget'
<1> SUFFICES ASSUME IInv, Accounted, WithinBudget, [Next]_vars, phase' \in {"free", "read"}
             PROVE  (retained <= budget \/ Len(entries) = 1)'
  BY DEF WithinBudget
<1>1. CASE EvictDone
  <2>1. entries \in Seq(Entry) /\ Len(entries) \in Nat /\ budget \in Nat /\ retained \in Int
    BY DEF IInv, TypeOK
  <2>2. CASE Len(entries) = 0
    <3>1. entries = <<>>
      BY <2>1, <2>2
    <3>2. retained = 0
      BY <3>1, CostEmpty DEF Accounted
    <3> QED
      BY <1>1, <2>1, <3>2 DEF EvictDone, ringVars
  <2>3. CASE Len(entries) # 0
    <3>1. Len(entries) \in Nat \ {0} /\ ~(retained > budget /\ Len(entries) > 1)
      BY <1>1, <2>1, <2>3 DEF EvictDone, OverBudget
    <3>2. retained <= budget \/ Len(entries) = 1
      BY <2>1, <3>1
    <3> QED
      BY <1>1, <3>2 DEF EvictDone, ringVars
  <2> QED
    BY <2>2, <2>3
<1>2. CASE phase \in {"free", "read"} /\ UNCHANGED <<retained, budget, entries>>
  BY <1>2 DEF WithinBudget
<1>3. EvictDone \/ (phase \in {"free", "read"} /\ UNCHANGED <<retained, budget, entries>>)
  BY DEF Next, vars, ringVars, Push, AppendOutput, PushControl, EvictOutput, EvictControl, TrimControl,
         TrimDone, Reopen, BeginRead, ReadChunk, ReadCtl, EndRead
<1> QED
  BY <1>1, <1>2, <1>3

\* The byte budget holds whenever a push has returned, and the counter evict
\* compares with it is what the entries cost, for every budget and chunk size.
THEOREM BudgetIsRespected == Spec => []BudgetRespected
<1>1. Init => Accounted /\ WithinBudget
  <2>1. ASSUME Init PROVE budget \in Nat
    BY <2>1, RingConstants DEF Init, AtLeastOne
  <2> QED
    BY <2>1, CostEmpty DEF Init, Accounted, WithinBudget
<1>2. IInv /\ Accounted /\ WithinBudget /\ [Next]_vars => (Accounted /\ WithinBudget)'
  BY NextAccounted, NextWithinBudget
<1>3. Accounted /\ WithinBudget => BudgetRespected
  BY DEF Accounted, WithinBudget, BudgetRespected
<1> QED
  BY <1>1, <1>2, <1>3, RingInvariant, PTL DEF Spec

-----------------------------------------------------------------------------
(* The log and the cursors' places in it, as functions of the controls s and  *)
(* of the end e of the stream.                                                *)

\* A bounded nonempty set of naturals has a greatest element, and Max returns it.
LEMMA MaxOfNats ==
    ASSUME NEW S \in SUBSET Nat, S # {}, NEW b \in Nat, \A y \in S : y <= b
    PROVE  /\ Max(S) \in S
           /\ \A y \in S : y <= Max(S)
<1> DEFINE T == {b - y : y \in S}
<1>1. T \in SUBSET Nat /\ T # {}
  <2>1. \A y \in S : b - y \in Nat
    OBVIOUS
  <2>2. PICK y \in S : TRUE
    OBVIOUS
  <2>3. b - y \in T
    OBVIOUS
  <2> QED
    BY <2>1, <2>3
<1>2. PICK m \in T : \A z \in T : m <= z
  <2> HIDE DEF T
  <2> QED
    BY <1>1, MinOfNats
<1>3. PICK x \in S : m = b - x
  BY <1>2
<1>4. ASSUME NEW y \in S PROVE y <= x
  <2>1. b - y \in T
    OBVIOUS
  <2>2. b - x <= b - y /\ x \in Nat /\ y \in Nat
    BY <1>2, <1>3, <2>1
  <2> QED
    BY <2>2
<1>5. \A y \in S : x >= y
  BY <1>4
<1>6. Max(S) \in S /\ \A y \in S : Max(S) >= y
  BY <1>5 DEF Max
<1> QED
  BY <1>6

\* Passed, of any sequence of controls.
PassedOf(s, a, c) == Max({c} \cup {i \in DOMAIN s : s[i] < a})

\* Passed is PassedOf the controls pushed so far.
LEMMA PassedIsOf == ASSUME NEW a, NEW c PROVE Passed(a, c) = PassedOf(ctlAt, a, c)
  BY DEF Passed, PassedOf

\* What a cursor has passed: its own control, every control before its offset, and
\* no other.
LEMMA PassedFacts ==
    ASSUME NEW s \in Seq(Nat), NEW a \in Nat, NEW c \in Nat
    PROVE  /\ PassedOf(s, a, c) \in Nat /\ c <= PassedOf(s, a, c)
           /\ \A i \in 1..Len(s) : s[i] < a => i <= PassedOf(s, a, c)
           /\ \/ PassedOf(s, a, c) = c
              \/ PassedOf(s, a, c) \in 1..Len(s) /\ s[PassedOf(s, a, c)] < a
<1> DEFINE S == {c} \cup {i \in DOMAIN s : s[i] < a}
<1>1. DOMAIN s = 1..Len(s) /\ Len(s) \in Nat
  OBVIOUS
<1>2. S \in SUBSET Nat /\ S # {} /\ \A y \in S : y <= c + Len(s)
  BY <1>1
<1>3. c + Len(s) \in Nat
  BY <1>1
<1>4. PassedOf(s, a, c) = Max(S)
  BY DEF PassedOf
<1>5. Max(S) \in S /\ \A y \in S : y <= Max(S)
  <2> HIDE DEF S
  <2> QED
    BY <1>2, <1>3, MaxOfNats
<1>6. c \in S /\ \A i \in 1..Len(s) : s[i] < a => i \in S
  BY <1>1
<1>7. PICK m \in S : m = PassedOf(s, a, c) /\ \A y \in S : y <= m
  BY <1>4, <1>5
<1>8. m \in Nat /\ (m = c \/ (m \in 1..Len(s) /\ s[m] < a))
  <2>1. m = c \/ (m \in DOMAIN s /\ s[m] < a)
    OBVIOUS
  <2> QED
    BY <1>1, <2>1
<1>9. c <= m /\ \A i \in 1..Len(s) : s[i] < a => i <= m
  BY <1>6, <1>7
<1> QED
  BY <1>7, <1>8, <1>9

\* The number that has these properties is the one.
LEMMA PassedIs ==
    ASSUME NEW s \in Seq(Nat), NEW a \in Nat, NEW c \in Nat, NEW m \in Nat, c <= m,
           \A i \in 1..Len(s) : s[i] < a => i <= m,
           m = c \/ (m \in 1..Len(s) /\ s[m] < a)
    PROVE  PassedOf(s, a, c) = m
<1>1. PICK n \in Nat : n = PassedOf(s, a, c)
  BY PassedFacts
<1>2. /\ c <= n /\ \A i \in 1..Len(s) : s[i] < a => i <= n
      /\ n = c \/ (n \in 1..Len(s) /\ s[n] < a)
  BY <1>1, PassedFacts
<1>3. n <= m
  BY <1>2
<1>4. m <= n
  BY <1>2
<1> QED
  BY <1>1, <1>3, <1>4

\* Controls are numbered in the order of their offsets.
Sorted(s) == \A i, j \in 1..Len(s) : i <= j => s[i] <= s[j]

\* WholeLog, of any sequence of controls and any end.
LogOf(s, e) ==
    [k \in 1..(e + Len(s)) |->
        LET before == {i \in DOMAIN s : s[i] + i < k}
            here == {i \in DOMAIN s : s[i] + i = k}
        IN  IF here # {} THEN CtlItem(Max(here)) ELSE ByteItem(k - Cardinality(before))]

\* WholeLog is LogOf the controls and the bytes pushed so far.
LEMMA WholeLogIsOf == WholeLog = LogOf(ctlAt, end)
  BY DEF WholeLog, LogOf

\* What the log holds.
LogItem == {"byte", "ctl"} \X Int

\* The log is a sequence with one item for each byte and each control.
LEMMA LogTyped ==
    ASSUME NEW s \in Seq(Nat), NEW e \in Nat
    PROVE  LogOf(s, e) \in Seq(LogItem) /\ Len(LogOf(s, e)) = e + Len(s)
<1>1. DOMAIN s = 1..Len(s) /\ Len(s) \in Nat /\ \A i \in 1..Len(s) : s[i] \in Nat
  OBVIOUS
<1>2. ASSUME NEW k \in 1..(e + Len(s)) PROVE LogOf(s, e)[k] \in LogItem
  <2> DEFINE before == {i \in DOMAIN s : s[i] + i < k}
             here == {i \in DOMAIN s : s[i] + i = k}
  <2>1. LogOf(s, e)[k] = IF here # {} THEN CtlItem(Max(here)) ELSE ByteItem(k - Cardinality(before))
    BY DEF LogOf
  <2>2. IsFiniteSet(before)
    <3>1. before \subseteq 1..Len(s) /\ IsFiniteSet(1..Len(s))
      BY <1>1, FS_Interval
    <3> QED
      BY <3>1, FS_Subset
  <2>3. Cardinality(before) \in Nat
    BY <2>2, FS_CardinalityType
  <2>4. here # {} => Max(here) \in Nat
    <3>1. here \in SUBSET Nat /\ \A y \in here : y <= Len(s)
      BY <1>1
    <3> HIDE DEF here
    <3> QED
      BY <1>1, <3>1, MaxOfNats
  <2> HIDE DEF before, here
  <2>5. PICK n \in Nat : n = Cardinality(before)
    BY <2>3
  <2>6. ByteItem(k - n) \in LogItem
    BY DEF ByteItem, LogItem
  <2>7. CASE here # {}
    <3>1. PICK h \in Nat : h = Max(here)
      BY <2>4, <2>7
    <3>2. CtlItem(h) \in LogItem
      BY DEF CtlItem, LogItem
    <3> QED
      BY <2>1, <2>7, <3>1, <3>2
  <2>8. CASE ~(here # {})
    BY <2>1, <2>5, <2>6, <2>8
  <2> QED
    BY <2>7, <2>8
<1>3. DOMAIN LogOf(s, e) = 1..(e + Len(s)) /\ e + Len(s) \in Nat
  BY <1>1 DEF LogOf
<1>4. LogOf(s, e) = [k \in 1..(e + Len(s)) |-> LogOf(s, e)[k]]
  BY DEF LogOf
<1>5. LogOf(s, e) \in [1..(e + Len(s)) -> LogItem]
  BY <1>2, <1>4
<1> QED
  BY <1>3, <1>5

\* A control is in the log at the place after the bytes and controls before it.
LEMMA LogCtl ==
    ASSUME NEW s \in Seq(Nat), NEW e \in Nat, Sorted(s), NEW i \in 1..Len(s), s[i] <= e
    PROVE  LogOf(s, e)[s[i] + i] = CtlItem(i)
<1>1. DOMAIN s = 1..Len(s) /\ Len(s) \in Nat /\ \A j \in 1..Len(s) : s[j] \in Nat
  OBVIOUS
<1>2. PICK k \in 1..(e + Len(s)) : k = s[i] + i
  BY <1>1
<1> DEFINE here == {j \in DOMAIN s : s[j] + j = k}
<1>3. here = {i}
  <2>1. ASSUME NEW j \in 1..Len(s), s[j] + j = k PROVE j = i
    <3>1. s[j] \in Nat /\ s[i] \in Nat /\ (i <= j => s[i] <= s[j]) /\ (j <= i => s[j] <= s[i])
      BY <1>1 DEF Sorted
    <3> QED
      BY <1>2, <2>1, <3>1
  <2> QED
    BY <1>1, <1>2, <2>1
<1>4. Max({i}) = i
  BY DEF Max
<1>5. LogOf(s, e)[k] = IF here # {} THEN CtlItem(Max(here))
                       ELSE ByteItem(k - Cardinality({j \in DOMAIN s : s[j] + j < k}))
  BY DEF LogOf
<1> HIDE DEF here
<1> QED
  BY <1>2, <1>3, <1>4, <1>5

\* Any other place holds the byte whose number is that of the bytes up to it.
LEMMA LogByte ==
    ASSUME NEW s \in Seq(Nat), NEW e \in Nat, NEW k \in 1..(e + Len(s)), NEW m \in 0..Len(s),
           \A i \in 1..m : s[i] + i < k,
           \A i \in (m + 1)..Len(s) : s[i] + i > k
    PROVE  LogOf(s, e)[k] = ByteItem(k - m)
<1>1. DOMAIN s = 1..Len(s) /\ Len(s) \in Nat /\ \A j \in 1..Len(s) : s[j] \in Nat
  OBVIOUS
<1> DEFINE before == {i \in DOMAIN s : s[i] + i < k}
           here == {i \in DOMAIN s : s[i] + i = k}
<1>2. ASSUME NEW i \in 1..Len(s) PROVE s[i] + i # k /\ (s[i] + i < k <=> i \in 1..m)
  <2>1. CASE i <= m
    <3>1. i \in 1..m /\ s[i] + i < k /\ s[i] \in Nat
      BY <1>1, <2>1
    <3> QED
      BY <3>1
  <2>2. CASE ~(i <= m)
    <3>1. i \in (m + 1)..Len(s) /\ s[i] + i > k /\ s[i] \in Nat
      BY <1>1, <2>2
    <3> QED
      BY <2>2, <3>1
  <2> QED
    BY <2>1, <2>2
<1>3. here = {}
  BY <1>1, <1>2
<1>4. before = 1..m
  BY <1>1, <1>2
<1>5. Cardinality(1..m) = m
  BY FS_Interval
<1>6. LogOf(s, e)[k] = IF here # {} THEN CtlItem(Max(here)) ELSE ByteItem(k - Cardinality(before))
  BY DEF LogOf
<1> HIDE DEF here, before
<1> QED
  BY <1>3, <1>4, <1>5, <1>6

\* What is pushed later is behind everything in the log.
LEMMA LogLonger ==
    ASSUME NEW s \in Seq(Nat), NEW e \in Nat, NEW t \in Seq(Nat), NEW f \in Nat,
           e <= f, Len(s) <= Len(t), \A i \in 1..Len(s) : t[i] = s[i],
           \A i \in (Len(s) + 1)..Len(t) : t[i] >= e
    PROVE  SubSeq(LogOf(t, f), 1, Len(LogOf(s, e))) = LogOf(s, e)
<1>1. /\ DOMAIN s = 1..Len(s) /\ Len(s) \in Nat /\ \A j \in 1..Len(s) : s[j] \in Nat
      /\ DOMAIN t = 1..Len(t) /\ Len(t) \in Nat /\ \A j \in 1..Len(t) : t[j] \in Nat
  OBVIOUS
<1>2. ASSUME NEW k \in 1..(e + Len(s)) PROVE LogOf(t, f)[k] = LogOf(s, e)[k]
  <2>1. k \in 1..(f + Len(t))
    BY <1>1
  <2>2. ASSUME NEW i \in 1..Len(t), t[i] + i <= k PROVE i \in 1..Len(s)
    <3>1. CASE i <= Len(s)
      BY <1>1, <3>1
    <3>2. CASE ~(i <= Len(s))
      <4>1. i \in (Len(s) + 1)..Len(t) /\ t[i] >= e /\ t[i] \in Nat
        BY <1>1, <3>2
      <4> QED
        BY <1>1, <2>2, <4>1
    <3> QED
      BY <3>1, <3>2
  <2>3. \A i \in 1..Len(t) : t[i] + i \in Nat
    BY <1>1
  <2>4. {i \in DOMAIN t : t[i] + i < k} = {i \in DOMAIN s : s[i] + i < k}
    BY <1>1, <2>2, <2>3
  <2>5. {i \in DOMAIN t : t[i] + i = k} = {i \in DOMAIN s : s[i] + i = k}
    BY <1>1, <2>2, <2>3
  <2>6. LogOf(t, f)[k] = IF {i \in DOMAIN t : t[i] + i = k} # {}
                           THEN CtlItem(Max({i \in DOMAIN t : t[i] + i = k}))
                           ELSE ByteItem(k - Cardinality({i \in DOMAIN t : t[i] + i < k}))
    BY <2>1 DEF LogOf
  <2>7. LogOf(s, e)[k] = IF {i \in DOMAIN s : s[i] + i = k} # {}
                           THEN CtlItem(Max({i \in DOMAIN s : s[i] + i = k}))
                           ELSE ByteItem(k - Cardinality({i \in DOMAIN s : s[i] + i < k}))
    BY DEF LogOf
  <2> QED
    BY <2>4, <2>5, <2>6, <2>7, Zenon
<1>3. PICK u \in Seq(LogItem) : u = LogOf(t, f) /\ Len(u) = f + Len(t)
  BY LogTyped
<1>4. PICK v \in Seq(LogItem) : v = LogOf(s, e) /\ Len(v) = e + Len(s)
  BY LogTyped
<1>5. Len(v) \in Nat /\ Len(v) <= Len(u)
  BY <1>1, <1>3, <1>4
<1>6. \A k \in 1..Len(v) : u[k] = v[k]
  BY <1>2, <1>3, <1>4
<1>7. SubSeq(u, 1, Len(v)) = v
  BY <1>5, <1>6
<1> QED
  BY <1>3, <1>4, <1>7

-----------------------------------------------------------------------------
(* What a read delivers.  ItemsOf is a recursive function too: the one        *)
(* sequence of ever longer deliveries.                                        *)

\* g gathers the items of the events of s one after another.
Deliveries(s, g) == g = [i \in 0..Len(s) |-> IF i = 0 THEN <<>> ELSE g[i - 1] \o Items(s[i])]

\* So it does for the first n events.
DeliversUpTo(s, g, n) == g[0] = <<>> /\ \A i \in 1..n : g[i] = g[i - 1] \o Items(s[i])

\* The items of an event are items of the log.
LEMMA ItemsTyped ==
    ASSUME NEW e \in Entry
    PROVE  /\ Items(e) \in Seq(LogItem)
           /\ e.kind = "ctl" => Items(e) = <<CtlItem(e.n)>> /\ Len(Items(e)) = 1
           /\ e.kind = "out" => /\ Len(Items(e)) = e.n
                                /\ \A k \in 1..e.n : Items(e)[k] = ByteItem(e.pos + k)
<1>1. e.kind \in {"out", "ctl"} /\ e.pos \in Nat /\ e.n \in Nat
  BY DEF Entry
<1>2. CASE e.kind = "ctl"
  <2>1. CtlItem(e.n) \in LogItem /\ Items(e) = <<CtlItem(e.n)>>
    BY <1>1, <1>2 DEF CtlItem, LogItem, Items
  <2> QED
    BY <1>2, <2>1
<1>3. CASE e.kind = "out"
  <2> DEFINE r == [k \in 1..e.n |-> ByteItem(e.pos + k)]
  <2>1. Items(e) = r
    BY <1>3 DEF Items
  <2>2. \A k \in 1..e.n : ByteItem(e.pos + k) \in LogItem
    BY <1>1 DEF ByteItem, LogItem
  <2>3. r \in Seq(LogItem) /\ Len(r) = e.n /\ \A k \in 1..e.n : r[k] = ByteItem(e.pos + k)
    BY <1>1, <2>2
  <2> HIDE DEF r
  <2> QED
    BY <1>3, <2>1, <2>3
<1> QED
  BY <1>1, <1>2, <1>3

\* The deliveries of any events exist.
LEMMA DeliveriesExist ==
    ASSUME NEW s \in Seq(Entry), NEW n \in 0..Len(s)
    PROVE  \E g \in [0..n -> Seq(LogItem)] : DeliversUpTo(s, g, n)
<1> DEFINE P(k) == \E g \in [0..k -> Seq(LogItem)] : DeliversUpTo(s, g, k)
           Bad == {k \in Nat : k <= Len(s) /\ ~P(k)}
<1>0. Len(s) \in Nat /\ n \in Nat /\ n <= Len(s)
  OBVIOUS
<1>1. P(0)
  <2>1. PICK z \in Seq(LogItem) : z = <<>>
    BY EmptySeq
  <2>2. [i \in 0..0 |-> z] \in [0..0 -> Seq(LogItem)] /\ DeliversUpTo(s, [i \in 0..0 |-> z], 0)
    BY <2>1 DEF DeliversUpTo
  <2> QED
    BY <2>2
<1>2. ASSUME NEW k \in Nat, k + 1 <= Len(s), P(k)
      PROVE  P(k + 1)
  <2>1. PICK g \in [0..k -> Seq(LogItem)] : DeliversUpTo(s, g, k)
    BY <1>2
  <2>2. s[k + 1] \in Entry
    BY <1>0, <1>2
  <2>3. PICK c \in Seq(LogItem) : c = Items(s[k + 1])
    BY <2>2, ItemsTyped
  <2>4. PICK x \in Seq(LogItem) : x = g[k]
    OBVIOUS
  <2>5. PICK y \in Seq(LogItem) : y = x \o c
    BY ConcatProperties
  <2> DEFINE h == [i \in 0..(k + 1) |-> IF i <= k THEN g[i] ELSE y]
  <2>6. h \in [0..(k + 1) -> Seq(LogItem)]
    <3>1. \A i \in 0..(k + 1) : i <= k => i \in 0..k
      OBVIOUS
    <3> QED
      BY <3>1
  <2>7. h[0] = <<>>
    BY <2>1 DEF DeliversUpTo
  <2>8. ASSUME NEW i \in 1..(k + 1) PROVE h[i] = h[i - 1] \o Items(s[i])
    <3>1. CASE i <= k
      <4>1. i \in 1..k /\ i - 1 \in 0..(k + 1) /\ i - 1 <= k
        BY <3>1
      <4>2. h[i] = g[i] /\ h[i - 1] = g[i - 1]
        BY <3>1, <4>1
      <4> QED
        BY <2>1, <4>1, <4>2 DEF DeliversUpTo
    <3>2. CASE i = k + 1
      <4>1. ~(i <= k) /\ i - 1 = k /\ k \in 0..(k + 1) /\ k + 1 \in 0..(k + 1)
        BY <3>2
      <4>2. h[i] = y /\ h[i - 1] = g[k]
        BY <3>2, <4>1
      <4> HIDE DEF h
      <4> QED
        BY <2>3, <2>4, <2>5, <3>2, <4>2
    <3>3. i <= k \/ i = k + 1
      OBVIOUS
    <3> HIDE DEF h
    <3> QED
      BY <3>1, <3>2, <3>3
  <2> HIDE DEF h
  <2> QED
    BY <2>6, <2>7, <2>8 DEF DeliversUpTo
<1> HIDE DEF P
<1>3. Bad = {}
  <2>1. SUFFICES ASSUME Bad # {} PROVE FALSE
    OBVIOUS
  <2>2. Bad \in SUBSET Nat
    OBVIOUS
  <2>3. Min(Bad) \in Bad /\ \A y \in Bad : Min(Bad) <= y
    BY <2>1, <2>2, MinOfNats
  <2>4. PICK m \in Bad : \A y \in Bad : m <= y
    BY <2>3
  <2>5. m \in Nat /\ m <= Len(s) /\ ~P(m) /\ m # 0
    BY <1>1
  <2>6. m - 1 \in Nat /\ m - 1 <= Len(s) /\ m - 1 \notin Bad
    BY <2>4, <2>5, <1>0
  <2>7. P(m - 1)
    BY <2>6
  <2>8. PICK k \in Nat : k = m - 1
    BY <2>6
  <2>9. P(k + 1)
    BY <1>2, <2>5, <2>7, <2>8
  <2> QED
    BY <2>5, <2>8, <2>9
<1> QED
  BY <1>0, <1>3 DEF P

\* Any deliveries of a list of events end in its items.
LEMMA ItemsAreDelivered ==
    ASSUME NEW s \in Seq(Entry), NEW g \in [0..Len(s) -> Seq(LogItem)], DeliversUpTo(s, g, Len(s))
    PROVE  ItemsOf(s) = g[Len(s)]
<1>0. Len(s) \in Nat
  OBVIOUS
<1> DEFINE f == CHOOSE h : Deliveries(s, h)
<1>1. Deliveries(s, g)
  <2> DEFINE h == [i \in 0..Len(s) |-> IF i = 0 THEN <<>> ELSE g[i - 1] \o Items(s[i])]
  <2>1. ASSUME NEW i \in 0..Len(s) PROVE g[i] = h[i]
    <3>1. CASE i = 0
      BY <3>1 DEF DeliversUpTo
    <3>2. CASE i # 0
      <4>1. i \in 1..Len(s)
        BY <1>0, <3>2
      <4> QED
        BY <3>2, <4>1 DEF DeliversUpTo
    <3> QED
      BY <3>1, <3>2
  <2>2. g = h
    <3>1. g = [i \in 0..Len(s) |-> g[i]]
      OBVIOUS
    <3> HIDE DEF h
    <3>2. h = [i \in 0..Len(s) |-> h[i]]
      BY DEF h
    <3> QED
      BY <2>1, <3>1, <3>2
  <2> QED
    BY <2>2 DEF Deliveries
<1>2. Deliveries(s, f)
  BY <1>1
<1>3. ItemsOf(s) = f[Len(s)]
  BY Zenon DEF ItemsOf, Deliveries
<1> HIDE DEF f
<1>4. f[0] = <<>> /\ \A i \in 1..Len(s) : f[i] = f[i - 1] \o Items(s[i])
  <2>1. f = [i \in 0..Len(s) |-> IF i = 0 THEN <<>> ELSE f[i - 1] \o Items(s[i])]
    BY <1>2 DEF Deliveries
  <2>2. 0 \in 0..Len(s) /\ \A i \in 1..Len(s) : i \in 0..Len(s) /\ i # 0
    BY <1>0
  <2> QED
    BY <2>1, <2>2
<1> DEFINE Bad == {k \in Nat : k <= Len(s) /\ f[k] # g[k]}
<1>5. Bad = {}
  <2>1. SUFFICES ASSUME Bad # {} PROVE FALSE
    OBVIOUS
  <2>2. Bad \in SUBSET Nat
    OBVIOUS
  <2>3. Min(Bad) \in Bad /\ \A y \in Bad : Min(Bad) <= y
    BY <2>1, <2>2, MinOfNats
  <2>4. PICK m \in Bad : \A y \in Bad : m <= y
    BY <2>3
  <2>5. m \in Nat /\ m <= Len(s) /\ f[m] # g[m] /\ m # 0
    BY <1>4 DEF DeliversUpTo
  <2>6. m - 1 \in Nat /\ m - 1 <= Len(s) /\ m - 1 \notin Bad
    BY <2>4, <2>5, <1>0
  <2>7. f[m - 1] = g[m - 1]
    BY <2>6
  <2>8. m \in 1..Len(s)
    BY <2>5, <1>0
  <2>9. f[m] = f[m - 1] \o Items(s[m]) /\ g[m] = g[m - 1] \o Items(s[m])
    BY <2>8, <1>4 DEF DeliversUpTo
  <2> QED
    BY <2>5, <2>7, <2>9
<1> QED
  BY <1>0, <1>3, <1>5

\* Nothing read, nothing delivered.
LEMMA ItemsNone == ItemsOf(<<>>) = <<>>
<1>1. <<>> \in Seq(Entry) /\ Len(<<>>) = 0 /\ 0 \in 0..0
  OBVIOUS
<1>2. PICK g \in [0..0 -> Seq(LogItem)] : DeliversUpTo(<<>>, g, 0)
  BY <1>1, DeliveriesExist
<1>3. ItemsOf(<<>>) = g[0]
  BY <1>1, <1>2, ItemsAreDelivered
<1> QED
  BY <1>2, <1>3 DEF DeliversUpTo

\* One more event delivers its items after those of the others.
LEMMA ItemsMore ==
    ASSUME NEW s \in Seq(Entry), NEW e \in Entry
    PROVE  ItemsOf(s) \in Seq(LogItem) /\ ItemsOf(Append(s, e)) = ItemsOf(s) \o Items(e)
<1>0. Len(s) \in Nat /\ Len(s) \in 0..Len(s)
  OBVIOUS
<1>1. PICK t \in Seq(Entry) : t = Append(s, e)
  BY AppendProperties
<1>2. Len(t) = Len(s) + 1 /\ t[Len(t)] = e /\ \A i \in 1..Len(s) : t[i] = s[i]
  BY <1>0, <1>1
<1>3. Len(t) \in 0..Len(t) /\ Len(t) \in 1..Len(t) /\ Len(t) - 1 = Len(s)
  BY <1>0, <1>2
<1>4. PICK h \in [0..Len(t) -> Seq(LogItem)] : DeliversUpTo(t, h, Len(t))
  BY <1>3, DeliveriesExist
<1>5. ItemsOf(t) = h[Len(t)]
  BY <1>4, ItemsAreDelivered
<1> DEFINE k == [i \in 0..Len(s) |-> h[i]]
<1>6. k \in [0..Len(s) -> Seq(LogItem)]
  BY <1>0, <1>2
<1>7. DeliversUpTo(s, k, Len(s))
  <2>1. k[0] = <<>>
    BY <1>0, <1>4 DEF DeliversUpTo
  <2>2. ASSUME NEW i \in 1..Len(s) PROVE k[i] = k[i - 1] \o Items(s[i])
    <3>1. i \in 1..Len(t) /\ i - 1 \in 0..Len(s) /\ i \in 0..Len(s)
      BY <1>0, <1>2
    <3>2. h[i] = h[i - 1] \o Items(t[i])
      BY <3>1, <1>4 DEF DeliversUpTo
    <3> QED
      BY <1>2, <3>1, <3>2
  <2> HIDE DEF k
  <2> QED
    BY <2>1, <2>2 DEF DeliversUpTo
<1>8. k[Len(s)] = h[Len(s)] /\ h[Len(s)] \in Seq(LogItem)
  BY <1>0, <1>2
<1>9. ItemsOf(s) = k[Len(s)]
  <2> HIDE DEF k
  <2> QED
    BY <1>6, <1>7, ItemsAreDelivered
<1>10. h[Len(t)] = h[Len(s)] \o Items(e)
  <2>1. h[Len(t)] = h[Len(t) - 1] \o Items(t[Len(t)])
    BY <1>3, <1>4 DEF DeliversUpTo
  <2> QED
    BY <1>2, <1>3, <2>1
<1> HIDE DEF k
<1> QED
  BY <1>1, <1>5, <1>8, <1>9, <1>10

-----------------------------------------------------------------------------
(* The oldest offset kept, as a function of the entries s and of the end e.   *)

\* AvailableFrom, of any deque and any end.
AvailOf(s, e) == LET outs == {i \in DOMAIN s : s[i].kind = "out"}
                 IN  IF outs = {} THEN e ELSE s[Min(outs)].pos

\* AvailableFrom is AvailOf the ring's deque.
LEMMA AvailIsOf == AvailableFrom = AvailOf(entries, end)
  BY DEF AvailableFrom, Outputs, AvailOf

\* It is the position of the first chunk.
LEMMA AvailFirst ==
    ASSUME NEW s \in Seq(Entry), NEW e, NEW j \in 1..Len(s), s[j].kind = "out",
           \A k \in 1..(j - 1) : s[k].kind # "out"
    PROVE  AvailOf(s, e) = s[j].pos
<1> DEFINE O == {i \in DOMAIN s : s[i].kind = "out"}
<1>1. O \in SUBSET Nat /\ j \in O
  OBVIOUS
<1>2. PICK m \in O : m = Min(O) /\ \A y \in O : m <= y
  <2> HIDE DEF O
  <2> QED
    BY <1>1, MinOfNats
<1>3. m <= j /\ m \in 1..Len(s) /\ s[m].kind = "out"
  BY <1>1, <1>2
<1>4. m = j
  BY <1>3
<1>5. AvailOf(s, e) = IF O = {} THEN e ELSE s[Min(O)].pos
  BY DEF AvailOf
<1> HIDE DEF O
<1> QED
  BY <1>1, <1>2, <1>4, <1>5

\* It is the end of the stream when no chunk is kept.
LEMMA AvailNone ==
    ASSUME NEW s \in Seq(Entry), NEW e, \A k \in 1..Len(s) : s[k].kind # "out"
    PROVE  AvailOf(s, e) = e
  BY DEF AvailOf

\* No chunk is kept, or there is a first one.
LEMMA AvailCases ==
    ASSUME NEW s \in Seq(Entry)
    PROVE  \/ \A k \in 1..Len(s) : s[k].kind # "out"
           \/ \E j \in 1..Len(s) : s[j].kind = "out" /\ \A k \in 1..(j - 1) : s[k].kind # "out"
<1> SUFFICES ASSUME NEW i \in 1..Len(s), s[i].kind = "out"
             PROVE  \E j \in 1..Len(s) : s[j].kind = "out" /\ \A k \in 1..(j - 1) : s[k].kind # "out"
  OBVIOUS
<1> DEFINE O == {k \in 1..Len(s) : s[k].kind = "out"}
<1>1. O \in SUBSET Nat /\ i \in O
  OBVIOUS
<1>2. PICK m \in O : \A y \in O : m <= y
  <2> HIDE DEF O
  <2> QED
    BY <1>1, MinOfNats
<1>3. m \in 1..Len(s) /\ s[m].kind = "out" /\ Len(s) \in Nat
  OBVIOUS
<1>4. \A k \in 1..(m - 1) : s[k].kind # "out"
  <2> SUFFICES ASSUME NEW k \in 1..(m - 1), s[k].kind = "out" PROVE FALSE
    OBVIOUS
  <2>1. k \in 1..Len(s) /\ k \in Nat /\ m \in Nat /\ k < m
    BY <1>3
  <2>2. k \in O
    BY <2>1
  <2> QED
    BY <1>2, <2>1, <2>2
<1> QED
  BY <1>3, <1>4

\* A chunk or a control appended at the end leaves it where it was.
LEMMA AvailAppend ==
    ASSUME NEW s \in Seq(Entry), NEW e, NEW f, NEW x \in Entry,
           \/ x.kind = "out" /\ x.pos = e
           \/ x.kind = "ctl" /\ f = e
    PROVE  AvailOf(Append(s, x), f) = AvailOf(s, e)
<1>1. PICK t \in Seq(Entry) : t = Append(s, x)
  BY AppendProperties
<1>2. Len(s) \in Nat /\ Len(t) = Len(s) + 1 /\ t[Len(s) + 1] = x /\ \A k \in 1..Len(s) : t[k] = s[k]
  BY <1>1
<1>3. CASE \A k \in 1..Len(s) : s[k].kind # "out"
  <2>1. AvailOf(s, e) = e
    BY <1>3, AvailNone
  <2>2. CASE x.kind = "out" /\ x.pos = e
    <3>1. Len(t) \in 1..Len(t) /\ t[Len(t)].kind = "out" /\ t[Len(t)].pos = e
          /\ \A k \in 1..(Len(t) - 1) : t[k].kind # "out"
      BY <1>2, <1>3, <2>2
    <3>2. AvailOf(t, f) = e
      BY <3>1, AvailFirst
    <3> QED
      BY <1>1, <2>1, <3>2
  <2>3. CASE x.kind = "ctl" /\ f = e
    <3>1. \A k \in 1..Len(t) : t[k].kind # "out"
      <4> TAKE k \in 1..Len(t)
      <4>1. k \in 1..Len(s) \/ k = Len(s) + 1
        BY <1>2
      <4> QED
        BY <1>2, <1>3, <2>3, <4>1
    <3>2. AvailOf(t, f) = e
      BY <2>3, <3>1, AvailNone
    <3> QED
      BY <1>1, <2>1, <3>2
  <2> QED
    BY <2>2, <2>3
<1>4. CASE \E j \in 1..Len(s) : s[j].kind = "out" /\ \A k \in 1..(j - 1) : s[k].kind # "out"
  <2>1. PICK j \in 1..Len(s) : s[j].kind = "out" /\ \A k \in 1..(j - 1) : s[k].kind # "out"
    BY <1>4
  <2>2. AvailOf(s, e) = s[j].pos
    BY <2>1, AvailFirst
  <2>3. j \in 1..Len(t) /\ t[j] = s[j] /\ \A k \in 1..(j - 1) : t[k] = s[k]
    BY <1>2
  <2>4. AvailOf(t, f) = t[j].pos
    BY <2>1, <2>3, AvailFirst
  <2> QED
    BY <1>1, <2>2, <2>3, <2>4
<1> QED
  BY <1>3, <1>4, AvailCases

\* So does a chunk that grows.
LEMMA AvailGrown ==
    ASSUME NEW s \in Seq(Entry), NEW t \in Seq(Entry), NEW e, NEW f, Len(t) = Len(s),
           \A k \in 1..Len(s) : t[k].kind = s[k].kind /\ t[k].pos = s[k].pos,
           \E k \in 1..Len(s) : s[k].kind = "out"
    PROVE  AvailOf(t, f) = AvailOf(s, e)
<1>1. PICK j \in 1..Len(s) : s[j].kind = "out" /\ \A k \in 1..(j - 1) : s[k].kind # "out"
  BY AvailCases
<1>2. AvailOf(s, e) = s[j].pos
  BY <1>1, AvailFirst
<1>3. Len(s) \in Nat /\ \A k \in 1..(j - 1) : k \in 1..Len(s)
  OBVIOUS
<1>4. j \in 1..Len(t) /\ t[j].kind = "out" /\ \A k \in 1..(j - 1) : t[k].kind # "out"
  BY <1>1, <1>3
<1>5. AvailOf(t, f) = t[j].pos
  BY <1>4, AvailFirst
<1> QED
  BY <1>2, <1>5

\* So does dropping a control at the front.
LEMMA AvailTail ==
    ASSUME NEW s \in Seq(Entry), NEW e, s # <<>>, s[1].kind = "ctl"
    PROVE  AvailOf(Tail(s), e) = AvailOf(s, e)
<1>1. PICK t \in Seq(Entry) : t = Tail(s)
  BY TailFacts
<1>2. Len(s) \in Nat \ {0} /\ Len(t) = Len(s) - 1 /\ \A k \in 1..(Len(s) - 1) : t[k] = s[k + 1]
  BY <1>1, TailFacts
<1>3. CASE \A k \in 1..Len(s) : s[k].kind # "out"
  <2>1. \A k \in 1..Len(t) : t[k].kind # "out"
    <3> TAKE k \in 1..Len(t)
    <3>1. k + 1 \in 1..Len(s) /\ k \in 1..(Len(s) - 1)
      BY <1>2
    <3> QED
      BY <1>2, <1>3, <3>1
  <2> QED
    BY <1>1, <1>3, <2>1, AvailNone
<1>4. CASE \E j \in 1..Len(s) : s[j].kind = "out" /\ \A k \in 1..(j - 1) : s[k].kind # "out"
  <2>1. PICK j \in 1..Len(s) : s[j].kind = "out" /\ \A k \in 1..(j - 1) : s[k].kind # "out"
    BY <1>4
  <2>2. AvailOf(s, e) = s[j].pos
    BY <2>1, AvailFirst
  <2>3. j # 1
    BY <2>1
  <2>4. PICK i \in 1..Len(t) : j = i + 1
    <3>1. j - 1 \in 1..Len(t) /\ j = (j - 1) + 1
      BY <1>2, <2>3
    <3> QED
      BY <3>1
  <2>5. t[i] = s[j]
    BY <1>2, <2>4
  <2>6. \A k \in 1..(i - 1) : t[k].kind # "out"
    <3> TAKE k \in 1..(i - 1)
    <3>1. k + 1 \in 1..(j - 1) /\ k \in 1..(Len(s) - 1)
      BY <1>2, <2>4
    <3>2. t[k] = s[k + 1]
      BY <1>2, <3>1
    <3> QED
      BY <2>1, <3>1, <3>2
  <2>7. AvailOf(t, e) = t[i].pos
    BY <2>1, <2>5, <2>6, AvailFirst
  <2> QED
    BY <1>1, <2>2, <2>5, <2>7
<1> QED
  BY <1>3, <1>4, AvailCases

\* Dropping the first chunk moves it on.
LEMMA AvailWithout ==
    ASSUME NEW s \in Seq(Entry), NEW e \in Nat, NEW j \in 1..Len(s), s[j].kind = "out",
           \A k \in 1..(j - 1) : s[k].kind # "out",
           \A i, k \in 1..Len(s) : i < k => EntryEnd(s[i]) <= s[k].pos,
           \A i \in 1..Len(s) : EntryEnd(s[i]) <= e
    PROVE  AvailOf(s, e) < AvailOf(RemoveAt(s, j), e)
<1>1. PICK t \in Seq(Entry) : t = RemoveAt(s, j)
  BY RemoveAtFacts
<1>2. Len(s) \in Nat /\ Len(t) = Len(s) - 1
      /\ \A k \in 1..(Len(s) - 1) : t[k] = IF k < j THEN s[k] ELSE s[k + 1]
  <2>1. /\ Len(RemoveAt(s, j)) = Len(s) - 1
        /\ \A k \in 1..(Len(s) - 1) : RemoveAt(s, j)[k] = IF k < j THEN s[k] ELSE s[k + 1]
    BY RemoveAtFacts, Zenon
  <2>2. Len(s) \in Nat
    OBVIOUS
  <2> QED
    BY <1>1, <2>1, <2>2, Zenon
<1>3. AvailOf(s, e) = s[j].pos
  BY AvailFirst
<1>4. s[j] \in Entry /\ s[j].pos \in Nat /\ EntryEnd(s[j]) \in Nat /\ s[j].pos < EntryEnd(s[j])
  <2>1. s[j] \in Entry
    OBVIOUS
  <2>2. s[j].pos \in Nat
    BY <2>1 DEF Entry
  <2> QED
    BY <2>1, <2>2, EntryEndFacts
<1>5. CASE \A k \in 1..Len(t) : t[k].kind # "out"
  <2>1. AvailOf(t, e) = e
    BY <1>5, AvailNone
  <2>2. EntryEnd(s[j]) <= e
    OBVIOUS
  <2> QED
    BY <1>1, <1>3, <1>4, <2>1, <2>2
<1>6. CASE \E i \in 1..Len(t) : t[i].kind = "out" /\ \A k \in 1..(i - 1) : t[k].kind # "out"
  <2>1. PICK i \in 1..Len(t) : t[i].kind = "out" /\ \A k \in 1..(i - 1) : t[k].kind # "out"
    BY <1>6
  <2>2. AvailOf(t, e) = t[i].pos
    BY <2>1, AvailFirst
  <2>3. t[i] = IF i < j THEN s[i] ELSE s[i + 1]
    BY <1>2
  <2>4. ~(i < j)
    <3> SUFFICES ASSUME i < j PROVE FALSE
      OBVIOUS
    <3>1. t[i] = s[i] /\ i \in 1..(j - 1)
      BY <1>2, <2>3
    <3> QED
      BY <2>1, <3>1
  <2>5. PICK k \in 1..Len(s) : k = i + 1 /\ j < k
    BY <1>2, <2>4
  <2>6. t[i] = s[k] /\ EntryEnd(s[j]) <= s[k].pos
    BY <2>3, <2>4, <2>5
  <2>7. s[k].pos \in Nat
    <3>1. s[k] \in Entry
      OBVIOUS
    <3> QED
      BY <3>1 DEF Entry
  <2> QED
    BY <1>1, <1>3, <1>4, <2>2, <2>6, <2>7
<1> QED
  BY <1>5, <1>6, AvailCases

\* The same of the next state.
LEMMA AvailIsOfNext == AvailableFrom' = AvailOf(entries', end')
  BY DEF AvailableFrom, Outputs, AvailOf

\* push and push_control do not move the oldest offset kept.
LEMMA AvailAppendOutput ==
    ASSUME IInv, AppendOutput
    PROVE  AvailableFrom' = AvailableFrom
<1> DEFINE L == Len(entries)
           take == Lesser(rest, IF HasRoom THEN PieceMax - entries[L].n ELSE PieceMax)
<1>0. TypeOK /\ TypeOK'
  BY AppendOutputIInv DEF IInv
<1>1. entries \in Seq(Entry) /\ L \in Nat /\ entries' \in Seq(Entry) /\ end \in Nat
  BY <1>0 DEF TypeOK
<1>2. entries' = IF HasRoom THEN Coalesce(take) ELSE Append(entries, Out(end, take))
  BY DEF AppendOutput
<1> HIDE DEF take, L
<1>4. CASE HasRoom
  <2>1. entries # <<>> /\ L \in 1..L /\ entries[L].kind = "out"
    BY <1>1, <1>4 DEF HasRoom, L
  <2>2. /\ Len(entries') = L /\ \A i \in 1..(L - 1) : entries'[i] = entries[i]
        /\ entries'[L] = Out(entries[L].pos, entries[L].n + take)
    BY <1>1, <1>2, <1>4, <2>1 DEF Coalesce, L
  <2>3. \A k \in 1..L : entries'[k].kind = entries[k].kind /\ entries'[k].pos = entries[k].pos
    <3> TAKE k \in 1..L
    <3>1. k \in 1..(L - 1) \/ k = L
      BY <1>1
    <3> QED
      BY <2>1, <2>2, <3>1 DEF Out
  <2> QED
    BY <1>1, <2>1, <2>2, <2>3, AvailGrown, AvailIsOf, AvailIsOfNext DEF L
<1>5. CASE ~HasRoom
  <2>1. entries' = Append(entries, Out(end, take))
    BY <1>2, <1>5
  <2>2. Len(entries') = L + 1 /\ entries'[L + 1] = Out(end, take) /\ entries'[L + 1] \in Entry
    BY <1>1, <2>1 DEF L
  <2>3. Out(end, take) \in Entry /\ Out(end, take).kind = "out" /\ Out(end, take).pos = end
    BY <2>2 DEF Out
  <2>4. PICK x \in Entry : x = Out(end, take)
    BY <2>3
  <2>5. AvailOf(Append(entries, x), end') = AvailOf(entries, end)
    BY <1>1, <2>3, <2>4, AvailAppend
  <2> QED
    BY <2>1, <2>4, <2>5, AvailIsOf, AvailIsOfNext
<1> QED
  BY <1>4, <1>5

\* A control pushed at the end does not move the oldest offset kept.
LEMMA AvailPushControl ==
    ASSUME IInv, PushControl
    PROVE  AvailableFrom' = AvailableFrom
<1>1. entries \in Seq(Entry) /\ end \in Nat /\ nextCtl \in Nat \ {0}
  BY DEF IInv, TypeOK
<1>2. PICK x \in Entry : x = Ctl(end, nextCtl) /\ x.kind = "ctl"
  <2>1. Ctl(end, nextCtl) \in Entry /\ Ctl(end, nextCtl).kind = "ctl"
    BY <1>1 DEF Ctl, Entry
  <2> QED
    BY <2>1
<1>3. entries' = Append(entries, x) /\ end' = end
  BY <1>2 DEF PushControl
<1>4. AvailOf(Append(entries, x), end) = AvailOf(entries, end)
  BY <1>1, <1>2, AvailAppend
<1> QED
  BY <1>3, <1>4, AvailIsOf, AvailIsOfNext

\* Nor does dropping the front control.
LEMMA AvailDropFront ==
    ASSUME entries \in Seq(Entry), entries # <<>>, entries[1].kind = "ctl",
           entries' = Tail(entries), end' = end
    PROVE  AvailableFrom' = AvailableFrom
  BY AvailTail, AvailIsOf, AvailIsOfNext

\* Evicting a chunk does.
LEMMA AvailEvictOutput ==
    ASSUME IInv, EvictOutput
    PROVE  AvailableFrom < AvailableFrom'
<1>1. TypeOK /\ RingShape /\ Ordered
  BY DEF IInv, RingShape
<1>2. entries \in Seq(Entry) /\ Len(entries) \in Nat /\ DOMAIN entries = 1..Len(entries) /\ end \in Nat
  BY <1>1 DEF TypeOK
<1>3. PICK m : m = Min(Outputs)
  OBVIOUS
<1>4. /\ m \in 1..Len(entries) /\ entries[m].kind = "out"
      /\ \A j \in 1..(m - 1) : entries[j].kind = "ctl"
  BY <1>1, <1>3, AvailableFromFacts DEF EvictOutput, Evictable
<1>5. entries' = RemoveAt(entries, m) /\ end' = end
  BY <1>3 DEF EvictOutput
<1>6. \A j \in 1..(m - 1) : entries[j].kind # "out"
  BY <1>4
<1>7. /\ \A i, k \in 1..Len(entries) : i < k => EntryEnd(entries[i]) <= entries[k].pos
      /\ \A i \in 1..Len(entries) : EntryEnd(entries[i]) <= end
  BY <1>1, <1>2 DEF Ordered
<1>8. AvailOf(entries, end) < AvailOf(RemoveAt(entries, m), end)
  BY <1>2, <1>4, <1>6, <1>7, AvailWithout
<1> QED
  BY <1>5, <1>8, AvailIsOf, AvailIsOfNext

-----------------------------------------------------------------------------
(* Where the controls are: the inductive invariant behind the refinement.     *)

\* The history of the controls: their ids are their places in it.
CtlsPlaced ==
    /\ Len(ctlAt) = nextCtl - 1
    /\ Sorted(ctlAt)
    /\ \A i \in 1..Len(ctlAt) : ctlAt[i] <= end

\* A retained control is newer than any that was force-evicted.
EntriesPlaced ==
    \A k \in 1..Len(entries) : entries[k].kind = "ctl" =>
        /\ ctlAt[entries[k].n] = entries[k].pos
        /\ lost.id < entries[k].n

\* The last control force-evicted was not ahead of the oldest offset kept.
LostPlaced == lost.id > 0 => ctlAt[lost.id] = lost.seq /\ lost.seq <= AvailableFrom

\* A cursor is not behind the control it has been given.
CursorsPlaced == \A c \in Consumers : cursor[c].ctl > 0 => ctlAt[cursor[c].ctl] <= cursor[c].after

\* A control that is not retained was force-evicted, or is behind what is kept.
NoneForgotten ==
    \A i \in 1..Len(ctlAt) :
        \/ i <= lost.id
        \/ ctlAt[i] < AvailableFrom
        \/ \E k \in 1..Len(entries) : entries[k].kind = "ctl" /\ entries[k].n = i

\* The part of the invariant that ties the ring to the history.
Placed == CtlsPlaced /\ EntriesPlaced /\ LostPlaced /\ CursorsPlaced /\ NoneForgotten

\* What the two invariants say of the ring, in one place.
LEMMA PlacedFacts ==
    ASSUME IInv, Placed
    PROVE  /\ ctlAt \in Seq(Nat) /\ Len(ctlAt) \in Nat /\ Len(ctlAt) = nextCtl - 1
           /\ nextCtl \in Nat \ {0} /\ end \in Nat
           /\ lost.id \in Nat /\ lost.seq \in Nat /\ lost.id <= Len(ctlAt)
           /\ AvailableFrom \in Nat /\ AvailableFrom <= end
           /\ \A i \in 1..Len(ctlAt) : ctlAt[i] \in Nat /\ ctlAt[i] <= end
           /\ \A k \in 1..Len(entries) : entries[k].kind = "ctl" => entries[k].n \in 1..Len(ctlAt)
           /\ \A c \in Consumers : /\ cursor[c].after \in Nat /\ cursor[c].ctl \in Nat
                                   /\ cursor[c].after <= end /\ cursor[c].ctl <= Len(ctlAt)
<1>1. TypeOK /\ RingShape /\ CursorsValid /\ CtlsPlaced
  BY DEF IInv, Placed
<1>2. /\ ctlAt \in Seq(Nat) /\ Len(ctlAt) \in Nat /\ Len(ctlAt) = nextCtl - 1
      /\ nextCtl \in Nat \ {0} /\ end \in Nat
  BY <1>1 DEF TypeOK, CtlsPlaced
<1>3. lost.id \in Nat /\ lost.seq \in Nat /\ lost.id <= Len(ctlAt)
  <2>1. lost.id \in Nat /\ lost.seq \in Nat /\ lost.id < nextCtl
    BY <1>1 DEF TypeOK, CursorsValid
  <2> QED
    BY <1>2, <2>1
<1>4. AvailableFrom \in Nat /\ AvailableFrom <= end
  BY <1>1, AvailableFromFacts DEF RingShape
<1>5. \A i \in 1..Len(ctlAt) : ctlAt[i] \in Nat /\ ctlAt[i] <= end
  BY <1>1, <1>2 DEF CtlsPlaced
<1>6. ASSUME NEW k \in 1..Len(entries), entries[k].kind = "ctl" PROVE entries[k].n \in 1..Len(ctlAt)
  <2>1. entries[k].n < nextCtl /\ entries[k].n \in Nat \ {0}
    BY <1>1, <1>6, EntriesFacts DEF RingShape, CtlOrder
  <2> QED
    BY <1>2, <2>1
<1>7. ASSUME NEW c \in Consumers
      PROVE  /\ cursor[c].after \in Nat /\ cursor[c].ctl \in Nat
             /\ cursor[c].after <= end /\ cursor[c].ctl <= Len(ctlAt)
  <2>1. cursor[c] \in Cursors
    BY <1>1 DEF TypeOK
  <2>2. cursor[c].after \in Nat /\ cursor[c].ctl \in Nat
    BY <2>1 DEF Cursors
  <2>3. cursor[c].after <= end /\ cursor[c].ctl < nextCtl
    BY <1>1 DEF CursorsValid
  <2> QED
    BY <1>2, <2>2, <2>3
<1> QED
  BY <1>2, <1>3, <1>4, <1>5, <1>6, <1>7

\* The empty ring agrees with the empty history.
LEMMA InitPlaced == Init => Placed
<1> SUFFICES ASSUME Init PROVE Placed
  OBVIOUS
<1>1. ctlAt = <<>> /\ Len(ctlAt) = 0 /\ nextCtl = 1 /\ entries = <<>> /\ Len(entries) = 0
  BY DEF Init
<1>2. CtlsPlaced /\ EntriesPlaced /\ NoneForgotten
  BY <1>1 DEF CtlsPlaced, Sorted, EntriesPlaced, NoneForgotten
<1>3. LostPlaced /\ CursorsPlaced
  BY DEF Init, LostPlaced, NoLoss, CursorsPlaced, FromOffset
<1> QED
  BY <1>2, <1>3 DEF Placed

\* A step after which the same controls are retained, but for some behind the oldest
\* offset kept.
LEMMA PlacedKept ==
    ASSUME IInv, Placed, UNCHANGED <<nextCtl, ctlAt, cursor, lost>>,
           end' \in Nat, end <= end', AvailableFrom' \in Nat, AvailableFrom <= AvailableFrom',
           \A k \in 1..Len(entries') : entries'[k].kind = "ctl" =>
              \E j \in 1..Len(entries) : entries[j] = entries'[k],
           \A j \in 1..Len(entries) : entries[j].kind = "ctl" =>
              \/ \E k \in 1..Len(entries') : entries'[k] = entries[j]
              \/ entries[j].pos < AvailableFrom'
    PROVE  Placed'
<1>0. /\ CtlsPlaced /\ EntriesPlaced /\ LostPlaced /\ CursorsPlaced /\ NoneForgotten
      /\ end \in Nat /\ AvailableFrom \in Nat /\ lost.seq \in Nat
      /\ \A i \in 1..Len(ctlAt) : ctlAt[i] \in Nat
  BY PlacedFacts DEF Placed
<1>1. CtlsPlaced'
  BY <1>0 DEF CtlsPlaced, Sorted
<1>2. EntriesPlaced'
  <2> SUFFICES ASSUME NEW k \in 1..Len(entries'), entries'[k].kind = "ctl"
               PROVE  ctlAt[entries'[k].n] = entries'[k].pos /\ lost.id < entries'[k].n
    BY DEF EntriesPlaced
  <2>1. PICK j \in 1..Len(entries) : entries[j] = entries'[k]
    OBVIOUS
  <2>2. entries[j].kind = "ctl"
    BY <2>1
  <2> QED
    BY <1>0, <2>1, <2>2 DEF EntriesPlaced
<1>3. LostPlaced'
  BY <1>0 DEF LostPlaced
<1>4. CursorsPlaced'
  BY <1>0 DEF CursorsPlaced
<1>5. NoneForgotten'
  <2> SUFFICES ASSUME NEW i \in 1..Len(ctlAt)
               PROVE  \/ i <= lost.id
                      \/ ctlAt[i] < AvailableFrom'
                      \/ \E k \in 1..Len(entries') : entries'[k].kind = "ctl" /\ entries'[k].n = i
    BY DEF NoneForgotten
  <2>1. CASE i <= lost.id
    BY <2>1
  <2>2. CASE ctlAt[i] < AvailableFrom
    BY <1>0, <2>2
  <2>3. CASE \E j \in 1..Len(entries) : entries[j].kind = "ctl" /\ entries[j].n = i
    <3>1. PICK j \in 1..Len(entries) : entries[j].kind = "ctl" /\ entries[j].n = i
      BY <2>3
    <3>2. CASE \E k \in 1..Len(entries') : entries'[k] = entries[j]
      <4>1. PICK k \in 1..Len(entries') : entries'[k] = entries[j]
        BY <3>2
      <4> QED
        BY <3>1, <4>1
    <3>3. CASE entries[j].pos < AvailableFrom'
      <4>1. ctlAt[i] = entries[j].pos
        BY <1>0, <3>1 DEF EntriesPlaced
      <4> QED
        BY <3>3, <4>1
    <3> QED
      BY <3>1, <3>2, <3>3
  <2> QED
    BY <1>0, <2>1, <2>2, <2>3 DEF NoneForgotten
<1> QED
  BY <1>1, <1>2, <1>3, <1>4, <1>5 DEF Placed

\* Appending bytes moves no control.
LEMMA AppendOutputPlaced ==
    ASSUME IInv, Placed, AppendOutput
    PROVE  Placed'
<1> DEFINE L == Len(entries)
           take == Lesser(rest, IF HasRoom THEN PieceMax - entries[L].n ELSE PieceMax)
<1>0. IInv' /\ TypeOK /\ TypeOK' /\ AvailableFrom' = AvailableFrom /\ AvailableFrom \in Nat
  BY AppendOutputIInv, AvailAppendOutput, PlacedFacts DEF IInv
<1>1. entries \in Seq(Entry) /\ L \in Nat /\ entries' \in Seq(Entry) /\ end \in Nat /\ end' \in Nat
  BY <1>0 DEF TypeOK
<1>2. /\ entries' = IF HasRoom THEN Coalesce(take) ELSE Append(entries, Out(end, take))
      /\ UNCHANGED <<nextCtl, ctlAt, cursor, lost>> /\ end' = end + take
  BY DEF AppendOutput
<1>3. take \in Nat
  <2>1. ASSUME HasRoom PROVE entries[L] \in Entry /\ entries[L].n < PieceMax
    BY <1>1, <2>1 DEF HasRoom
  <2>2. PieceMax \in Nat /\ rest \in Nat
    BY <1>0, PieceMaxFacts DEF TypeOK
  <2> QED
    BY <2>1, <2>2 DEF Lesser, Entry
<1> HIDE DEF take, L
<1>4. /\ \A k \in 1..Len(entries') : entries'[k].kind = "ctl" => k \in 1..L /\ entries[k] = entries'[k]
      /\ \A k \in 1..L : entries[k].kind = "ctl" => k \in 1..Len(entries') /\ entries'[k] = entries[k]
  <2>4. CASE HasRoom
    <3>1. entries # <<>> /\ L \in 1..L /\ entries[L].kind = "out"
      BY <1>1, <2>4 DEF HasRoom, L
    <3>2. /\ Len(entries') = L /\ \A i \in 1..(L - 1) : entries'[i] = entries[i]
          /\ entries'[L] = Out(entries[L].pos, entries[L].n + take)
      BY <1>1, <1>2, <2>4, <3>1 DEF Coalesce, L
    <3>3. entries'[L].kind = "out" /\ \A k \in 1..L : k \in 1..(L - 1) \/ k = L
      BY <1>1, <3>2 DEF Out
    <3> QED
      BY <3>1, <3>2, <3>3
  <2>5. CASE ~HasRoom
    <3>1. entries' = Append(entries, Out(end, take))
      BY <1>2, <2>5
    <3>2. /\ Len(entries') = L + 1 /\ \A i \in 1..L : entries'[i] = entries[i]
          /\ entries'[L + 1] = Out(end, take)
      BY <1>1, <3>1 DEF L
    <3>3. entries'[L + 1].kind = "out" /\ \A k \in 1..(L + 1) : k \in 1..L \/ k = L + 1
      BY <1>1, <3>2 DEF Out
    <3>4. \A k \in 1..L : k \in 1..(L + 1)
      BY <1>1
    <3> QED
      BY <3>2, <3>3, <3>4
  <2> QED
    BY <2>4, <2>5
<1>5. end <= end'
  BY <1>1, <1>2, <1>3
<1> QED
  BY <1>0, <1>1, <1>2, <1>4, <1>5, PlacedKept DEF L

\* Evicting a chunk only moves the oldest offset kept up.
LEMMA EvictOutputPlaced ==
    ASSUME IInv, Placed, EvictOutput
    PROVE  Placed'
<1>1. IInv' /\ TypeOK /\ TypeOK' /\ RingShape /\ RingShape'
  BY EvictOutputIInv DEF IInv
<1>2. /\ entries \in Seq(Entry) /\ entries' \in Seq(Entry) /\ Len(entries) \in Nat
      /\ AvailableFrom \in Nat /\ AvailableFrom' \in Nat
  <2>1. AvailableFrom' \in Nat
    <3>1. entries' \in Seq(Entry) /\ end' \in Nat
      BY <1>1 DEF TypeOK
    <3>2. (\A k \in 1..Len(entries') : entries'[k].kind # "out")
          \/ \E j \in 1..Len(entries') : entries'[j].kind = "out"
                                          /\ \A k \in 1..(j - 1) : entries'[k].kind # "out"
      BY <3>1, AvailCases
    <3>3. \A j \in 1..Len(entries') : entries'[j].pos \in Nat
      <4> TAKE j \in 1..Len(entries')
      <4>1. entries'[j] \in Entry
        BY <3>1
      <4> QED
        BY <4>1 DEF Entry
    <3> QED
      BY <3>1, <3>2, <3>3, AvailNone, AvailFirst, AvailIsOfNext
  <2> QED
    BY <1>1, <2>1, PlacedFacts DEF TypeOK
<1>3. AvailableFrom < AvailableFrom'
  BY AvailEvictOutput
<1>4. PICK m : m = Min(Outputs)
  OBVIOUS
<1>5. m \in 1..Len(entries) /\ entries[m].kind = "out"
  BY <1>1, <1>4, AvailableFromFacts DEF EvictOutput, Evictable, RingShape
<1>6. /\ entries' = RemoveAt(entries, m) /\ UNCHANGED <<nextCtl, ctlAt, cursor, lost>> /\ end' = end
  BY <1>4 DEF EvictOutput
<1>7. /\ Len(entries') = Len(entries) - 1
      /\ \A j \in 1..(Len(entries) - 1) :
           entries'[j] = IF j < m THEN entries[j] ELSE entries[j + 1]
  BY <1>2, <1>5, <1>6, RemoveAtFacts
<1>8. \A k \in 1..Len(entries') : \E j \in 1..Len(entries) : entries[j] = entries'[k]
  <2> TAKE k \in 1..Len(entries')
  <2>1. entries'[k] = IF k < m THEN entries[k] ELSE entries[k + 1]
    BY <1>7
  <2>2. k \in 1..Len(entries) /\ k + 1 \in 1..Len(entries)
    BY <1>2, <1>7
  <2> QED
    BY <2>1, <2>2
<1>9. ASSUME NEW j \in 1..Len(entries), entries[j].kind = "ctl"
      PROVE  \E k \in 1..Len(entries') : entries'[k] = entries[j]
  <2>1. j # m
    BY <1>5, <1>9
  <2>2. CASE j < m
    <3>1. j \in 1..(Len(entries) - 1)
      BY <1>2, <1>5, <2>2
    <3> QED
      BY <1>7, <2>2, <3>1
  <2>3. CASE m < j
    <3>1. j - 1 \in 1..(Len(entries) - 1) /\ ~(j - 1 < m) /\ (j - 1) + 1 = j
      BY <1>2, <1>5, <2>3
    <3>2. entries'[j - 1] = entries[(j - 1) + 1]
      BY <1>7, <3>1
    <3> QED
      BY <1>7, <3>1, <3>2
  <2> QED
    BY <1>5, <2>1, <2>2, <2>3
<1>10. end' \in Nat /\ end <= end'
  BY <1>1, <1>6 DEF TypeOK
<1> QED
  BY <1>2, <1>3, <1>6, <1>8, <1>9, <1>10, PlacedKept

\* A trimmed control is behind the oldest offset kept.
LEMMA TrimControlPlaced ==
    ASSUME IInv, Placed, TrimControl
    PROVE  Placed'
<1>1. /\ entries \in Seq(Entry) /\ end \in Nat /\ entries # <<>> /\ entries[1].kind = "ctl"
      /\ entries[1].pos < AvailableFrom /\ entries' = Tail(entries)
      /\ UNCHANGED <<end, nextCtl, ctlAt, cursor, lost>>
  BY DEF IInv, TypeOK, TrimControl, StaleFront
<1>2. AvailableFrom' = AvailableFrom /\ AvailableFrom \in Nat
  BY <1>1, AvailDropFront, PlacedFacts
<1>3. /\ Len(entries) \in Nat \ {0} /\ Len(entries') = Len(entries) - 1
      /\ \A i \in 1..(Len(entries) - 1) : entries'[i] = entries[i + 1]
  BY <1>1, TailFacts
<1>4. \A k \in 1..Len(entries') : \E j \in 1..Len(entries) : entries[j] = entries'[k]
  <2> TAKE k \in 1..Len(entries')
  <2>1. k + 1 \in 1..Len(entries) /\ entries'[k] = entries[k + 1]
    BY <1>3
  <2> QED
    BY <2>1
<1>5. ASSUME NEW j \in 1..Len(entries)
      PROVE  \/ \E k \in 1..Len(entries') : entries'[k] = entries[j]
             \/ entries[j].pos < AvailableFrom'
  <2>1. CASE j = 1
    BY <1>1, <1>2, <2>1
  <2>2. CASE j # 1
    <3>1. j - 1 \in 1..Len(entries') /\ entries'[j - 1] = entries[(j - 1) + 1] /\ (j - 1) + 1 = j
      BY <1>3, <2>2
    <3> QED
      BY <3>1
  <2> QED
    BY <2>1, <2>2
<1>6. end' \in Nat /\ end <= end' /\ AvailableFrom' \in Nat /\ AvailableFrom <= AvailableFrom'
  BY <1>1, <1>2
<1> QED
  BY <1>1, <1>4, <1>5, <1>6, PlacedKept

\* Force-evicting the front control: those behind it are newer.
LEMMA EvictControlPlaced ==
    ASSUME IInv, Placed, EvictControl
    PROVE  Placed' /\ lost.id < lost'.id /\ AvailableFrom' = AvailableFrom
<1>1. entries[1].kind = "ctl" /\ TypeOK /\ RingShape /\ TypeOK'
  BY EvictControlIInv DEF IInv
<1>2. /\ entries \in Seq(Entry) /\ entries # <<>> /\ entries' = Tail(entries)
      /\ UNCHANGED <<end, nextCtl, ctlAt, cursor>>
      /\ lost' = [seq |-> entries[1].pos, id |-> entries[1].n]
  BY <1>1 DEF TypeOK, EvictControl, OverBudget
<1>3. /\ Len(entries) \in Nat \ {0} /\ Len(entries') = Len(entries) - 1
      /\ \A i \in 1..(Len(entries) - 1) : entries'[i] = entries[i + 1]
  BY <1>2, TailFacts
<1>4. AvailableFrom' = AvailableFrom
  BY <1>1, <1>2, AvailDropFront
<1>5. 1 \in 1..Len(entries) /\ entries[1].n \in Nat /\ entries[1].pos \in Nat /\ DOMAIN entries = 1..Len(entries)
  BY <1>1, <1>3, EntriesFacts
<1>6. lost'.id = entries[1].n /\ lost'.seq = entries[1].pos
  BY <1>2
<1>7. /\ CtlsPlaced /\ EntriesPlaced /\ LostPlaced /\ CursorsPlaced /\ NoneForgotten
      /\ lost.id \in Nat
  BY PlacedFacts DEF Placed
<1>8. lost.id < entries[1].n /\ ctlAt[entries[1].n] = entries[1].pos
  BY <1>1, <1>5, <1>7 DEF EntriesPlaced
<1>9. entries[1].pos <= AvailableFrom
  BY <1>1, <1>5, AvailableFromFacts DEF RingShape
<1>10. CtlsPlaced' /\ CursorsPlaced'
  BY <1>2, <1>7 DEF CtlsPlaced, Sorted, CursorsPlaced
<1>11. LostPlaced'
  BY <1>2, <1>4, <1>6, <1>8, <1>9 DEF LostPlaced
<1>12. EntriesPlaced'
  <2> SUFFICES ASSUME NEW k \in 1..Len(entries'), entries'[k].kind = "ctl"
               PROVE  ctlAt'[entries'[k].n] = entries'[k].pos /\ lost'.id < entries'[k].n
    BY DEF EntriesPlaced
  <2>1. k + 1 \in 1..Len(entries) /\ entries'[k] = entries[k + 1] /\ 1 < k + 1
    BY <1>3
  <2>2. entries[k + 1].kind = "ctl"
    BY <2>1
  <2>3. entries[1].n < entries[k + 1].n
    BY <1>1, <1>5, <2>1, <2>2 DEF RingShape, CtlOrder
  <2> QED
    BY <1>2, <1>6, <1>7, <2>1, <2>2, <2>3 DEF EntriesPlaced
<1>13. NoneForgotten'
  <2> SUFFICES ASSUME NEW i \in 1..Len(ctlAt)
               PROVE  \/ i <= lost'.id
                      \/ ctlAt[i] < AvailableFrom
                      \/ \E k \in 1..Len(entries') : entries'[k].kind = "ctl" /\ entries'[k].n = i
    BY <1>2, <1>4 DEF NoneForgotten
  <2>1. CASE i <= lost.id
    BY <1>5, <1>6, <1>7, <1>8, <2>1
  <2>2. CASE ctlAt[i] < AvailableFrom
    BY <2>2
  <2>3. CASE \E j \in 1..Len(entries) : entries[j].kind = "ctl" /\ entries[j].n = i
    <3>1. PICK j \in 1..Len(entries) : entries[j].kind = "ctl" /\ entries[j].n = i
      BY <2>3
    <3>2. CASE j = 1
      BY <1>6, <3>1, <3>2
    <3>3. CASE j # 1
      <4>1. j - 1 \in 1..Len(entries') /\ entries'[j - 1] = entries[(j - 1) + 1] /\ (j - 1) + 1 = j
        BY <1>3, <3>3
      <4> QED
        BY <3>1, <4>1
    <3> QED
      BY <3>2, <3>3
  <2> QED
    BY <1>7, <2>1, <2>2, <2>3 DEF NoneForgotten
<1> QED
  BY <1>4, <1>6, <1>8, <1>10, <1>11, <1>12, <1>13 DEF Placed

\* A new control is at the end of the stream and has the next id.
LEMMA PushControlPlaced ==
    ASSUME IInv, Placed, PushControl
    PROVE  Placed'
<1>1. /\ CtlsPlaced /\ EntriesPlaced /\ LostPlaced /\ CursorsPlaced /\ NoneForgotten
      /\ entries \in Seq(Entry)
  BY DEF Placed, IInv, TypeOK
<1>2. /\ ctlAt \in Seq(Nat) /\ Len(ctlAt) \in Nat /\ nextCtl = Len(ctlAt) + 1 /\ end \in Nat
      /\ lost.id \in Nat /\ lost.id <= Len(ctlAt)
      /\ \A i \in 1..Len(ctlAt) : ctlAt[i] \in Nat /\ ctlAt[i] <= end
      /\ \A k \in 1..Len(entries) : entries[k].kind = "ctl" => entries[k].n \in 1..Len(ctlAt)
      /\ \A c \in Consumers : cursor[c].ctl \in Nat /\ cursor[c].ctl <= Len(ctlAt)
  BY PlacedFacts
<1>3. /\ entries' = Append(entries, Ctl(end, nextCtl)) /\ ctlAt' = Append(ctlAt, end)
      /\ nextCtl' = nextCtl + 1 /\ UNCHANGED <<end, lost, cursor>>
  BY DEF PushControl
<1>4. AvailableFrom' = AvailableFrom
  BY AvailPushControl
<1>5. /\ Len(ctlAt') = Len(ctlAt) + 1 /\ ctlAt'[Len(ctlAt) + 1] = end
      /\ \A i \in 1..Len(ctlAt) : ctlAt'[i] = ctlAt[i]
      /\ \A i \in 1..Len(ctlAt') : i \in 1..Len(ctlAt) \/ i = Len(ctlAt) + 1
  BY <1>2, <1>3
<1>6. /\ Len(entries) \in Nat /\ Len(entries') = Len(entries) + 1
      /\ entries'[Len(entries) + 1] = Ctl(end, nextCtl)
      /\ \A i \in 1..Len(entries) : entries'[i] = entries[i]
      /\ \A i \in 1..Len(entries') : i \in 1..Len(entries) \/ i = Len(entries) + 1
  BY <1>1, <1>3
<1>7. CtlsPlaced'
  <2>1. \A i \in 1..Len(ctlAt') : ctlAt'[i] <= end
    BY <1>2, <1>5
  <2>2. ASSUME NEW i \in 1..Len(ctlAt'), NEW j \in 1..Len(ctlAt'), i <= j
        PROVE  ctlAt'[i] <= ctlAt'[j]
    <3>1. CASE j = Len(ctlAt) + 1
      BY <1>5, <2>1, <3>1
    <3>2. CASE j \in 1..Len(ctlAt)
      <4>1. i \in 1..Len(ctlAt)
        BY <1>2, <2>2, <3>2
      <4> QED
        BY <1>1, <1>5, <2>2, <3>2, <4>1 DEF CtlsPlaced, Sorted
    <3> QED
      BY <1>5, <3>1, <3>2
  <2>3. Len(ctlAt') = nextCtl' - 1
    BY <1>2, <1>3, <1>5
  <2> QED
    BY <1>3, <2>1, <2>2, <2>3 DEF CtlsPlaced, Sorted
<1>8. EntriesPlaced'
  <2> SUFFICES ASSUME NEW k \in 1..Len(entries'), entries'[k].kind = "ctl"
               PROVE  ctlAt'[entries'[k].n] = entries'[k].pos /\ lost.id < entries'[k].n
    BY <1>3 DEF EntriesPlaced
  <2>1. CASE k \in 1..Len(entries)
    <3>1. entries'[k] = entries[k] /\ entries[k].n \in 1..Len(ctlAt)
      BY <1>2, <1>6, <2>1
    <3> QED
      BY <1>1, <1>5, <2>1, <3>1 DEF EntriesPlaced
  <2>2. CASE k = Len(entries) + 1
    <3>1. entries'[k].n = Len(ctlAt) + 1 /\ entries'[k].pos = end
      BY <1>2, <1>6, <2>2 DEF Ctl
    <3> QED
      BY <1>2, <1>5, <3>1
  <2> QED
    BY <1>6, <2>1, <2>2
<1>9. LostPlaced'
  <2>1. lost.id > 0 => lost.id \in 1..Len(ctlAt)
    BY <1>2
  <2> QED
    BY <1>1, <1>3, <1>4, <1>5, <2>1 DEF LostPlaced
<1>10. CursorsPlaced'
  <2> SUFFICES ASSUME NEW c \in Consumers, cursor[c].ctl > 0
               PROVE  ctlAt'[cursor[c].ctl] <= cursor[c].after
    BY <1>3 DEF CursorsPlaced
  <2>1. cursor[c].ctl \in 1..Len(ctlAt)
    BY <1>2
  <2> QED
    BY <1>1, <1>5, <2>1 DEF CursorsPlaced
<1>11. NoneForgotten'
  <2> SUFFICES ASSUME NEW i \in 1..Len(ctlAt')
               PROVE  \/ i <= lost.id
                      \/ ctlAt'[i] < AvailableFrom
                      \/ \E k \in 1..Len(entries') : entries'[k].kind = "ctl" /\ entries'[k].n = i
    BY <1>3, <1>4 DEF NoneForgotten
  <2>1. CASE i = Len(ctlAt) + 1
    <3>1. Len(entries) + 1 \in 1..Len(entries')
      BY <1>6
    <3>2. entries'[Len(entries) + 1].kind = "ctl" /\ entries'[Len(entries) + 1].n = i
      BY <1>2, <1>6, <2>1 DEF Ctl
    <3> QED
      BY <3>1, <3>2
  <2>2. CASE i \in 1..Len(ctlAt)
    <3>1. \/ i <= lost.id \/ ctlAt[i] < AvailableFrom
          \/ \E k \in 1..Len(entries) : entries[k].kind = "ctl" /\ entries[k].n = i
      BY <1>1, <2>2 DEF NoneForgotten
    <3>2. \A k \in 1..Len(entries) : k \in 1..Len(entries') /\ entries'[k] = entries[k]
      BY <1>6
    <3> QED
      BY <1>5, <2>2, <3>1, <3>2
  <2> QED
    BY <1>5, <2>1, <2>2
<1> QED
  BY <1>7, <1>8, <1>9, <1>10, <1>11 DEF Placed

\* A step that only moves cursors.
LEMMA PlacedFrame ==
    ASSUME Placed, UNCHANGED <<entries, end, nextCtl, ctlAt, lost>>, CursorsPlaced'
    PROVE  Placed' /\ AvailableFrom' = AvailableFrom
<1>1. AvailableFrom' = AvailableFrom
  BY DEF AvailableFrom, Outputs
<1> QED
  BY <1>1 DEF Placed, CtlsPlaced, Sorted, EntriesPlaced, LostPlaced, NoneForgotten

\* A cursor made from an offset has passed no control by id.
LEMMA ReopenPlaced ==
    ASSUME IInv, Placed, NEW c \in Consumers, NEW a \in 0..MaxEnd, Reopen(c, a)
    PROVE  Placed' /\ AvailableFrom' = AvailableFrom
<1>1. cursor \in [Consumers -> Cursors] /\ UNCHANGED <<entries, end, nextCtl, ctlAt, lost>>
  BY DEF IInv, TypeOK, Reopen, ringVars
<1>2. CursorsPlaced'
  <2> SUFFICES ASSUME NEW d \in Consumers, cursor'[d].ctl > 0
               PROVE  ctlAt[cursor'[d].ctl] <= cursor'[d].after
    BY <1>1 DEF CursorsPlaced
  <2>1. cursor'[d] = FromOffset(a) \/ cursor'[d] = cursor[d]
    BY <1>1 DEF Reopen
  <2>2. FromOffset(a).ctl = 0
    BY DEF FromOffset
  <2> QED
    BY <2>1, <2>2 DEF Placed, CursorsPlaced
<1> QED
  BY <1>1, <1>2, PlacedFrame

-----------------------------------------------------------------------------
(* What a cursor has passed, in a sorted history of controls.                 *)

\* The controls up to the last one passed are not ahead of the cursor, and the others
\* not behind it.
LEMMA PassedSplit ==
    ASSUME NEW s \in Seq(Nat), Sorted(s), NEW a \in Nat, NEW c \in 0..Len(s), c > 0 => s[c] <= a
    PROVE  /\ PassedOf(s, a, c) \in 0..Len(s)
           /\ \A i \in 1..PassedOf(s, a, c) : s[i] <= a
           /\ \A i \in (PassedOf(s, a, c) + 1)..Len(s) : s[i] >= a
<1>0. Len(s) \in Nat /\ c \in Nat /\ \A i \in 1..Len(s) : s[i] \in Nat
  OBVIOUS
<1>1. PICK p \in Nat : p = PassedOf(s, a, c)
  BY <1>0, PassedFacts
<1>2. /\ c <= p /\ \A i \in 1..Len(s) : s[i] < a => i <= p
      /\ p = c \/ (p \in 1..Len(s) /\ s[p] < a)
  BY <1>0, <1>1, PassedFacts
<1>3. p \in 0..Len(s) /\ (p > 0 => p \in 1..Len(s) /\ s[p] <= a)
  <2>1. CASE p = c
    BY <1>0, <2>1
  <2>2. CASE p \in 1..Len(s) /\ s[p] < a
    BY <1>0, <2>2
  <2> QED
    BY <1>2, <2>1, <2>2
<1>4. ASSUME NEW i \in 1..p PROVE s[i] <= a
  <2>1. i \in 1..Len(s) /\ p \in 1..Len(s) /\ i <= p /\ s[p] <= a
    BY <1>0, <1>3
  <2>2. s[i] <= s[p] /\ s[i] \in Nat /\ s[p] \in Nat
    BY <1>0, <2>1 DEF Sorted
  <2> QED
    BY <2>1, <2>2
<1>5. ASSUME NEW i \in (p + 1)..Len(s) PROVE s[i] >= a
  <2>1. i \in 1..Len(s) /\ ~(i <= p)
    BY <1>0
  <2>2. ~(s[i] < a) /\ s[i] \in Nat
    BY <1>0, <1>2, <2>1
  <2> QED
    BY <2>2
<1> QED
  BY <1>1, <1>3, <1>4, <1>5

\* A reader behind the oldest offset kept resumes at the floor.
LEMMA BeginBehind ==
    ASSUME NEW s \in Seq(Nat), Sorted(s), NEW A \in Nat, NEW l \in 0..Len(s), NEW a \in Nat,
           NEW k \in 0..Len(s), NEW d \in 0..Len(s), l > 0 => s[l] <= A, k > 0 => s[k] <= a,
           a < A, d = l \/ (d = k /\ (k >= l \/ s[l] < A))
    PROVE  /\ PassedOf(s, A, d) = PassedOf(s, A, l)
           /\ a + PassedOf(s, a, k) < A + PassedOf(s, A, l)
<1>0. Len(s) \in Nat /\ l \in Nat /\ k \in Nat /\ \A i \in 1..Len(s) : s[i] \in Nat
  OBVIOUS
<1>1. PICK p \in Nat : p = PassedOf(s, A, l)
  BY <1>0, PassedFacts
<1>2. /\ l <= p /\ \A i \in 1..Len(s) : s[i] < A => i <= p
      /\ p = l \/ (p \in 1..Len(s) /\ s[p] < A)
  BY <1>0, <1>1, PassedFacts
<1>3. k > 0 => k \in 1..Len(s) /\ s[k] < A /\ k <= p
  BY <1>0, <1>2
<1>4. k <= p
  BY <1>0, <1>3
<1>5. PassedOf(s, A, d) = p
  <2>1. CASE d = l
    BY <1>1, <2>1
  <2>2. CASE d = k /\ (k >= l \/ s[l] < A)
    <3>1. p = k \/ (p \in 1..Len(s) /\ s[p] < A)
      <4>1. CASE p = l
        <5>1. CASE p = 0
          BY <1>0, <1>4, <5>1
        <5>2. CASE p # 0 /\ k >= l
          BY <1>0, <1>4, <4>1, <5>2
        <5>3. CASE p # 0 /\ s[l] < A
          BY <1>0, <4>1, <5>3
        <5> QED
          BY <2>2, <5>1, <5>2, <5>3
      <4> QED
        BY <1>2, <4>1
    <3> QED
      BY <1>0, <1>2, <1>4, <2>2, <3>1, PassedIs
  <2> QED
    BY <2>1, <2>2
<1>6. PICK q \in Nat : q = PassedOf(s, a, k)
  BY <1>0, PassedFacts
<1>7. q = k \/ (q \in 1..Len(s) /\ s[q] < a)
  BY <1>0, <1>6, PassedFacts
<1>8. q <= p
  <2>1. CASE q = k
    BY <1>4, <2>1
  <2>2. CASE q \in 1..Len(s) /\ s[q] < a
    <3>1. s[q] < A
      BY <1>0, <2>2
    <3> QED
      BY <1>2, <2>2, <3>1
  <2> QED
    BY <1>7, <2>1, <2>2
<1>9. a + q < A + p
  BY <1>8
<1> QED
  BY <1>1, <1>5, <1>6, <1>9

\* A reader at the oldest offset kept that is owed a force-evicted control is behind the
\* floor, and the control's id takes it there.
LEMMA BeginOwed ==
    ASSUME NEW s \in Seq(Nat), Sorted(s), NEW A \in Nat, NEW l \in 1..Len(s), NEW k \in 0..Len(s),
           s[l] = A, k < l
    PROVE  A + PassedOf(s, A, k) < A + PassedOf(s, A, l)
<1>0. Len(s) \in Nat /\ l \in Nat /\ k \in Nat /\ \A i \in 1..Len(s) : s[i] \in Nat
  OBVIOUS
<1>1. PICK p \in Nat : p = PassedOf(s, A, l) /\ l <= p
  BY <1>0, PassedFacts
<1>2. PICK q \in Nat : q = PassedOf(s, A, k)
  BY <1>0, PassedFacts
<1>3. q = k \/ (q \in 1..Len(s) /\ s[q] < A)
  BY <1>0, <1>2, PassedFacts
<1>4. q < l
  <2>1. CASE q \in 1..Len(s) /\ s[q] < A
    <3>1. ~(l <= q)
      <4>1. s[q] \in Nat /\ (l <= q => s[l] <= s[q])
        BY <1>0, <2>1 DEF Sorted
      <4> QED
        BY <2>1, <4>1
    <3> QED
      BY <1>0, <3>1
  <2> QED
    BY <1>3, <2>1
<1>5. A + q < A + p
  BY <1>0, <1>1, <1>4
<1> QED
  BY <1>1, <1>2, <1>5

\* Any other reader is not behind the floor.
LEMMA BeginLevel ==
    ASSUME NEW s \in Seq(Nat), Sorted(s), NEW A \in Nat, NEW l \in 0..Len(s), NEW a \in Nat,
           NEW k \in 0..Len(s), A <= a, k >= l \/ (l > 0 /\ s[l] < a)
    PROVE  A + PassedOf(s, A, l) <= a + PassedOf(s, a, k) /\ l <= PassedOf(s, a, k)
<1>0. Len(s) \in Nat /\ l \in Nat /\ k \in Nat /\ \A i \in 1..Len(s) : s[i] \in Nat
  OBVIOUS
<1>1. PICK p \in Nat : p = PassedOf(s, A, l)
  BY <1>0, PassedFacts
<1>2. p = l \/ (p \in 1..Len(s) /\ s[p] < A)
  BY <1>0, <1>1, PassedFacts
<1>3. PICK q \in Nat : q = PassedOf(s, a, k)
  BY <1>0, PassedFacts
<1>4. k <= q /\ \A i \in 1..Len(s) : s[i] < a => i <= q
  BY <1>0, <1>3, PassedFacts
<1>5. l <= q
  BY <1>0, <1>4
<1>6. p <= q
  <2>1. CASE p \in 1..Len(s) /\ s[p] < A
    BY <1>0, <1>4, <2>1
  <2> QED
    BY <1>2, <1>5, <2>1
<1>7. A + p <= a + q
  BY <1>6
<1> QED
  BY <1>1, <1>3, <1>5, <1>7

\* Delivering bytes up to b passes no control when all those before b are passed.
AllPassed(s, b, p) == \A i \in 1..Len(s) : s[i] < b => i <= p

\* Bytes taken up to an offset pass no control beyond it.
LEMMA PassedBytes ==
    ASSUME NEW s \in Seq(Nat), NEW a \in Nat, NEW b \in Nat, a <= b, NEW c \in Nat,
           AllPassed(s, b, PassedOf(s, a, c))
    PROVE  PassedOf(s, b, c) = PassedOf(s, a, c)
<1>1. PICK p \in Nat : p = PassedOf(s, a, c)
  BY PassedFacts
<1>2. c <= p /\ (p = c \/ (p \in 1..Len(s) /\ s[p] < a))
  BY <1>1, PassedFacts
<1>3. p = c \/ (p \in 1..Len(s) /\ s[p] < b)
  <2>1. \A i \in 1..Len(s) : s[i] \in Nat
    OBVIOUS
  <2> QED
    BY <1>2, <2>1
<1>4. \A i \in 1..Len(s) : s[i] < b => i <= p
  BY <1>1 DEF AllPassed
<1> QED
  BY <1>1, <1>2, <1>3, <1>4, PassedIs

\* Counting a control behind the cursor as given changes nothing.
LEMMA PassedSeen ==
    ASSUME NEW s \in Seq(Nat), NEW a \in Nat, NEW c \in Nat, NEW i \in 1..Len(s), s[i] < a, c < i
    PROVE  PassedOf(s, a, i) = PassedOf(s, a, c)
<1>1. PICK p \in Nat : p = PassedOf(s, a, c)
  BY PassedFacts
<1>2. /\ c <= p /\ \A j \in 1..Len(s) : s[j] < a => j <= p
      /\ p = c \/ (p \in 1..Len(s) /\ s[p] < a)
  BY <1>1, PassedFacts
<1>3. i <= p /\ i \in Nat
  BY <1>2
<1>4. p \in 1..Len(s) /\ s[p] < a
  BY <1>2, <1>3
<1> QED
  BY <1>1, <1>2, <1>3, <1>4, PassedIs

\* A control at the cursor's offset, when given, is the last one passed.
LEMMA PassedCtl ==
    ASSUME NEW s \in Seq(Nat), Sorted(s), NEW a \in Nat, NEW c \in Nat, NEW n \in 1..Len(s),
           s[n] = a, c < n, \A i \in 1..Len(s) : i < n => i <= PassedOf(s, a, c)
    PROVE  PassedOf(s, a, c) = n - 1 /\ PassedOf(s, a, n) = n
<1>0. Len(s) \in Nat /\ n \in Nat /\ \A i \in 1..Len(s) : s[i] \in Nat
  OBVIOUS
<1>1. \A i \in 1..Len(s) : s[i] < a => i < n
  <2> TAKE i \in 1..Len(s)
  <2>1. s[i] \in Nat /\ (n <= i => s[n] <= s[i])
    BY <1>0 DEF Sorted
  <2> QED
    BY <1>0, <2>1
<1>2. PICK p \in Nat : p = PassedOf(s, a, c)
  BY PassedFacts
<1>3. p = c \/ (p \in 1..Len(s) /\ s[p] < a)
  BY <1>2, PassedFacts
<1>4. p < n
  BY <1>0, <1>1, <1>3
<1>5. n - 1 <= p
  <2>1. CASE n = 1
    BY <2>1
  <2>2. CASE n # 1
    <3>1. n - 1 \in 1..Len(s) /\ n - 1 < n
      BY <1>0, <2>2
    <3> QED
      BY <1>2, <3>1
  <2> QED
    BY <2>1, <2>2
<1>6. p = n - 1
  BY <1>0, <1>4, <1>5
<1>7. \A i \in 1..Len(s) : s[i] < a => i <= n
  BY <1>0, <1>1
<1>8. PassedOf(s, a, n) = n
  BY <1>0, <1>7, PassedIs
<1> QED
  BY <1>2, <1>6, <1>8

\* The first p controls are at a or before it, the others at b or after it.
NoneWithin(s, p, a, b) == /\ \A i \in 1..p : s[i] <= a
                          /\ \A i \in (p + 1)..Len(s) : s[i] >= b

\* Where no control is, the log is a run of bytes.
LEMMA LogRun ==
    ASSUME NEW s \in Seq(Nat), NEW e \in Nat, NEW p \in 0..Len(s), NEW a \in Nat, NEW t \in Nat,
           a + t <= e, NoneWithin(s, p, a, a + t)
    PROVE  \A k \in 1..t : LogOf(s, e)[(a + p) + k] = ByteItem(a + k)
<1> TAKE k \in 1..t
<1>0. Len(s) \in Nat /\ p \in Nat /\ p <= Len(s) /\ \A i \in 1..Len(s) : s[i] \in Nat
  OBVIOUS
<1>1. PICK x \in 1..(e + Len(s)) : x = (a + p) + k
  BY <1>0
<1>2. \A i \in 1..p : s[i] + i < x
  <2> TAKE i \in 1..p
  <2>1. i \in 1..Len(s) /\ s[i] \in Nat /\ s[i] <= a
    BY <1>0 DEF NoneWithin
  <2> QED
    BY <1>0, <1>1, <2>1
<1>3. \A i \in (p + 1)..Len(s) : s[i] + i > x
  <2> TAKE i \in (p + 1)..Len(s)
  <2>1. i \in 1..Len(s) /\ s[i] \in Nat /\ s[i] >= a + t
    BY <1>0 DEF NoneWithin
  <2> QED
    BY <1>0, <1>1, <2>1
<1>4. LogOf(s, e)[x] = ByteItem(x - p)
  BY <1>2, <1>3, LogByte
<1>5. x - p = a + k
  BY <1>0, <1>1
<1> QED
  BY <1>1, <1>4, <1>5

\* A run of a sequence and what follows it make a longer run.
Follows(u, g, v) == g + Len(v) <= Len(u) /\ \A k \in 1..Len(v) : u[g + k] = v[k]
\* v continues the run of u from f to g as far as h.
Joined(u, f, g, v, h) == SubSeq(u, f + 1, g) \o v = SubSeq(u, f + 1, h)

\* An answer that is continued where it stopped is a longer run of the log.
LEMMA RunGrows ==
    ASSUME NEW T, NEW u \in Seq(T), NEW f \in Nat, NEW g \in Nat, f <= g, NEW v \in Seq(T),
           Follows(u, g, v), NEW h, h = g + Len(v)
    PROVE  Joined(u, f, g, v, h)
<1>0. Len(u) \in Nat /\ Len(v) \in Nat /\ g + Len(v) <= Len(u)
  BY DEF Follows
<1>1. PICK n \in Nat : n = Len(v)
  BY <1>0
<1>2. PICK x \in Seq(T) : x = SubSeq(u, f + 1, g) /\ Len(x) = g - f /\ \A i \in 1..(g - f) : x[i] = u[f + i]
  <2>1. \A i \in (f + 1)..g : i \in 1..Len(u)
    BY <1>0
  <2>2. SubSeq(u, f + 1, g) = [i \in 1..(g - f) |-> u[f + i]]
    <3>1. SubSeq(u, f + 1, g) = [i \in 1..(1 + g - (f + 1)) |-> u[i + (f + 1) - 1]]
      BY <2>1, <1>0
    <3>2. 1 + g - (f + 1) = g - f /\ \A i \in 1..(g - f) : i + (f + 1) - 1 = f + i
      OBVIOUS
    <3> QED
      BY <3>1, <3>2
  <2>3. \A i \in 1..(g - f) : u[f + i] \in T
    <3> TAKE i \in 1..(g - f)
    <3>1. f + i \in 1..Len(u)
      BY <1>0
    <3> QED
      BY <3>1
  <2> DEFINE w == [i \in 1..(g - f) |-> u[f + i]]
  <2>4. w \in Seq(T) /\ Len(w) = g - f
    BY <2>3
  <2> QED
    BY <2>2, <2>4
<1>3. PICK y \in Seq(T) : /\ y = SubSeq(u, f + 1, g + n) /\ Len(y) = (g + n) - f
                          /\ \A i \in 1..((g + n) - f) : y[i] = u[f + i]
  <2>0. PICK hh \in Nat : hh = g + n /\ f <= hh /\ hh <= Len(u)
    BY <1>0, <1>1
  <2>1. SubSeq(u, f + 1, hh) = [i \in 1..(hh - f) |-> u[f + i]]
    <3>1. SubSeq(u, f + 1, hh) = [i \in 1..(1 + hh - (f + 1)) |-> u[i + (f + 1) - 1]]
      BY <2>0, <1>0
    <3>2. 1 + hh - (f + 1) = hh - f /\ \A i \in 1..(hh - f) : i + (f + 1) - 1 = f + i
      OBVIOUS
    <3> QED
      BY <3>1, <3>2
  <2>3. \A i \in 1..(hh - f) : u[f + i] \in T
    <3> TAKE i \in 1..(hh - f)
    <3>1. f + i \in 1..Len(u)
      BY <1>0, <2>0
    <3> QED
      BY <3>1
  <2> DEFINE w == [i \in 1..(hh - f) |-> u[f + i]]
  <2>4. w \in Seq(T) /\ Len(w) = hh - f
    BY <2>0, <2>3
  <2> QED
    BY <2>0, <2>1, <2>4
<1>4. /\ x \o v \in Seq(T) /\ Len(x \o v) = (g - f) + n
      /\ \A i \in 1..((g - f) + n) : (x \o v)[i] = IF i <= g - f THEN x[i] ELSE v[i - (g - f)]
  <2>1. /\ x \o v \in Seq(T) /\ Len(x \o v) = Len(x) + Len(v)
        /\ \A i \in 1..(Len(x) + Len(v)) : (x \o v)[i] = IF i <= Len(x) THEN x[i] ELSE v[i - Len(x)]
    BY ConcatProperties
  <2>2. Len(x) = g - f /\ Len(v) = n
    BY <1>1, <1>2
  <2> QED
    BY <2>1, <2>2, Zenon
<1>5. PICK z \in Seq(T) : z = x \o v
  BY <1>4
<1>6. Len(z) = Len(y) /\ Len(y) \in Nat
  <2>1. Len(z) = (g - f) + n
    BY <1>4, <1>5
  <2>2. Len(y) = (g + n) - f
    BY <1>3
  <2> QED
    BY <2>1, <2>2
<1>7. ASSUME NEW i \in 1..Len(y) PROVE z[i] = y[i]
  <2>1. i \in 1..((g - f) + n) /\ i \in 1..((g + n) - f)
    BY <1>3
  <2>2. y[i] = u[f + i]
    BY <1>3, <2>1
  <2>3. z[i] = IF i <= g - f THEN x[i] ELSE v[i - (g - f)]
    BY <1>4, <1>5, <2>1
  <2>4. CASE i <= g - f
    BY <1>2, <2>1, <2>2, <2>3, <2>4
  <2>5. CASE ~(i <= g - f)
    <3>1. i - (g - f) \in 1..n /\ g + (i - (g - f)) = f + i
      BY <2>1, <2>5
    <3>2. u[g + (i - (g - f))] = v[i - (g - f)]
      BY <1>1, <3>1 DEF Follows
    <3> QED
      BY <2>2, <2>3, <2>5, <3>1, <3>2
  <2> QED
    BY <2>4, <2>5
<1>8. z = y
  BY <1>6, <1>7
<1>9. h = g + n
  BY <1>1
<1> QED
  BY <1>2, <1>3, <1>5, <1>8, <1>9, Zenon DEF Joined

\* The same, for a log that goes on at g.
BytesFrom(u, g, a, n) == \A k \in 1..n : u[g + k] = ByteItem(a + k)

\* The bytes of a chunk from an offset on follow what was delivered up to it.
LEMMA BytesFollow ==
    ASSUME NEW s \in Seq(Nat), NEW e \in Nat, NEW p \in 0..Len(s), NEW a \in Nat, NEW t \in Nat,
           NEW b, b = a + t, b <= e, NoneWithin(s, p, a, b), NEW g, g = a + p
    PROVE  BytesFrom(LogOf(s, e), g, a, t)
  BY LogRun DEF BytesFrom

-----------------------------------------------------------------------------
(* The read in progress, as a state of the log: r are the read's locals.      *)

\* How much of the log is forgotten, and how far a consumer has got in it.
Floor == LogIndex(AvailableFrom, lost.id)
At(c) == LogIndex(cursor[c].after, cursor[c].ctl)

\* Where the answer starts and how far it has got.
From(r) == IF At(r.by) < Floor THEN Floor ELSE At(r.by)
Upto(r) == LogIndex(r.from, r.ctl)

\* The read is past what was evicted and not ahead of its controls.
Located(r) ==
    /\ AvailableFrom <= r.start /\ r.start <= r.from
    /\ lost.id <= Passed(r.from, r.ctl)
    /\ r.ctl > 0 => ctlAt[r.ctl] <= r.from

\* After the first bytes the read is at the start of the next entry.
Flush(r) == r.i <= Len(entries) => r.from = r.start \/ entries[r.i].pos >= r.from

\* The events are the items of the log from the start of the answer on.
Delivered(r) ==
    /\ r.gap = (At(r.by) < Floor)
    /\ From(r) <= Upto(r)
    /\ ItemsOf(r.events) = SubSeq(WholeLog, From(r) + 1, Upto(r))

\* The entries before index i have been passed, by their bytes and by their ids.
Behind(r) ==
    \A j \in 1..Len(entries) : j < r.i =>
        EntryEnd(entries[j]) <= r.from /\ (entries[j].kind = "ctl" => entries[j].n <= r.ctl)

\* The loop has left nothing out, and does not stop empty-handed before the end.
NothingSkipped(r) ==
    /\ r.i <= Len(entries) \/ Upto(r) = From(r) => Behind(r)
    /\ Upto(r) = From(r) => r.remaining > 0

\* The part of the invariant about the read in progress.
ReadingAt(r) == Located(r) /\ Flush(r) /\ Delivered(r) /\ NothingSkipped(r)

Reading == phase = "read" => ReadingAt(rd)

\* What is known of a read in progress.
LEMMA ReadingFacts ==
    ASSUME IInv, Placed, phase = "read", NEW q, q = rd, ReadingAt(q)
    PROVE  /\ q \in Reads /\ q.by \in Consumers /\ q.i \in Nat \ {0} /\ q.start \in Nat /\ q.from \in Nat
           /\ q.remaining \in Nat /\ q.ctl \in 0..Len(ctlAt) /\ q.events \in Seq(Entry)
           /\ q.from <= end /\ AvailableFrom <= q.from /\ Sorted(ctlAt)
           /\ PassedOf(ctlAt, q.from, q.ctl) \in 0..Len(ctlAt)
           /\ q.ctl <= PassedOf(ctlAt, q.from, q.ctl)
           /\ lost.id <= PassedOf(ctlAt, q.from, q.ctl)
           /\ \A i \in 1..PassedOf(ctlAt, q.from, q.ctl) : ctlAt[i] <= q.from
           /\ \A i \in (PassedOf(ctlAt, q.from, q.ctl) + 1)..Len(ctlAt) : ctlAt[i] >= q.from
           /\ Upto(q) = q.from + PassedOf(ctlAt, q.from, q.ctl)
<1>1. q \in Reads /\ ReadPosition
  BY DEF IInv, TypeOK
<1>2. /\ q.by \in Consumers /\ q.i \in Nat \ {0} /\ q.start \in Nat /\ q.from \in Nat
      /\ q.remaining \in Nat /\ q.ctl \in Nat /\ q.events \in Seq(Entry)
  BY <1>1 DEF Reads
<1>3. /\ ctlAt \in Seq(Nat) /\ Len(ctlAt) \in Nat /\ Len(ctlAt) = nextCtl - 1 /\ Sorted(ctlAt)
      /\ nextCtl \in Nat \ {0} /\ AvailableFrom \in Nat
  BY PlacedFacts DEF Placed, CtlsPlaced
<1>4. q.from <= end /\ q.ctl \in 0..Len(ctlAt)
  <2>1. q.from <= end /\ q.ctl < nextCtl
    BY <1>1 DEF ReadPosition
  <2> QED
    BY <1>2, <1>3, <2>1
<1>5. AvailableFrom <= q.start /\ q.start <= q.from /\ (q.ctl > 0 => ctlAt[q.ctl] <= q.from)
  BY DEF ReadingAt, Located
<1>6. lost.id <= PassedOf(ctlAt, q.from, q.ctl)
  BY PassedIsOf DEF ReadingAt, Located
<1>7. /\ PassedOf(ctlAt, q.from, q.ctl) \in 0..Len(ctlAt)
      /\ \A i \in 1..PassedOf(ctlAt, q.from, q.ctl) : ctlAt[i] <= q.from
      /\ \A i \in (PassedOf(ctlAt, q.from, q.ctl) + 1)..Len(ctlAt) : ctlAt[i] >= q.from
  BY <1>2, <1>3, <1>4, <1>5, PassedSplit
<1>8. q.ctl <= PassedOf(ctlAt, q.from, q.ctl)
  BY <1>2, <1>3, PassedFacts
<1>9. Upto(q) = q.from + PassedOf(ctlAt, q.from, q.ctl)
  BY PassedIsOf DEF Upto, LogIndex
<1>10. AvailableFrom <= q.from
  BY <1>2, <1>3, <1>5
<1> QED
  BY <1>1, <1>2, <1>3, <1>4, <1>6, <1>7, <1>8, <1>9, <1>10

\* The places of the cursors and of the floor are numbers.
LEMMA PlacesFacts ==
    ASSUME IInv, Placed
    PROVE  /\ Floor \in Nat /\ Floor <= end + Len(ctlAt)
           /\ Floor = AvailableFrom + PassedOf(ctlAt, AvailableFrom, lost.id)
           /\ \A c \in Consumers :
                /\ At(c) \in Nat /\ At(c) <= end + Len(ctlAt)
                /\ At(c) = cursor[c].after + PassedOf(ctlAt, cursor[c].after, cursor[c].ctl)
<1>1. /\ ctlAt \in Seq(Nat) /\ Len(ctlAt) \in Nat /\ Sorted(ctlAt) /\ end \in Nat
      /\ lost.id \in 0..Len(ctlAt) /\ AvailableFrom \in Nat /\ AvailableFrom <= end
      /\ lost.id > 0 => ctlAt[lost.id] <= AvailableFrom
  BY PlacedFacts DEF Placed, CtlsPlaced, LostPlaced
<1>2. Floor = AvailableFrom + PassedOf(ctlAt, AvailableFrom, lost.id)
  BY PassedIsOf DEF Floor, LogIndex
<1>3. PassedOf(ctlAt, AvailableFrom, lost.id) \in 0..Len(ctlAt)
  BY <1>1, PassedSplit
<1>4. Floor \in Nat /\ Floor <= end + Len(ctlAt)
  BY <1>1, <1>2, <1>3
<1>5. ASSUME NEW c \in Consumers
      PROVE  /\ At(c) \in Nat /\ At(c) <= end + Len(ctlAt)
             /\ At(c) = cursor[c].after + PassedOf(ctlAt, cursor[c].after, cursor[c].ctl)
  <2>1. /\ cursor[c].after \in Nat /\ cursor[c].after <= end /\ cursor[c].ctl \in 0..Len(ctlAt)
        /\ cursor[c].ctl > 0 => ctlAt[cursor[c].ctl] <= cursor[c].after
    BY <1>1, PlacedFacts DEF Placed, CursorsPlaced
  <2>2. PassedOf(ctlAt, cursor[c].after, cursor[c].ctl) \in 0..Len(ctlAt)
    BY <1>1, <2>1, PassedSplit
  <2>3. At(c) = cursor[c].after + PassedOf(ctlAt, cursor[c].after, cursor[c].ctl)
    BY PassedIsOf DEF At, LogIndex
  <2> QED
    BY <1>1, <2>1, <2>2, <2>3
<1> QED
  BY <1>2, <1>4, <1>5

\* A control of the log ahead of the read is in an entry from the read's index on.
LEMMA AheadIsKept ==
    ASSUME IInv, Placed, phase = "read", NEW q, q = rd, ReadingAt(q), Behind(q),
           NEW i \in 1..Len(ctlAt), PassedOf(ctlAt, q.from, q.ctl) < i
    PROVE  \E k \in 1..Len(entries) :
              /\ entries[k].kind = "ctl" /\ entries[k].n = i /\ entries[k].pos = ctlAt[i]
              /\ q.i <= k
<1>1. /\ q.ctl \in 0..Len(ctlAt) /\ q.from \in Nat /\ AvailableFrom <= q.from /\ q.i \in Nat
      /\ PassedOf(ctlAt, q.from, q.ctl) \in Nat /\ q.ctl <= PassedOf(ctlAt, q.from, q.ctl)
      /\ lost.id <= PassedOf(ctlAt, q.from, q.ctl)
      /\ \A j \in (PassedOf(ctlAt, q.from, q.ctl) + 1)..Len(ctlAt) : ctlAt[j] >= q.from
  BY ReadingFacts
<1>2. /\ ctlAt[i] \in Nat /\ AvailableFrom \in Nat /\ lost.id \in Nat /\ Len(ctlAt) \in Nat
      /\ EntriesPlaced /\ NoneForgotten
  BY PlacedFacts DEF Placed
<1>3. PICK p \in Nat : p = PassedOf(ctlAt, q.from, q.ctl)
  BY <1>1
<1>4. ctlAt[i] >= q.from
  <2>1. i \in (p + 1)..Len(ctlAt)
    BY <1>2, <1>3
  <2> QED
    BY <1>1, <1>3, <2>1
<1>5. ~(i <= lost.id) /\ ~(ctlAt[i] < AvailableFrom)
  BY <1>1, <1>2, <1>3, <1>4
<1>6. PICK k \in 1..Len(entries) : entries[k].kind = "ctl" /\ entries[k].n = i
  BY <1>2, <1>5 DEF NoneForgotten
<1>7. entries[k].pos = ctlAt[i]
  BY <1>2, <1>6 DEF EntriesPlaced
<1>8. ~(k < q.i)
  <2> SUFFICES ASSUME k < q.i PROVE FALSE
    OBVIOUS
  <2>1. i <= q.ctl
    BY <1>6 DEF Behind
  <2> QED
    BY <1>1, <1>3, <2>1
<1>9. q.i <= k
  BY <1>1, <1>8
<1> QED
  BY <1>6, <1>7, <1>9

\* The entry of the loop, and those around it.
LEMMA LoopEntry ==
    ASSUME IInv, phase = "read", rd.i <= Len(entries)
    PROVE  /\ rd.i \in 1..Len(entries) /\ entries[rd.i] \in Entry
           /\ entries[rd.i].pos \in Nat /\ entries[rd.i].n \in Nat \ {0}
           /\ EntryEnd(entries[rd.i]) \in Nat /\ EntryEnd(entries[rd.i]) <= end
           /\ entries[rd.i].pos <= rd.from
           /\ rd.i + 1 <= Len(entries) => /\ rd.i + 1 \in 1..Len(entries)
                                          /\ entries[rd.i + 1].pos = EntryEnd(entries[rd.i])
           /\ \A k \in 1..Len(entries) : rd.i < k => EntryEnd(entries[rd.i]) <= entries[k].pos
<1>1. TypeOK /\ RingShape
  BY DEF IInv
<1>2. /\ rd \in Reads /\ rd.i \in DOMAIN entries
      /\ entries[rd.i] \in Entry /\ entries[rd.i].pos <= rd.from
      /\ EntryEnd(entries[rd.i]) <= end
      /\ rd.i + 1 <= Len(entries) => entries[rd.i + 1].pos = EntryEnd(entries[rd.i])
  BY ReadLoopFacts
<1>3. Len(entries) \in Nat /\ DOMAIN entries = 1..Len(entries)
  BY <1>1, EntriesFacts
<1>4. rd.i \in 1..Len(entries)
  BY <1>2, <1>3
<1>5. /\ entries[rd.i].pos \in Nat /\ entries[rd.i].n \in Nat \ {0} /\ EntryEnd(entries[rd.i]) \in Nat
  BY <1>1, <1>4, EntriesFacts
<1>6. rd.i + 1 <= Len(entries) => rd.i + 1 \in 1..Len(entries)
  BY <1>3, <1>4
<1>7. \A k \in 1..Len(entries) : rd.i < k => EntryEnd(entries[rd.i]) <= entries[k].pos
  BY <1>1, <1>3, <1>4 DEF RingShape, Ordered
<1> QED
  BY <1>2, <1>4, <1>5, <1>6, <1>7

\* The loop moves on past an entry it has passed.
LEMMA PassEntry ==
    ASSUME IInv, Placed, phase = "read", NEW q, q = rd, ReadingAt(q), q.i <= Len(entries),
           EntryEnd(entries[q.i]) <= q.from,
           NEW r \in Reads, r.i = q.i + 1, r.by = q.by, r.start = q.start, r.from = q.from,
           r.gap = q.gap, r.events = q.events, r.remaining = q.remaining,
           \/ r.ctl = q.ctl /\ (entries[q.i].kind = "ctl" => entries[q.i].n <= q.ctl)
           \/ /\ entries[q.i].kind = "ctl" /\ q.ctl < entries[q.i].n /\ entries[q.i].pos < q.start
              /\ r.ctl = entries[q.i].n
    PROVE  ReadingAt(r)
<1>1. /\ q.i \in 1..Len(entries) /\ q.i \in Nat /\ entries[q.i].pos \in Nat
      /\ EntryEnd(entries[q.i]) \in Nat /\ entries[q.i] \in Entry /\ entries[q.i].pos <= q.from
      /\ q.i + 1 <= Len(entries) => entries[q.i + 1].pos = EntryEnd(entries[q.i])
  BY LoopEntry
<1>2. /\ q.ctl \in 0..Len(ctlAt) /\ q.from \in Nat /\ q.start \in Nat
      /\ PassedOf(ctlAt, q.from, q.ctl) \in 0..Len(ctlAt)
  BY ReadingFacts
<1>3. ctlAt \in Seq(Nat) /\ Len(ctlAt) \in Nat /\ EntriesPlaced
  BY PlacedFacts DEF Placed
<1>4. Located(q) /\ Flush(q) /\ Delivered(q) /\ NothingSkipped(q) /\ Behind(q)
  BY DEF ReadingAt, NothingSkipped
<1>5. /\ r.ctl \in Nat /\ q.ctl <= r.ctl /\ Passed(r.from, r.ctl) = Passed(q.from, q.ctl)
      /\ r.ctl > 0 => ctlAt[r.ctl] <= q.from
      /\ entries[q.i].kind = "ctl" => entries[q.i].n <= r.ctl
  <2>1. CASE r.ctl = q.ctl /\ (entries[q.i].kind = "ctl" => entries[q.i].n <= q.ctl)
    BY <1>2, <1>4, <2>1 DEF Located
  <2>2. CASE /\ entries[q.i].kind = "ctl" /\ q.ctl < entries[q.i].n /\ entries[q.i].pos < q.start
             /\ r.ctl = entries[q.i].n
    <3>1. r.ctl \in 1..Len(ctlAt) /\ ctlAt[r.ctl] = entries[q.i].pos
      BY <1>1, <1>3, <2>2, PlacedFacts DEF EntriesPlaced
    <3>2. q.start <= q.from
      BY <1>4 DEF Located
    <3>3. ctlAt[r.ctl] < q.from /\ q.ctl \in Nat /\ q.ctl < r.ctl
      BY <1>1, <1>2, <2>2, <3>1, <3>2
    <3>4. PassedOf(ctlAt, q.from, r.ctl) = PassedOf(ctlAt, q.from, q.ctl)
      BY <1>2, <1>3, <3>1, <3>3, PassedSeen
    <3>5. ctlAt[r.ctl] \in Nat /\ r.ctl \in Nat
      BY <1>3, <3>1
    <3> QED
      BY <1>2, <2>2, <3>3, <3>4, <3>5, PassedIsOf
  <2> QED
    BY <2>1, <2>2
<1>6. Upto(r) = Upto(q) /\ From(r) = From(q)
  BY <1>5 DEF Upto, From, LogIndex
<1>7. Located(r)
  BY <1>4, <1>5 DEF Located
<1>8. Delivered(r)
  BY <1>4, <1>6 DEF Delivered
<1>9. Flush(r)
  <2> SUFFICES ASSUME q.i + 1 <= Len(entries)
               PROVE  q.from = q.start \/ entries[q.i + 1].pos >= q.from
    BY DEF Flush
  <2>1. q.from = q.start \/ entries[q.i].pos >= q.from
    BY <1>4 DEF Flush
  <2>2. entries[q.i].pos <= EntryEnd(entries[q.i])
    BY <1>1, EntryEndFacts
  <2> QED
    BY <1>1, <1>2, <2>1, <2>2
<1>10. Behind(r)
  <2> SUFFICES ASSUME NEW j \in 1..Len(entries), j < q.i + 1
               PROVE  /\ EntryEnd(entries[j]) <= q.from
                      /\ entries[j].kind = "ctl" => entries[j].n <= r.ctl
    BY DEF Behind
  <2>1. CASE j = q.i
    BY <1>5, <2>1
  <2>2. CASE j < q.i
    <3>1. EntryEnd(entries[j]) <= q.from /\ (entries[j].kind = "ctl" => entries[j].n <= q.ctl)
      BY <1>4, <2>2 DEF Behind
    <3>2. entries[j].n \in Nat
      <4>1. TypeOK
        BY DEF IInv
      <4> QED
        BY <4>1, EntriesFacts
    <3> QED
      BY <1>2, <1>5, <3>1, <3>2
  <2> QED
    BY <1>1, <2>1, <2>2
<1>11. NothingSkipped(r)
  BY <1>4, <1>6, <1>10 DEF NothingSkipped
<1> QED
  BY <1>7, <1>8, <1>9, <1>11 DEF ReadingAt

\* A read that has given something may stop.
LEMMA StopReading ==
    ASSUME ReadingAt(rd), NEW q, q = rd, Upto(q) # From(q),
           NEW r, r.i = Len(entries) + 1, Len(entries) \in Nat,
           r.by = q.by, r.start = q.start, r.from = q.from, r.ctl = q.ctl, r.gap = q.gap, r.events = q.events
    PROVE  ReadingAt(r)
<1>1. Located(q) /\ Delivered(q)
  BY DEF ReadingAt
<1>2. Upto(r) = Upto(q) /\ From(r) = From(q)
  BY DEF Upto, From
<1>3. Located(r)
  BY <1>1 DEF Located
<1>4. Delivered(r)
  BY <1>1, <1>2 DEF Delivered
<1>5. Flush(r) /\ NothingSkipped(r)
  BY <1>2 DEF Flush, NothingSkipped
<1> QED
  BY <1>3, <1>4, <1>5 DEF ReadingAt

\* What a read adds to its answer is what the log holds next.
LEMMA DeliverMore ==
    ASSUME IInv, Placed, phase = "read", NEW q, q = rd, ReadingAt(q), NEW x \in Entry,
           NEW r, r.by = q.by, r.gap = q.gap, r.events = Append(q.events, x),
           Upto(r) = Upto(q) + Len(Items(x)), Upto(r) <= end + Len(ctlAt),
           \A k \in 1..Len(Items(x)) : LogOf(ctlAt, end)[Upto(q) + k] = Items(x)[k]
    PROVE  Delivered(r)
<1>1. q.by \in Consumers /\ q.events \in Seq(Entry) /\ Upto(q) \in Nat
  <2>1. /\ q.by \in Consumers /\ q.events \in Seq(Entry) /\ q.from \in Nat
        /\ PassedOf(ctlAt, q.from, q.ctl) \in 0..Len(ctlAt)
        /\ Upto(q) = q.from + PassedOf(ctlAt, q.from, q.ctl)
    BY ReadingFacts
  <2> QED
    BY <2>1
<1>2. Floor \in Nat /\ At(q.by) \in Nat
  BY <1>1, PlacesFacts
<1>3. From(q) \in Nat /\ From(r) = From(q)
  BY <1>2 DEF From
<1>4. Delivered(q)
  BY DEF ReadingAt
<1>5. PICK u \in Seq(LogItem) : u = WholeLog /\ u = LogOf(ctlAt, end) /\ Len(u) = end + Len(ctlAt)
  <2>1. ctlAt \in Seq(Nat) /\ end \in Nat
    BY PlacedFacts
  <2> QED
    BY <2>1, LogTyped, WholeLogIsOf
<1>6. PICK v \in Seq(LogItem) : v = Items(x)
  BY ItemsTyped
<1>7. PICK f \in Nat : f = From(q)
  BY <1>3
<1>8. PICK g \in Nat : g = Upto(q)
  BY <1>1
<1>9. f <= g /\ ItemsOf(q.events) = SubSeq(u, f + 1, g)
  BY <1>4, <1>5, <1>7, <1>8 DEF Delivered
<1>10. Upto(r) = g + Len(v) /\ g + Len(v) <= Len(u) /\ \A k \in 1..Len(v) : u[g + k] = v[k]
  BY <1>5, <1>6, <1>8
<1>11. SubSeq(u, f + 1, g) \o v = SubSeq(u, f + 1, g + Len(v))
  <2>1. Follows(u, g, v)
    BY <1>10 DEF Follows
  <2>2. PICK h : h = g + Len(v)
    OBVIOUS
  <2>3. Joined(u, f, g, v, h)
    BY <1>9, <2>1, <2>2, RunGrows
  <2> QED
    BY <2>2, <2>3, Zenon DEF Joined
<1>12. ItemsOf(Append(q.events, x)) = ItemsOf(q.events) \o v
  BY <1>1, <1>6, ItemsMore
<1>13. ItemsOf(r.events) = SubSeq(WholeLog, From(r) + 1, Upto(r))
  BY <1>3, <1>5, <1>7, <1>9, <1>10, <1>11, <1>12
<1>14. From(r) <= Upto(r)
  <2>1. Len(v) \in Nat
    OBVIOUS
  <2> QED
    BY <1>3, <1>7, <1>9, <1>10, <2>1
<1>15. r.gap = (At(r.by) < Floor)
  BY <1>4 DEF Delivered
<1> QED
  BY <1>13, <1>14, <1>15 DEF Delivered

\* The read takes bytes of a chunk.
LEMMA TakeBytes ==
    ASSUME IInv, Placed, phase = "read", NEW q, q = rd, ReadingAt(q), q.i <= Len(entries),
           entries[q.i].kind = "out", NEW t \in Nat \ {0}, q.from + t <= EntryEnd(entries[q.i]),
           NEW r \in Reads, r.by = q.by, r.start = q.start, r.ctl = q.ctl, r.gap = q.gap,
           r.from = q.from + t, r.events = Append(q.events, Out(q.from, t)),
           \/ r.i = Len(entries) + 1
           \/ r.i = q.i + 1 /\ r.from = EntryEnd(entries[q.i])
    PROVE  ReadingAt(r)
<1>1. /\ q.i \in 1..Len(entries) /\ q.i \in Nat /\ entries[q.i].pos \in Nat
      /\ EntryEnd(entries[q.i]) \in Nat /\ EntryEnd(entries[q.i]) <= end
      /\ q.i + 1 <= Len(entries) => entries[q.i + 1].pos = EntryEnd(entries[q.i])
      /\ \A k \in 1..Len(entries) : q.i < k => EntryEnd(entries[q.i]) <= entries[k].pos
  BY LoopEntry
<1>2. /\ q.ctl \in 0..Len(ctlAt) /\ q.from \in Nat /\ q.start \in Nat /\ q.by \in Consumers
      /\ PassedOf(ctlAt, q.from, q.ctl) \in 0..Len(ctlAt)
      /\ lost.id <= PassedOf(ctlAt, q.from, q.ctl)
      /\ \A i \in 1..PassedOf(ctlAt, q.from, q.ctl) : ctlAt[i] <= q.from
      /\ Upto(q) = q.from + PassedOf(ctlAt, q.from, q.ctl)
  BY ReadingFacts
<1>3. /\ ctlAt \in Seq(Nat) /\ Len(ctlAt) \in Nat /\ end \in Nat
      /\ \A i \in 1..Len(ctlAt) : ctlAt[i] \in Nat
      /\ \A k \in 1..Len(entries) : entries[k].pos \in Nat /\ EntryEnd(entries[k]) \in Nat
  BY PlacedFacts, EntriesFacts DEF IInv
<1>4. Located(q) /\ Flush(q) /\ Delivered(q) /\ NothingSkipped(q) /\ Behind(q)
  BY DEF ReadingAt, NothingSkipped
<1>5. PICK p \in 0..Len(ctlAt) : p = PassedOf(ctlAt, q.from, q.ctl)
  BY <1>2
<1>6. ASSUME NEW i \in 1..Len(ctlAt), ctlAt[i] < q.from + t PROVE i <= p
  <2> SUFFICES ASSUME p < i PROVE FALSE
    BY <1>3, <1>5
  <2>1. PICK k \in 1..Len(entries) : /\ entries[k].kind = "ctl" /\ entries[k].pos = ctlAt[i]
                                     /\ q.i <= k
    BY <1>4, <1>5, AheadIsKept
  <2>2. q.i < k
    BY <1>1, <2>1
  <2>3. EntryEnd(entries[q.i]) <= ctlAt[i]
    BY <1>1, <2>1, <2>2
  <2> QED
    BY <1>1, <1>2, <1>3, <1>6, <2>3
<1>7. PassedOf(ctlAt, r.from, r.ctl) = p
  <2>1. r.from \in Nat /\ q.from <= r.from /\ q.ctl \in Nat
    BY <1>2
  <2>2. \A i \in 1..Len(ctlAt) : ctlAt[i] < r.from => i <= PassedOf(ctlAt, q.from, q.ctl)
    BY <1>5, <1>6
  <2>3. PICK a \in Nat : a = q.from
    BY <1>2
  <2>4. PICK b \in Nat : b = r.from /\ a <= b
    BY <2>1, <2>3
  <2>5. PICK c \in Nat : c = q.ctl
    BY <2>1
  <2>6. AllPassed(ctlAt, b, PassedOf(ctlAt, a, c))
    BY <2>2, <2>3, <2>4, <2>5 DEF AllPassed
  <2>7. PassedOf(ctlAt, b, c) = PassedOf(ctlAt, a, c)
    BY <1>3, <2>3, <2>4, <2>5, <2>6, PassedBytes
  <2> QED
    BY <1>5, <2>3, <2>4, <2>5, <2>7
<1>8. Upto(r) = Upto(q) + t /\ Upto(q) = q.from + p
  <2>1. Upto(r) = r.from + p
    BY <1>7, PassedIsOf DEF Upto, LogIndex
  <2> QED
    BY <1>2, <1>5, <2>1
<1>9. PICK x \in Entry : x = Out(q.from, t) /\ x.kind = "out" /\ x.pos = q.from /\ x.n = t
  <2>1. /\ Out(q.from, t) \in Entry /\ Out(q.from, t).kind = "out" /\ Out(q.from, t).pos = q.from
        /\ Out(q.from, t).n = t
    BY <1>2 DEF Out, Entry
  <2> QED
    BY <2>1
<1>10. Len(Items(x)) = t /\ \A k \in 1..t : Items(x)[k] = ByteItem(q.from + k)
  BY <1>9, ItemsTyped
<1>11. \A k \in 1..t : LogOf(ctlAt, end)[(q.from + p) + k] = ByteItem(q.from + k)
  <2>1. q.from + t <= end
    BY <1>1, <1>2, <1>3
  <2>2. \A i \in (p + 1)..Len(ctlAt) : ctlAt[i] >= q.from + t
    <3> TAKE i \in (p + 1)..Len(ctlAt)
    <3>1. i \in 1..Len(ctlAt) /\ ~(i <= p)
      BY <1>3
    <3>2. ~(ctlAt[i] < q.from + t) /\ ctlAt[i] \in Nat
      BY <1>3, <1>6, <3>1
    <3> QED
      BY <1>2, <3>2
  <2>3. \A i \in 1..p : ctlAt[i] <= q.from
    BY <1>2, <1>5
  <2>4. PICK a \in Nat : a = q.from
    BY <1>2
  <2>5. a + t <= end /\ NoneWithin(ctlAt, p, a, a + t)
    BY <2>1, <2>2, <2>3, <2>4 DEF NoneWithin
  <2>6. t \in Nat
    OBVIOUS
  <2>7. PICK b : b = a + t
    OBVIOUS
  <2>8. PICK g : g = a + p
    OBVIOUS
  <2>9. BytesFrom(LogOf(ctlAt, end), g, a, t)
    BY <1>3, <2>5, <2>6, <2>7, <2>8, BytesFollow
  <2> QED
    BY <2>4, <2>8, <2>9 DEF BytesFrom
<1>12. Delivered(r)
  <2>1. Upto(r) <= end + Len(ctlAt)
    BY <1>1, <1>2, <1>3, <1>8
  <2> QED
    BY <1>8, <1>9, <1>10, <1>11, <2>1, DeliverMore
<1>13. Located(r)
  <2>1. AvailableFrom <= q.start /\ q.start <= q.from /\ (q.ctl > 0 => ctlAt[q.ctl] <= q.from)
    BY <1>4 DEF Located
  <2>2. q.ctl > 0 => ctlAt[q.ctl] \in Nat
    BY <1>2, <1>3
  <2>3. q.start <= r.from /\ (q.ctl > 0 => ctlAt[q.ctl] <= r.from)
    BY <1>2, <2>1, <2>2
  <2>4. lost.id <= Passed(r.from, r.ctl)
    BY <1>2, <1>5, <1>7, PassedIsOf
  <2> QED
    BY <2>1, <2>3, <2>4 DEF Located
<1>14. Flush(r)
  <2>1. CASE r.i = Len(entries) + 1
    BY <2>1, EntriesFacts DEF Flush, IInv
  <2>2. CASE r.i = q.i + 1 /\ r.from = EntryEnd(entries[q.i])
    BY <1>1, <2>2 DEF Flush
  <2> QED
    BY <2>1, <2>2
<1>15. Upto(r) # From(r)
  <2>1. From(r) = From(q) /\ From(q) <= Upto(q)
    BY <1>4 DEF Delivered, From
  <2>2. From(q) \in Nat
    BY <1>2, PlacesFacts DEF From
  <2> QED
    BY <1>2, <1>5, <1>8, <2>1, <2>2
<1>16. r.i <= Len(entries) => Behind(r)
  <2> SUFFICES ASSUME r.i = q.i + 1, r.from = EntryEnd(entries[q.i]), NEW j \in 1..Len(entries), j < q.i + 1
               PROVE  /\ EntryEnd(entries[j]) <= r.from
                      /\ entries[j].kind = "ctl" => entries[j].n <= q.ctl
    <3>1. Len(entries) \in Nat
      BY EntriesFacts DEF IInv
    <3> QED
      BY <3>1 DEF Behind
  <2>1. CASE j = q.i
    BY <1>1, <2>1
  <2>2. CASE j < q.i
    <3>1. EntryEnd(entries[j]) <= q.from /\ (entries[j].kind = "ctl" => entries[j].n <= q.ctl)
      BY <1>4, <2>2 DEF Behind
    <3> QED
      BY <1>2, <1>3, <3>1
  <2> QED
    BY <1>1, <2>1, <2>2
<1>17. NothingSkipped(r)
  BY <1>15, <1>16 DEF NothingSkipped
<1> QED
  BY <1>12, <1>13, <1>14, <1>17 DEF ReadingAt

\* The read gives a control at its offset: every one before it has been passed.
LEMMA GiveCtl ==
    ASSUME IInv, Placed, phase = "read", NEW q, q = rd, ReadingAt(q), q.i <= Len(entries),
           entries[q.i].kind = "ctl", q.start <= entries[q.i].pos, q.ctl < entries[q.i].n,
           NEW r \in Reads, r.by = q.by, r.start = q.start, r.gap = q.gap, r.i = q.i + 1,
           r.ctl = entries[q.i].n, r.from = q.from, r.events = Append(q.events, entries[q.i])
    PROVE  ReadingAt(r)
<1>0. TypeOK /\ RingShape
  BY DEF IInv
<1>1. /\ q.i \in 1..Len(entries) /\ q.i \in Nat /\ entries[q.i].pos \in Nat /\ entries[q.i] \in Entry
      /\ entries[q.i].pos <= q.from
      /\ q.i + 1 <= Len(entries) => entries[q.i + 1].pos = EntryEnd(entries[q.i])
  BY LoopEntry
<1>2. /\ q.ctl \in 0..Len(ctlAt) /\ q.from \in Nat /\ q.start \in Nat /\ q.by \in Consumers
      /\ PassedOf(ctlAt, q.from, q.ctl) \in 0..Len(ctlAt)
      /\ lost.id <= PassedOf(ctlAt, q.from, q.ctl)
      /\ Upto(q) = q.from + PassedOf(ctlAt, q.from, q.ctl) /\ q.from <= end /\ Sorted(ctlAt)
  BY ReadingFacts
<1>3. /\ ctlAt \in Seq(Nat) /\ Len(ctlAt) \in Nat /\ end \in Nat /\ EntriesPlaced /\ lost.id \in Nat
      /\ \A i \in 1..Len(ctlAt) : ctlAt[i] \in Nat
      /\ DOMAIN entries = 1..Len(entries)
      /\ \A k \in 1..Len(entries) : entries[k].pos \in Nat /\ EntryEnd(entries[k]) \in Nat /\ entries[k].n \in Nat
  BY <1>0, PlacedFacts, EntriesFacts DEF Placed
<1>4. Located(q) /\ Flush(q) /\ Delivered(q) /\ NothingSkipped(q) /\ Behind(q)
  BY DEF ReadingAt, NothingSkipped
<1>5. PICK n \in 1..Len(ctlAt) : n = entries[q.i].n /\ ctlAt[n] = entries[q.i].pos
  BY <1>1, <1>3, PlacedFacts DEF EntriesPlaced
<1>6. ctlAt[n] = q.from /\ EntryEnd(entries[q.i]) = q.from
  <2>1. q.from = q.start \/ entries[q.i].pos >= q.from
    BY <1>4 DEF Flush
  <2>2. entries[q.i].pos = q.from
    BY <1>1, <1>2, <2>1
  <2> QED
    BY <1>5, <2>2 DEF EntryEnd
<1>7. ASSUME NEW i \in 1..Len(ctlAt), i < n PROVE i <= PassedOf(ctlAt, q.from, q.ctl)
  <2> SUFFICES ASSUME PassedOf(ctlAt, q.from, q.ctl) < i PROVE FALSE
    BY <1>2, <1>3
  <2>1. PICK k \in 1..Len(entries) : /\ entries[k].kind = "ctl" /\ entries[k].n = i /\ q.i <= k
    BY <1>4, AheadIsKept
  <2>2. CASE k = q.i
    BY <1>5, <1>7, <2>1, <2>2
  <2>3. CASE q.i < k
    <3>1. n < i
      BY <1>0, <1>1, <1>3, <1>5, <2>1, <2>3 DEF RingShape, CtlOrder
    <3> QED
      BY <1>3, <1>7, <3>1
  <2> QED
    BY <1>1, <2>1, <2>2, <2>3
<1>8. PassedOf(ctlAt, q.from, q.ctl) = n - 1 /\ PassedOf(ctlAt, q.from, n) = n
  <2>1. q.ctl \in Nat /\ q.ctl < n
    BY <1>2, <1>5
  <2>2. PICK a \in Nat : a = q.from
    BY <1>2
  <2>3. PICK c \in Nat : c = q.ctl /\ c < n
    BY <2>1
  <2>4. Sorted(ctlAt) /\ ctlAt[n] = a /\ \A i \in 1..Len(ctlAt) : i < n => i <= PassedOf(ctlAt, a, c)
    BY <1>2, <1>6, <1>7, <2>2, <2>3
  <2>5. PassedOf(ctlAt, a, c) = n - 1 /\ PassedOf(ctlAt, a, n) = n
    BY <1>3, <2>3, <2>4, PassedCtl
  <2> QED
    BY <2>2, <2>3, <2>5
<1>9. Upto(r) = q.from + n /\ Upto(q) = q.from + (n - 1) /\ Upto(r) = Upto(q) + 1
  <2>1. Upto(r) = q.from + n
    BY <1>5, <1>8, PassedIsOf DEF Upto, LogIndex
  <2> QED
    BY <1>2, <1>8, <2>1
<1>10. Delivered(r)
  <2>1. PICK x \in Entry : x = entries[q.i]
    BY <1>1
  <2>2. Items(x) = <<CtlItem(n)>> /\ Len(Items(x)) = 1
    BY <1>5, <2>1, ItemsTyped
  <2>3. LogOf(ctlAt, end)[ctlAt[n] + n] = CtlItem(n)
    BY <1>2, <1>3, <1>6, LogCtl
  <2>4. Upto(q) + 1 = ctlAt[n] + n
    BY <1>2, <1>6, <1>9
  <2>5. \A k \in 1..1 : k = 1
    OBVIOUS
  <2>6. \A k \in 1..Len(Items(x)) : LogOf(ctlAt, end)[Upto(q) + k] = Items(x)[k]
    BY <2>2, <2>3, <2>4, <2>5
  <2>7. Upto(r) <= end + Len(ctlAt)
    BY <1>2, <1>3, <1>9
  <2> QED
    BY <1>9, <2>1, <2>2, <2>6, <2>7, DeliverMore
<1>11. Located(r)
  <2>1. AvailableFrom <= q.start /\ q.start <= q.from
    BY <1>4 DEF Located
  <2>2. ctlAt[r.ctl] <= r.from
    BY <1>2, <1>5, <1>6
  <2>3. lost.id <= Passed(r.from, r.ctl)
    <3>1. Passed(r.from, r.ctl) = n
      BY <1>5, <1>8, PassedIsOf
    <3> QED
      BY <1>2, <1>3, <1>8, <3>1
  <2> QED
    BY <2>1, <2>2, <2>3 DEF Located
<1>12. Flush(r)
  BY <1>1, <1>2, <1>6 DEF Flush
<1>13. Behind(r)
  <2> SUFFICES ASSUME NEW j \in 1..Len(entries), j < q.i + 1
               PROVE  /\ EntryEnd(entries[j]) <= q.from
                      /\ entries[j].kind = "ctl" => entries[j].n <= n
    BY <1>5 DEF Behind
  <2>1. CASE j = q.i
    BY <1>2, <1>3, <1>5, <1>6, <2>1
  <2>2. CASE j < q.i
    <3>1. EntryEnd(entries[j]) <= q.from /\ (entries[j].kind = "ctl" => entries[j].n <= q.ctl)
      BY <1>4, <2>2 DEF Behind
    <3>2. q.ctl < n /\ q.ctl \in Nat /\ n \in Nat /\ entries[j].n \in Nat
      BY <1>2, <1>3, <1>5
    <3> QED
      BY <3>1, <3>2
  <2> QED
    BY <1>1, <2>1, <2>2
<1>14. Upto(r) # From(r)
  <2>1. From(r) = From(q) /\ From(q) <= Upto(q)
    BY <1>4 DEF Delivered, From
  <2>2. From(q) \in Nat
    BY <1>2, PlacesFacts DEF From
  <2> QED
    BY <1>2, <1>9, <2>1, <2>2
<1>15. NothingSkipped(r)
  BY <1>13, <1>14 DEF NothingSkipped
<1> QED
  BY <1>10, <1>11, <1>12, <1>15 DEF ReadingAt

\* A read that starts at the place the log gives it.
LEMMA StartReading ==
    ASSUME IInv, Placed, NEW r \in Reads, r.i = 1, r.from = r.start, r.remaining > 0,
           r.events = <<>>, r.gap = (At(r.by) < Floor), Upto(r) = From(r),
           AvailableFrom <= r.start, lost.id <= PassedOf(ctlAt, r.from, r.ctl),
           r.ctl > 0 => ctlAt[r.ctl] <= r.from
    PROVE  ReadingAt(r)
<1>1. r.start \in Nat /\ r.from \in Nat /\ r.by \in Consumers
  BY DEF Reads
<1>2. Located(r)
  BY <1>1, PassedIsOf DEF Located
<1>3. Flush(r)
  BY DEF Flush
<1>4. NothingSkipped(r)
  <2>1. Behind(r)
    BY DEF Behind
  <2> QED
    BY <2>1 DEF NothingSkipped
<1>5. PICK f \in Nat : f = From(r)
  <2>1. Floor \in Nat /\ At(r.by) \in Nat
    BY <1>1, PlacesFacts
  <2> QED
    BY <2>1 DEF From
<1>6. SubSeq(WholeLog, f + 1, f) = <<>>
  <2>1. PICK u \in Seq(LogItem) : u = WholeLog
    <3>1. ctlAt \in Seq(Nat) /\ end \in Nat
      BY PlacedFacts
    <3> QED
      BY <3>1, LogTyped, WholeLogIsOf
  <2>2. SubSeq(u, f + 1, f) = <<>>
    OBVIOUS
  <2> QED
    BY <2>1, <2>2
<1>7. Delivered(r)
  <2>1. From(r) <= Upto(r)
    BY <1>5
  <2>2. ItemsOf(r.events) = SubSeq(WholeLog, From(r) + 1, Upto(r))
    BY <1>5, <1>6, ItemsNone, Zenon
  <2> QED
    BY <2>1, <2>2, Zenon DEF Delivered
<1> QED
  BY <1>2, <1>3, <1>4, <1>7 DEF ReadingAt

\* The prologue of read finds the place: a Gap exactly when the reader is behind the floor.
LEMMA BeginReading ==
    ASSUME IInv, Placed, NEW c \in Consumers, NEW m \in ReadSizes, BeginRead(c, m), NEW r, r = rd'
    PROVE  ReadingAt(r)
<1> DEFINE behind == cursor[c].after < AvailableFrom
           from == IF behind THEN AvailableFrom ELSE cursor[c].after
           owed == cursor[c].ctl < lost.id /\ from <= lost.seq
           ctl == IF owed THEN lost.id ELSE cursor[c].ctl
<1>1. r = [by |-> c, i |-> 1, start |-> from, from |-> from, remaining |-> m, ctl |-> ctl,
           gap |-> behind \/ owed, events |-> <<>>]
  BY DEF BeginRead
<1>2. r \in Reads
  <2>1. rd' \in Reads
    <3>1. TypeOK' /\ phase' = "read"
      BY BeginReadIInv DEF IInv, BeginRead
    <3> QED
      BY <3>1 DEF TypeOK
  <2> QED
    BY <2>1
<1>3. /\ ctlAt \in Seq(Nat) /\ Len(ctlAt) \in Nat /\ Sorted(ctlAt) /\ AvailableFrom \in Nat
      /\ lost.id \in 0..Len(ctlAt) /\ lost.seq \in Nat /\ lost.id \in Nat
      /\ lost.id > 0 => lost.id \in 1..Len(ctlAt) /\ ctlAt[lost.id] = lost.seq /\ lost.seq <= AvailableFrom
      /\ cursor[c].after \in Nat /\ cursor[c].ctl \in 0..Len(ctlAt) /\ cursor[c].ctl \in Nat
      /\ cursor[c].ctl > 0 => ctlAt[cursor[c].ctl] <= cursor[c].after
  <2>1. CtlsPlaced /\ LostPlaced /\ CursorsPlaced
    BY DEF Placed
  <2> QED
    BY <2>1, PlacedFacts DEF CtlsPlaced, LostPlaced, CursorsPlaced
<1>4. /\ Floor = AvailableFrom + PassedOf(ctlAt, AvailableFrom, lost.id) /\ Floor \in Nat
      /\ At(c) = cursor[c].after + PassedOf(ctlAt, cursor[c].after, cursor[c].ctl) /\ At(c) \in Nat
  BY PlacesFacts
<1>5. PICK A \in Nat : A = AvailableFrom
  BY <1>3
<1>6. PICK l \in 0..Len(ctlAt) : l = lost.id /\ l \in Nat
  BY <1>3
<1>7. PICK a \in Nat : a = cursor[c].after
  BY <1>3
<1>8. PICK k \in 0..Len(ctlAt) : k = cursor[c].ctl /\ k \in Nat
  BY <1>3
<1>9. /\ l > 0 => l \in 1..Len(ctlAt) /\ ctlAt[l] = lost.seq /\ ctlAt[l] <= A /\ ctlAt[l] \in Nat
      /\ k > 0 => ctlAt[k] <= a
  BY <1>3, <1>5, <1>6, <1>7, <1>8
<1>10. PICK f \in Nat : f = from
  BY <1>3
<1>11. PICK d \in 0..Len(ctlAt) : d = ctl
  BY <1>3
<1>12. /\ r.by = c /\ r.i = 1 /\ r.start = f /\ r.from = f /\ r.remaining = m /\ r.ctl = d
       /\ r.gap = (behind \/ owed) /\ r.events = <<>> /\ m \in Nat \ {0}
  <2> HIDE DEF from, ctl, behind, owed
  <2> QED
    BY <1>1, <1>10, <1>11, RingConstants
<1>13. Upto(r) = f + PassedOf(ctlAt, f, d)
  BY <1>12, PassedIsOf DEF Upto, LogIndex
<1>14. /\ A <= f /\ (d > 0 => ctlAt[d] <= f) /\ l <= PassedOf(ctlAt, f, d)
       /\ f + PassedOf(ctlAt, f, d) = From(r) /\ (behind \/ owed <=> At(c) < Floor)
  <2>1. CASE behind
    <3>1. f = A /\ a < A /\ (owed <=> k < l /\ A <= lost.seq) /\ d = IF owed THEN l ELSE k
      BY <1>3, <1>5, <1>6, <1>7, <1>8, <1>10, <1>11, <2>1
    <3> HIDE DEF behind, owed, from, ctl
    <3>2. d = l \/ (d = k /\ (k >= l \/ ctlAt[l] < A))
      <4>1. CASE owed
        BY <3>1, <4>1
      <4>2. CASE ~owed
        <5>1. d = k /\ (k >= l \/ ~(A <= lost.seq))
          BY <1>6, <1>8, <3>1, <4>2
        <5>2. CASE k >= l
          BY <5>1, <5>2
        <5>3. CASE k < l
          BY <1>3, <1>6, <1>8, <1>9, <5>1, <5>3
        <5> QED
          BY <1>6, <1>8, <5>2, <5>3
      <4> QED
        BY <4>1, <4>2
    <3>3. l > 0 => ctlAt[l] <= A
      BY <1>9
    <3>4. /\ PassedOf(ctlAt, A, d) = PassedOf(ctlAt, A, l)
          /\ a + PassedOf(ctlAt, a, k) < A + PassedOf(ctlAt, A, l)
      BY <1>3, <1>9, <3>1, <3>2, <3>3, BeginBehind
    <3>5. At(c) < Floor /\ From(r) = A + PassedOf(ctlAt, A, l)
      BY <1>4, <1>5, <1>6, <1>7, <1>8, <1>12, <3>4 DEF From
    <3>6. l <= PassedOf(ctlAt, A, l)
      BY <1>3, <1>6, PassedFacts
    <3>7. d > 0 => ctlAt[d] <= A
      <4>1. CASE d = l
        BY <1>9, <4>1
      <4>2. CASE d = k
        <5>1. k > 0 => ctlAt[k] \in Nat
          BY <1>3, <1>8
        <5> QED
          BY <1>9, <3>1, <4>2, <5>1
      <4> QED
        BY <3>2, <4>1, <4>2
    <3> QED
      BY <2>1, <3>1, <3>4, <3>5, <3>6, <3>7
  <2>2. CASE ~behind /\ owed
    <3>1. f = a /\ A <= a /\ k < l /\ a <= lost.seq /\ d = l
      BY <1>3, <1>5, <1>6, <1>7, <1>8, <1>10, <1>11, <2>2
    <3> HIDE DEF behind, owed, from, ctl
    <3>2. l \in 1..Len(ctlAt) /\ ctlAt[l] = A /\ a = A
      BY <1>6, <1>8, <1>9, <1>3, <3>1
    <3>3. A + PassedOf(ctlAt, A, k) < A + PassedOf(ctlAt, A, l)
      BY <1>3, <3>1, <3>2, BeginOwed
    <3>5. At(c) < Floor /\ From(r) = A + PassedOf(ctlAt, A, l)
      BY <1>4, <1>5, <1>6, <1>7, <1>8, <1>12, <3>2, <3>3 DEF From
    <3>6. l <= PassedOf(ctlAt, A, l)
      BY <1>3, <1>6, PassedFacts
    <3> QED
      BY <2>2, <3>1, <3>2, <3>5, <3>6
  <2>3. CASE ~behind /\ ~owed
    <3>1. f = a /\ A <= a /\ d = k /\ ~(k < l /\ a <= lost.seq)
      BY <1>3, <1>5, <1>6, <1>7, <1>8, <1>10, <1>11, <2>3
    <3> HIDE DEF behind, owed, from, ctl
    <3>2. k >= l \/ (l > 0 /\ ctlAt[l] < a)
      BY <1>6, <1>8, <1>9, <1>3, <3>1
    <3>3. A + PassedOf(ctlAt, A, l) <= a + PassedOf(ctlAt, a, k) /\ l <= PassedOf(ctlAt, a, k)
      BY <1>3, <3>1, <3>2, BeginLevel
    <3>4. Floor <= At(c)
      BY <1>4, <1>5, <1>6, <1>7, <1>8, <3>3
    <3>5. ~(At(c) < Floor) /\ From(r) = a + PassedOf(ctlAt, a, k)
      <4>1. ~(At(c) < Floor)
        BY <1>4, <3>4
      <4> QED
        BY <1>4, <1>7, <1>8, <1>12, <4>1 DEF From
    <3> QED
      BY <1>9, <2>3, <3>1, <3>3, <3>5
  <2> HIDE DEF behind, owed, from, ctl
  <2> QED
    BY <2>1, <2>2, <2>3
<1>15. r.gap = (At(r.by) < Floor)
  <2> HIDE DEF behind, owed, from, ctl
  <2> QED
    BY <1>12, <1>14
<1> HIDE DEF behind, owed, from, ctl
<1>16. /\ Upto(r) = From(r) /\ AvailableFrom <= r.start /\ lost.id <= PassedOf(ctlAt, r.from, r.ctl)
       /\ (r.ctl > 0 => ctlAt[r.ctl] <= r.from) /\ r.remaining > 0 /\ r.from = r.start
  BY <1>5, <1>6, <1>12, <1>13, <1>14
<1> QED
  BY <1>2, <1>12, <1>15, <1>16, StartReading

\* A step of the read loop moves the read's locals only.
LEMMA ReadingNext ==
    ASSUME UNCHANGED <<ringVars, cursor>>, NEW r, r = rd', ReadingAt(r)
    PROVE  Reading'
<1>0. UNCHANGED <<entries, end, lost, ctlAt, cursor>>
  BY DEF ringVars
<1>1. AvailableFrom' = AvailableFrom /\ WholeLog' = WholeLog
  BY <1>0 DEF AvailableFrom, Outputs, WholeLog
<1>2. Passed(rd.from, rd.ctl)' = Passed(r.from, r.ctl)
  BY <1>0 DEF Passed
<1>3. Floor' = Floor
  <2>1. Passed(AvailableFrom, lost.id)' = Passed(AvailableFrom, lost.id)
    BY <1>0, <1>1 DEF Passed
  <2> QED
    BY <1>1, <2>1 DEF Floor, LogIndex
<1>4. At(rd.by)' = At(r.by)
  BY <1>0 DEF At, LogIndex, Passed
<1>5. Upto(rd)' = Upto(r)
  BY <1>2 DEF Upto, LogIndex
<1>6. From(rd)' = From(r)
  BY <1>3, <1>4 DEF From
<1>7. Located(rd)'
  BY <1>0, <1>1, <1>2 DEF ReadingAt, Located
<1>8. Flush(rd)'
  BY <1>0 DEF ReadingAt, Flush
<1>9. Delivered(rd)'
  <2>1. Delivered(r)
    BY DEF ReadingAt
  <2> QED
    BY <1>1, <1>3, <1>4, <1>5, <1>6, <2>1 DEF Delivered
<1>10. NothingSkipped(rd)'
  <2>1. NothingSkipped(r)
    BY DEF ReadingAt
  <2>2. Behind(rd)' <=> Behind(r)
    BY <1>0 DEF Behind, EntryEnd
  <2> QED
    BY <1>0, <1>5, <1>6, <2>1, <2>2 DEF NothingSkipped
<1> QED
  BY <1>7, <1>8, <1>9, <1>10 DEF Reading, ReadingAt

\* The fields that the loop's four kinds of update keep.
LEMMA MovedFields ==
    ASSUME NEW q \in Reads, NEW k
    PROVE  LET r == [q EXCEPT !.i = k]
           IN  /\ r.i = k /\ r.by = q.by /\ r.start = q.start /\ r.from = q.from /\ r.ctl = q.ctl
               /\ r.remaining = q.remaining /\ r.gap = q.gap /\ r.events = q.events
  BY DEF Reads

\* The fields after a control was seen,
LEMMA SeenFields ==
    ASSUME NEW q \in Reads, NEW k, NEW n
    PROVE  LET r == [q EXCEPT !.ctl = n, !.i = k]
           IN  /\ r.i = k /\ r.by = q.by /\ r.start = q.start /\ r.from = q.from /\ r.ctl = n
               /\ r.remaining = q.remaining /\ r.gap = q.gap /\ r.events = q.events
  BY DEF Reads

\* after one was delivered,
LEMMA GivenFields ==
    ASSUME NEW q \in Reads, NEW k, NEW n, NEW ev
    PROVE  LET r == [q EXCEPT !.ctl = n, !.events = ev, !.i = k]
           IN  /\ r.i = k /\ r.by = q.by /\ r.start = q.start /\ r.from = q.from /\ r.ctl = n
               /\ r.remaining = q.remaining /\ r.gap = q.gap /\ r.events = ev
  BY DEF Reads

\* and after bytes were.
LEMMA TakenFields ==
    ASSUME NEW q \in Reads, NEW k, NEW f, NEW m, NEW ev
    PROVE  LET r == [q EXCEPT !.from = f, !.remaining = m, !.events = ev, !.i = k]
           IN  /\ r.i = k /\ r.by = q.by /\ r.start = q.start /\ r.from = f /\ r.ctl = q.ctl
               /\ r.remaining = m /\ r.gap = q.gap /\ r.events = ev
  BY DEF Reads

\* The loop's control branch.
LEMMA ReadCtlReading ==
    ASSUME IInv, Placed, Reading, ReadCtl
    PROVE  Reading'
<1>0. /\ phase = "read" /\ rd.i <= Len(entries) /\ entries[rd.i].kind = "ctl" /\ phase' = "read"
      /\ UNCHANGED <<ringVars, cursor>> /\ TypeOK'
  BY ReadCtlIInv DEF ReadCtl, IInv
<1>1. PICK q \in Reads : q = rd /\ ReadingAt(q)
  BY <1>0 DEF IInv, TypeOK, Reading
<1>2. PICK r \in Reads : r = rd'
  BY <1>0 DEF TypeOK
<1>3. PICK e \in Entry : e = entries[q.i]
  BY <1>0, <1>1, LoopEntry
<1>4. /\ e.kind = "ctl" /\ e.pos \in Nat /\ e.n \in Nat /\ EntryEnd(e) = e.pos /\ e.pos <= q.from
      /\ q.i <= Len(entries)
  BY <1>0, <1>1, <1>3, LoopEntry DEF Entry, EntryEnd
<1>5. q.from \in Nat /\ q.start \in Nat /\ q.ctl \in Nat
  BY DEF Reads
<1>6. r = IF e.pos < q.start THEN [q EXCEPT !.ctl = IF q.ctl < e.n THEN e.n ELSE q.ctl, !.i = q.i + 1]
          ELSE IF e.pos > q.from THEN [q EXCEPT !.i = Stop]
          ELSE IF e.n <= q.ctl THEN [q EXCEPT !.i = q.i + 1]
          ELSE [q EXCEPT !.ctl = e.n, !.events = Append(q.events, e), !.i = q.i + 1]
  BY <1>1, <1>2, <1>3 DEF ReadCtl
<1>7. ReadingAt(r)
  <2>1. CASE e.pos < q.start
    <3>1. PICK n : n = IF q.ctl < e.n THEN e.n ELSE q.ctl
      OBVIOUS
    <3>2. r = [q EXCEPT !.ctl = n, !.i = q.i + 1]
      BY <1>6, <2>1, <3>1
    <3>3. /\ r.i = q.i + 1 /\ r.by = q.by /\ r.start = q.start /\ r.from = q.from /\ r.ctl = n
          /\ r.remaining = q.remaining /\ r.gap = q.gap /\ r.events = q.events
      BY <3>2, SeenFields
    <3>4. \/ r.ctl = q.ctl /\ e.n <= q.ctl
          \/ q.ctl < e.n /\ r.ctl = e.n
      BY <1>4, <1>5, <3>1, <3>3
    <3> QED
      BY <1>0, <1>1, <1>3, <1>4, <2>1, <3>3, <3>4, PassEntry
  <2>2. CASE ~(e.pos < q.start) /\ e.n <= q.ctl
    <3>1. r = [q EXCEPT !.i = q.i + 1]
      BY <1>4, <1>5, <1>6, <2>2
    <3>2. /\ r.i = q.i + 1 /\ r.by = q.by /\ r.start = q.start /\ r.from = q.from /\ r.ctl = q.ctl
          /\ r.remaining = q.remaining /\ r.gap = q.gap /\ r.events = q.events
      BY <3>1, MovedFields
    <3> QED
      BY <1>0, <1>1, <1>3, <1>4, <2>2, <3>2, PassEntry
  <2>3. CASE ~(e.pos < q.start) /\ ~(e.n <= q.ctl)
    <3>1. r = [q EXCEPT !.ctl = e.n, !.events = Append(q.events, e), !.i = q.i + 1]
      BY <1>4, <1>5, <1>6, <2>3
    <3>2. /\ r.i = q.i + 1 /\ r.by = q.by /\ r.start = q.start /\ r.from = q.from /\ r.ctl = e.n
          /\ r.gap = q.gap /\ r.events = Append(q.events, e)
      BY <3>1, GivenFields
    <3>3. q.start <= e.pos /\ q.ctl < e.n
      BY <1>4, <1>5, <2>3
    <3> QED
      BY <1>0, <1>1, <1>3, <1>4, <3>2, <3>3, GiveCtl
  <2> QED
    BY <2>1, <2>2, <2>3
<1> QED
  BY <1>0, <1>2, <1>7, ReadingNext

\* The loop's chunk branch.
LEMMA ReadChunkReading ==
    ASSUME IInv, Placed, Reading, ReadChunk
    PROVE  Reading'
<1>0. /\ phase = "read" /\ rd.i <= Len(entries) /\ entries[rd.i].kind = "out" /\ phase' = "read"
      /\ UNCHANGED <<ringVars, cursor>> /\ TypeOK' /\ TypeOK
  BY ReadChunkIInv DEF ReadChunk, IInv
<1>1. PICK q \in Reads : q = rd /\ ReadingAt(q)
  BY <1>0 DEF IInv, TypeOK, Reading
<1>2. PICK r \in Reads : r = rd'
  BY <1>0 DEF TypeOK
<1>3. PICK e \in Entry : e = entries[q.i]
  BY <1>0, <1>1, LoopEntry
<1>4. /\ e.kind = "out" /\ e.pos \in Nat /\ e.n \in Nat \ {0} /\ EntryEnd(e) = e.pos + e.n
      /\ e.pos <= q.from /\ q.i <= Len(entries)
  BY <1>0, <1>1, <1>3, LoopEntry DEF Entry, EntryEnd
<1>5. q.from \in Nat /\ q.start \in Nat /\ q.ctl \in Nat /\ q.remaining \in Nat /\ Len(entries) \in Nat
  BY <1>0, EntriesFacts DEF Reads
<1>6. PICK t : t = Lesser(e.n - (q.from - e.pos), q.remaining)
  OBVIOUS
<1>7. r = IF EntryEnd(e) <= q.from THEN [q EXCEPT !.i = q.i + 1]
          ELSE IF q.remaining = 0 THEN [q EXCEPT !.i = Stop]
          ELSE [q EXCEPT !.from = q.from + t, !.remaining = q.remaining - t,
                         !.events = Append(q.events, Out(q.from, t)),
                         !.i = IF t < e.n - (q.from - e.pos) THEN Stop ELSE q.i + 1]
  BY <1>1, <1>2, <1>3, <1>6 DEF ReadChunk
<1>8. ReadingAt(r)
  <2>1. CASE EntryEnd(e) <= q.from
    <3>1. r = [q EXCEPT !.i = q.i + 1]
      BY <1>7, <2>1
    <3>2. /\ r.i = q.i + 1 /\ r.by = q.by /\ r.start = q.start /\ r.from = q.from /\ r.ctl = q.ctl
          /\ r.remaining = q.remaining /\ r.gap = q.gap /\ r.events = q.events
      BY <3>1, MovedFields
    <3> QED
      BY <1>0, <1>1, <1>3, <1>4, <2>1, <3>2, PassEntry
  <2>2. CASE ~(EntryEnd(e) <= q.from) /\ q.remaining = 0
    <3>1. r = [q EXCEPT !.i = Len(entries) + 1]
      BY <1>7, <2>2 DEF Stop
    <3>2. /\ r.i = Len(entries) + 1 /\ r.by = q.by /\ r.start = q.start /\ r.from = q.from /\ r.ctl = q.ctl
          /\ r.gap = q.gap /\ r.events = q.events
      BY <3>1, MovedFields
    <3>3. Upto(q) # From(q)
      BY <1>1, <1>5, <2>2 DEF ReadingAt, NothingSkipped
    <3> QED
      BY <1>1, <1>5, <3>2, <3>3, StopReading
  <2>3. CASE ~(EntryEnd(e) <= q.from) /\ ~(q.remaining = 0)
    <3>1. PICK k : k = IF t < e.n - (q.from - e.pos) THEN Stop ELSE q.i + 1
      OBVIOUS
    <3>2. r = [q EXCEPT !.from = q.from + t, !.remaining = q.remaining - t,
                        !.events = Append(q.events, Out(q.from, t)), !.i = k]
      BY <1>7, <2>3, <3>1
    <3>3. /\ r.i = k /\ r.by = q.by /\ r.start = q.start /\ r.from = q.from + t /\ r.ctl = q.ctl
          /\ r.gap = q.gap /\ r.events = Append(q.events, Out(q.from, t))
      BY <3>2, TakenFields
    <3>4. t \in Nat \ {0} /\ t <= e.n - (q.from - e.pos)
      BY <1>4, <1>5, <1>6, <2>3, PartOfChunk
    <3>5. q.from + t <= EntryEnd(e) /\ (~(t < e.n - (q.from - e.pos)) => q.from + t = EntryEnd(e))
      BY <1>4, <1>5, <3>4
    <3>6. r.i = Len(entries) + 1 \/ (r.i = q.i + 1 /\ r.from = EntryEnd(e))
      BY <3>1, <3>3, <3>5 DEF Stop
    <3> QED
      BY <1>0, <1>1, <1>3, <1>4, <3>3, <3>4, <3>5, <3>6, TakeBytes
  <2> QED
    BY <2>1, <2>2, <2>3
<1> QED
  BY <1>0, <1>2, <1>8, ReadingNext

\* The cursor a read leaves behind agrees with the history.
LEMMA EndReadPlaced ==
    ASSUME IInv, Placed, Reading, EndRead
    PROVE  Placed' /\ AvailableFrom' = AvailableFrom
<1>1. /\ UNCHANGED <<entries, end, nextCtl, ctlAt, lost>> /\ cursor \in [Consumers -> Cursors]
      /\ cursor' = [cursor EXCEPT ![rd.by] = [after |-> rd.from, ctl |-> rd.ctl]]
      /\ rd.ctl > 0 => ctlAt[rd.ctl] <= rd.from
  BY DEF IInv, TypeOK, EndRead, ringVars, Reading, ReadingAt, Located
<1>2. CursorsPlaced'
  <2> SUFFICES ASSUME NEW d \in Consumers, cursor'[d].ctl > 0
               PROVE  ctlAt[cursor'[d].ctl] <= cursor'[d].after
    BY <1>1 DEF CursorsPlaced
  <2>1. CASE d = rd.by
    <3>1. cursor'[d] = [after |-> rd.from, ctl |-> rd.ctl]
      BY <1>1, <2>1
    <3> QED
      BY <1>1, <3>1
  <2>2. CASE d # rd.by
    <3>1. cursor'[d] = cursor[d]
      BY <1>1, <2>2
    <3> QED
      BY <3>1 DEF Placed, CursorsPlaced
  <2> QED
    BY <2>1, <2>2
<1> QED
  BY <1>1, <1>2, PlacedFrame

\* The invariant behind the refinement is inductive.
LEMMA NextPlaced ==
    ASSUME IInv, Placed, Reading, [Next]_vars
    PROVE  Placed' /\ Reading'
<1>1. CASE AppendOutput
  BY <1>1, AppendOutputPlaced DEF AppendOutput, Reading
<1>2. CASE PushControl
  BY <1>2, PushControlPlaced DEF PushControl, Reading
<1>3. CASE EvictOutput
  BY <1>3, EvictOutputPlaced DEF EvictOutput, Reading
<1>4. CASE EvictControl
  BY <1>4, EvictControlPlaced DEF EvictControl, Reading
<1>5. CASE TrimControl
  BY <1>5, TrimControlPlaced DEF TrimControl, Reading
<1>6. ASSUME NEW c \in Consumers, NEW a \in 0..MaxEnd, Reopen(c, a) PROVE Placed' /\ Reading'
  BY <1>6, ReopenPlaced DEF Reopen, Reading
<1>7. CASE EndRead
  BY <1>7, EndReadPlaced DEF EndRead, Reading
<1>8. ASSUME UNCHANGED <<ringVars, cursor>> PROVE Placed'
  <2>1. CursorsPlaced'
    BY <1>8 DEF Placed, CursorsPlaced, ringVars
  <2> QED
    BY <1>8, <2>1, PlacedFrame DEF ringVars
<1>9. ASSUME NEW c \in Consumers, NEW m \in ReadSizes, BeginRead(c, m) PROVE Placed' /\ Reading'
  <2>1. UNCHANGED <<ringVars, cursor>>
    BY <1>9 DEF BeginRead
  <2> QED
    BY <1>8, <1>9, <2>1, BeginReading, ReadingNext
<1>10. CASE ReadChunk
  BY <1>8, <1>10, ReadChunkReading DEF ReadChunk
<1>11. CASE ReadCtl
  BY <1>8, <1>11, ReadCtlReading DEF ReadCtl
<1>12. CASE UNCHANGED <<ringVars, cursor>> /\ phase' # "read"
  BY <1>8, <1>12 DEF Reading
<1>13. CASE UNCHANGED vars
  <2>1. UNCHANGED <<ringVars, cursor>> /\ phase' = phase /\ rd' = rd
    BY <1>13 DEF vars
  <2>2. CASE phase = "read"
    BY <1>8, <2>1, <2>2, ReadingNext DEF Reading
  <2>3. CASE phase # "read"
    BY <1>8, <2>1, <2>3 DEF Reading
  <2> QED
    BY <2>2, <2>3
<1>14. ASSUME \/ \E n \in 1..MaxPush : Push(n)
              \/ TrimDone \/ EvictDone
       PROVE  UNCHANGED <<ringVars, cursor>> /\ phase' # "read"
  BY <1>14 DEF Push, TrimDone, EvictDone
<1> QED
  BY <1>1, <1>2, <1>3, <1>4, <1>5, <1>6, <1>7, <1>9, <1>10, <1>11, <1>12, <1>13, <1>14 DEF Next

-----------------------------------------------------------------------------
(* Every step of the ring is a step of the log, or leaves it as it is.        *)

\* The log's state as the ring shows it.
Ats == [c \in Consumers |-> At(c)]
Got == IF "events" \in DOMAIN out
         THEN [by |-> out.by, gap |-> out.gap, items |-> ItemsOf(out.events)]
         ELSE out

\* They are what the INSTANCE substitutes for the variables of OutputLog.
LEMMA Mapping ==
    /\ Floor = LogIndex(AvailableFrom, lost.id)
    /\ Ats = [c \in Consumers |-> LogIndex(cursor[c].after, cursor[c].ctl)]
    /\ (Floor = LogIndex(AvailableFrom, lost.id))'
    /\ (Ats = [c \in Consumers |-> LogIndex(cursor[c].after, cursor[c].ctl)])'
  BY DEF Floor, Ats, At

\* What a step of the ring must show to leave the log as it is,
LEMMA LogStutters ==
    ASSUME WholeLog' = WholeLog, Floor' = Floor, Ats' = Ats, out' = out
    PROVE  UNCHANGED Log!vars
<1>1. Got' = Got
  BY DEF Got
<1> QED
  BY <1>1, Mapping DEF Log!vars, Got

\* to write,
LEMMA LogWrites ==
    ASSUME Len(WholeLog') > Len(WholeLog), SubSeq(WholeLog', 1, Len(WholeLog)) = WholeLog,
           Floor' = Floor, Ats' = Ats, out' = out
    PROVE  Log!Write
<1>1. Got' = Got
  BY DEF Got
<1> QED
  BY <1>1, Mapping DEF Log!Write, Got

\* to forget,
LEMMA LogForgets ==
    ASSUME Floor' \in (Floor + 1)..Len(WholeLog), WholeLog' = WholeLog, Ats' = Ats, out' = out
    PROVE  Log!Forget
<1>1. Got' = Got
  BY DEF Got
<1> QED
  BY <1>1, Mapping DEF Log!Forget, Got

\* to reposition a reader,
LEMMA LogSeeks ==
    ASSUME WholeLog' = WholeLog, Floor' = Floor, NEW c, NEW k \in 0..Len(WholeLog),
           Ats' = [Ats EXCEPT ![c] = k], out' = NoOut
    PROVE  Log!Seek(c)
<1>1. Got' = Log!Nothing
  BY DEF Got, Log!Nothing, NoOut
<1> QED
  BY <1>1, Mapping DEF Log!Seek, Got

\* to refuse one,
LEMMA LogRefuses ==
    ASSUME WholeLog' = WholeLog, Floor' = Floor, Ats' = Ats, NEW c,
           out' = [by |-> c, error |-> "CursorBeyondEnd"]
    PROVE  Log!Refuse(c)
<1>1. Got' = [by |-> c, error |-> "CursorBeyondEnd"]
  BY DEF Got
<1> QED
  BY <1>1, Mapping DEF Log!Refuse, Got

\* and to answer one.
LEMMA LogReads ==
    ASSUME WholeLog' = WholeLog, Floor' = Floor, NEW c, NEW p, NEW q \in p..Len(WholeLog), NEW g,
           g = (Ats[c] < Floor), p = IF Ats[c] < Floor THEN Floor ELSE Ats[c],
           Ats' = [Ats EXCEPT ![c] = q], NEW ev, ItemsOf(ev) = SubSeq(WholeLog, p + 1, q),
           out' = [by |-> c, gap |-> g, events |-> ev], q = p => q = Len(WholeLog)
    PROVE  Log!Read(c)
<1>1. Got' = [by |-> c, gap |-> g, items |-> ItemsOf(ev)]
  BY DEF Got
<1> QED
  BY <1>1, Mapping DEF Log!Read, Got

\* A control pushed at the end is not passed by anyone yet.
LEMMA PassedAppend ==
    ASSUME NEW s \in Seq(Nat), NEW e \in Nat, NEW a \in Nat, a <= e, NEW c \in Nat
    PROVE  PassedOf(Append(s, e), a, c) = PassedOf(s, a, c)
<1>0. PICK t \in Seq(Nat) : t = Append(s, e)
  BY AppendProperties
<1>1. /\ Len(s) \in Nat /\ Len(t) = Len(s) + 1 /\ t[Len(s) + 1] = e /\ \A i \in 1..Len(s) : t[i] = s[i]
      /\ \A i \in 1..Len(t) : i \in 1..Len(s) \/ i = Len(s) + 1
  BY <1>0
<1>2. PICK p \in Nat : p = PassedOf(s, a, c)
  BY PassedFacts
<1>3. /\ c <= p /\ \A i \in 1..Len(s) : s[i] < a => i <= p
      /\ p = c \/ (p \in 1..Len(s) /\ s[p] < a)
  BY <1>2, PassedFacts
<1>4. ASSUME NEW i \in 1..Len(t), t[i] < a PROVE i <= p
  <2>1. CASE i \in 1..Len(s)
    BY <1>1, <1>3, <1>4, <2>1
  <2>2. CASE i = Len(s) + 1
    BY <1>1, <1>4, <2>2
  <2> QED
    BY <1>1, <2>1, <2>2
<1>5. p = c \/ (p \in 1..Len(t) /\ t[p] < a)
  BY <1>1, <1>3
<1>6. PassedOf(t, a, c) = p
  BY <1>3, <1>4, <1>5, PassedIs
<1> QED
  BY <1>0, <1>2, <1>6

\* The more that is evicted, the more is passed.
LEMMA PassedGrows ==
    ASSUME NEW s \in Seq(Nat), NEW a \in Nat, NEW b \in Nat, a <= b, NEW c \in Nat, NEW d \in Nat, c <= d
    PROVE  PassedOf(s, a, c) <= PassedOf(s, b, d)
<1>1. PICK p \in Nat : p = PassedOf(s, a, c)
  BY PassedFacts
<1>2. p = c \/ (p \in 1..Len(s) /\ s[p] < a)
  BY <1>1, PassedFacts
<1>3. PICK q \in Nat : q = PassedOf(s, b, d)
  BY PassedFacts
<1>4. d <= q /\ \A i \in 1..Len(s) : s[i] < b => i <= q
  BY <1>3, PassedFacts
<1>5. p <= q
  <2>1. CASE p = c
    BY <1>4, <2>1
  <2>2. CASE p \in 1..Len(s) /\ s[p] < a
    <3>1. s[p] \in Nat
      BY <2>2
    <3> QED
      BY <1>4, <2>2, <3>1
  <2> QED
    BY <1>2, <2>1, <2>2
<1> QED
  BY <1>1, <1>3, <1>5

\* The history alone places the cursors.
LEMMA AtsKept ==
    ASSUME UNCHANGED <<ctlAt, cursor>>
    PROVE  Ats' = Ats
  BY DEF Ats, At, LogIndex, Passed

\* So is the floor, by what was lost and the oldest offset kept,
LEMMA FloorKept ==
    ASSUME UNCHANGED <<ctlAt, lost>>, AvailableFrom' = AvailableFrom
    PROVE  Floor' = Floor
<1>1. Passed(AvailableFrom, lost.id)' = Passed(AvailableFrom, lost.id)
  BY DEF Passed
<1> QED
  BY <1>1 DEF Floor, LogIndex

\* and the log by what was pushed.
LEMMA LogKept ==
    ASSUME UNCHANGED <<ctlAt, end>>
    PROVE  WholeLog' = WholeLog
  BY DEF WholeLog

\* The log has an item for each byte and each control pushed.
LEMMA LogLength ==
    ASSUME IInv, Placed
    PROVE  Len(WholeLog) = end + Len(ctlAt)
<1>1. ctlAt \in Seq(Nat) /\ end \in Nat
  BY PlacedFacts
<1> QED
  BY <1>1, LogTyped, WholeLogIsOf

\* The log of the next state.
LEMMA WholeLogIsOfNext == WholeLog' = LogOf(ctlAt', end')
  BY DEF WholeLog, LogOf

\* Bytes are written.
LEMMA AppendOutputWrites ==
    ASSUME IInv, Placed, AppendOutput
    PROVE  Log!Write
<1>1. UNCHANGED <<ctlAt, lost, cursor, out>> /\ AvailableFrom' = AvailableFrom
  BY AvailAppendOutput DEF AppendOutput
<1>2. Floor' = Floor /\ Ats' = Ats
  BY <1>1, FloorKept, AtsKept
<1>3. PICK s \in Seq(Nat) : s = ctlAt
  BY PlacedFacts
<1>4. PICK e \in Nat : e = end
  BY PlacedFacts
<1>5. PICK f \in Nat : f = end' /\ e < f
  <2> DEFINE L == Len(entries)
             room == IF HasRoom THEN PieceMax - entries[L].n ELSE PieceMax
             take == Lesser(rest, room)
  <2>1. TypeOK /\ phase = "append"
    BY DEF IInv, AppendOutput
  <2>2. room \in Nat \ {0}
    <3>1. CASE HasRoom
      <4>1. entries[L] \in Entry
        BY <2>1, <3>1 DEF TypeOK, HasRoom
      <4> QED
        BY <2>1, <3>1, <4>1, PieceMaxFacts DEF HasRoom, Entry
    <3> QED
      BY <2>1, <3>1, PieceMaxFacts
  <2>3. rest \in Nat \ {0}
    BY <2>1 DEF TypeOK
  <2>4. take \in Nat \ {0}
    BY <2>2, <2>3 DEF Lesser
  <2>5. end' = end + take
    BY DEF AppendOutput
  <2> HIDE DEF take
  <2>6. end' \in Nat /\ e < end'
    BY <1>4, <2>4, <2>5
  <2> QED
    BY <2>6
<1>6. /\ e <= f /\ Len(s) \in Nat /\ Len(s) <= Len(s) /\ \A i \in 1..Len(s) : s[i] = s[i]
      /\ \A i \in (Len(s) + 1)..Len(s) : s[i] >= e
  BY <1>5
<1>7. SubSeq(LogOf(s, f), 1, Len(LogOf(s, e))) = LogOf(s, e)
  BY <1>6, LogLonger
<1>8. Len(LogOf(s, f)) > Len(LogOf(s, e))
  <2>1. Len(LogOf(s, f)) = f + Len(s) /\ Len(LogOf(s, e)) = e + Len(s)
    BY LogTyped
  <2> QED
    BY <1>5, <1>6, <2>1
<1>9. WholeLog = LogOf(s, e) /\ WholeLog' = LogOf(s, f)
  BY <1>1, <1>3, <1>4, <1>5, WholeLogIsOf, WholeLogIsOfNext
<1> QED
  BY <1>1, <1>2, <1>7, <1>8, <1>9, LogWrites

\* A control is written.
LEMMA PushControlWrites ==
    ASSUME IInv, Placed, PushControl
    PROVE  Log!Write
<1>1. UNCHANGED <<end, lost, cursor, out>> /\ AvailableFrom' = AvailableFrom /\ ctlAt' = Append(ctlAt, end)
  BY AvailPushControl DEF PushControl
<1>2. PICK s \in Seq(Nat) : s = ctlAt
  BY PlacedFacts
<1>3. PICK e \in Nat : e = end
  BY PlacedFacts
<1>4. PICK t \in Seq(Nat) : t = Append(s, e)
  BY AppendProperties
<1>5. /\ Len(s) \in Nat /\ Len(t) = Len(s) + 1 /\ t[Len(s) + 1] = e /\ \A i \in 1..Len(s) : t[i] = s[i]
  BY <1>4
<1>6. ctlAt' = t
  BY <1>1, <1>2, <1>3, <1>4
<1>7. \A a \in Nat, c \in Nat : a <= e => PassedOf(t, a, c) = PassedOf(s, a, c)
  BY <1>4, PassedAppend
<1>9. Floor' = Floor
  <2>1. AvailableFrom \in Nat /\ AvailableFrom <= e /\ lost.id \in Nat
    BY <1>3, PlacedFacts
  <2>2. Passed(AvailableFrom, lost.id)' = PassedOf(t, AvailableFrom, lost.id)
    BY <1>1, <1>6 DEF Passed, PassedOf
  <2>3. Passed(AvailableFrom, lost.id) = PassedOf(s, AvailableFrom, lost.id)
    BY <1>2, PassedIsOf
  <2> QED
    BY <1>1, <1>7, <2>1, <2>2, <2>3 DEF Floor, LogIndex
<1>10. Ats' = Ats
  <2>1. ASSUME NEW c \in Consumers PROVE At(c)' = At(c)
    <3>1. cursor[c].after \in Nat /\ cursor[c].ctl \in Nat /\ cursor[c].after <= e
      BY <1>3, PlacedFacts
    <3>2. Passed(cursor[c].after, cursor[c].ctl)' = PassedOf(t, cursor[c].after, cursor[c].ctl)
      BY <1>1, <1>6 DEF Passed, PassedOf
    <3>3. Passed(cursor[c].after, cursor[c].ctl) = PassedOf(s, cursor[c].after, cursor[c].ctl)
      BY <1>2, PassedIsOf
    <3> QED
      BY <1>1, <1>7, <3>1, <3>2, <3>3 DEF At, LogIndex
  <2> QED
    BY <2>1 DEF Ats
<1>11. /\ e <= e /\ Len(s) \in Nat /\ Len(s) <= Len(t) /\ \A i \in 1..Len(s) : t[i] = s[i]
       /\ \A i \in (Len(s) + 1)..Len(t) : t[i] >= e
  BY <1>5
<1>12. SubSeq(LogOf(t, e), 1, Len(LogOf(s, e))) = LogOf(s, e)
  BY <1>11, LogLonger
<1>13. Len(LogOf(t, e)) > Len(LogOf(s, e))
  <2>1. Len(LogOf(t, e)) = e + Len(t) /\ Len(LogOf(s, e)) = e + Len(s)
    BY LogTyped
  <2> QED
    BY <1>5, <2>1
<1>14. WholeLog = LogOf(s, e) /\ WholeLog' = LogOf(t, e)
  BY <1>1, <1>2, <1>3, <1>6, WholeLogIsOf, WholeLogIsOfNext
<1> QED
  BY <1>1, <1>9, <1>10, <1>12, <1>13, <1>14, LogWrites

\* A floor that moves up is a step of forgetting.
LEMMA EvictForgets ==
    ASSUME IInv, Placed, UNCHANGED <<ctlAt, end, cursor, out>>, CtlsPlaced', LostPlaced',
           AvailableFrom' \in Nat, AvailableFrom <= AvailableFrom', AvailableFrom' <= end,
           lost'.id \in 0..Len(ctlAt), lost.id <= lost'.id
    PROVE  Log!Forget \/ UNCHANGED Log!vars
<1>1. PICK s \in Seq(Nat) : s = ctlAt /\ Sorted(s)
  BY PlacedFacts DEF Placed, CtlsPlaced
<1>2. PICK a \in Nat : a = AvailableFrom
  BY PlacedFacts
<1>3. PICK b \in Nat : b = AvailableFrom'
  OBVIOUS
<1>4. PICK c \in 0..Len(s) : c = lost.id
  BY <1>1, PlacedFacts
<1>5. PICK d \in 0..Len(s) : d = lost'.id
  BY <1>1
<1>6. Floor = a + PassedOf(s, a, c) /\ Floor \in Nat
  BY <1>1, <1>2, <1>4, PlacesFacts
<1>7. Floor' = b + PassedOf(s, b, d)
  BY <1>1, <1>3, <1>5 DEF Floor, LogIndex, Passed, PassedOf
<1>8. d > 0 => s[d] <= b
  BY <1>1, <1>3, <1>5 DEF LostPlaced
<1>9. PassedOf(s, b, d) \in 0..Len(s)
  BY <1>1, <1>8, PassedSplit
<1>10. PassedOf(s, a, c) <= PassedOf(s, b, d) /\ PassedOf(s, a, c) \in Nat
  <2>1. a <= b /\ c \in Nat /\ d \in Nat /\ c <= d
    BY <1>2, <1>3, <1>4, <1>5
  <2> QED
    BY <2>1, PassedGrows, PassedFacts
<1>11. Len(WholeLog) = end + Len(s) /\ end \in Nat /\ Len(s) \in Nat
  BY <1>1, LogLength, PlacedFacts
<1>12. Floor' \in Nat /\ Floor <= Floor' /\ Floor' <= Len(WholeLog)
  <2>1. PICK m \in Nat : m = PassedOf(s, a, c)
    BY <1>10
  <2>2. PICK n \in 0..Len(s) : n = PassedOf(s, b, d)
    BY <1>9
  <2>3. a <= b /\ b <= end /\ m <= n /\ Floor = a + m /\ Floor' = b + n
    BY <1>2, <1>3, <1>6, <1>7, <1>10, <2>1, <2>2
  <2> QED
    BY <1>11, <2>3
<1>13. WholeLog' = WholeLog /\ Ats' = Ats
  BY LogKept, AtsKept
<1>14. CASE Floor' = Floor
  BY <1>13, <1>14, LogStutters
<1>15. CASE Floor' # Floor
  <2>1. Floor' \in (Floor + 1)..Len(WholeLog)
    BY <1>6, <1>11, <1>12, <1>15
  <2> QED
    BY <1>13, <2>1, LogForgets
<1> QED
  BY <1>14, <1>15

\* The oldest offset kept is within the stream.
LEMMA AvailBound ==
    ASSUME NEW s \in Seq(Entry), NEW e \in Nat, \A i \in 1..Len(s) : EntryEnd(s[i]) <= e
    PROVE  AvailOf(s, e) \in Nat /\ AvailOf(s, e) <= e
<1>1. CASE \A k \in 1..Len(s) : s[k].kind # "out"
  BY <1>1, AvailNone
<1>2. CASE \E j \in 1..Len(s) : s[j].kind = "out" /\ \A k \in 1..(j - 1) : s[k].kind # "out"
  <2>1. PICK j \in 1..Len(s) : s[j].kind = "out" /\ \A k \in 1..(j - 1) : s[k].kind # "out"
    BY <1>2
  <2>2. AvailOf(s, e) = s[j].pos
    BY <2>1, AvailFirst
  <2>3. s[j] \in Entry
    OBVIOUS
  <2>4. s[j].pos \in Nat /\ s[j].pos <= EntryEnd(s[j]) /\ EntryEnd(s[j]) \in Nat /\ EntryEnd(s[j]) <= e
    <3>1. s[j].pos \in Nat
      BY <2>3 DEF Entry
    <3> QED
      BY <2>3, <3>1, EntryEndFacts
  <2> QED
    BY <2>2, <2>4
<1> QED
  BY <1>1, <1>2, AvailCases

\* Evicting a chunk forgets its bytes and the controls before it.
LEMMA EvictOutputForgets ==
    ASSUME IInv, Placed, EvictOutput
    PROVE  Log!Forget \/ UNCHANGED Log!vars
<1>1. IInv' /\ Placed' /\ UNCHANGED <<ctlAt, end, cursor, out, lost>>
  BY EvictOutputIInv, EvictOutputPlaced DEF EvictOutput
<1>2. TypeOK' /\ Ordered' /\ CtlsPlaced' /\ LostPlaced'
  BY <1>1 DEF IInv, RingShape, Placed
<1>3. entries' \in Seq(Entry) /\ end' \in Nat /\ \A i \in 1..Len(entries') : EntryEnd(entries'[i]) <= end'
  <2>1. entries' \in Seq(Entry) /\ end' \in Nat
    BY <1>2 DEF TypeOK
  <2> QED
    BY <1>2, <2>1 DEF Ordered, EntryEnd
<1>4. AvailableFrom' \in Nat /\ AvailableFrom' <= end
  <2>1. AvailOf(entries', end') \in Nat /\ AvailOf(entries', end') <= end'
    BY <1>3, AvailBound
  <2> QED
    BY <1>1, <2>1, AvailIsOfNext
<1>5. AvailableFrom <= AvailableFrom' /\ lost'.id \in 0..Len(ctlAt) /\ lost.id <= lost'.id
  BY <1>1, <1>4, AvailEvictOutput, PlacedFacts
<1> QED
  BY <1>1, <1>2, <1>4, <1>5, EvictForgets

\* Force-evicting a control forgets it.
LEMMA EvictControlForgets ==
    ASSUME IInv, Placed, EvictControl
    PROVE  Log!Forget \/ UNCHANGED Log!vars
<1>1. /\ IInv' /\ Placed' /\ UNCHANGED <<ctlAt, end, cursor, out, nextCtl>>
      /\ lost.id < lost'.id /\ AvailableFrom' = AvailableFrom
  BY EvictControlIInv, EvictControlPlaced DEF EvictControl
<1>2. CtlsPlaced' /\ LostPlaced' /\ lost'.id \in Nat /\ lost'.id < nextCtl
  BY <1>1 DEF IInv, TypeOK, CursorsValid, Placed
<1>3. /\ AvailableFrom \in Nat /\ AvailableFrom <= end /\ lost.id \in Nat
      /\ Len(ctlAt) = nextCtl - 1 /\ Len(ctlAt) \in Nat /\ nextCtl \in Nat
  BY PlacedFacts
<1>4. lost'.id \in 0..Len(ctlAt) /\ lost.id <= lost'.id /\ AvailableFrom <= AvailableFrom'
  BY <1>1, <1>2, <1>3
<1> QED
  BY <1>1, <1>2, <1>3, <1>4, EvictForgets

\* A cursor made from an offset is somewhere in the log.
LEMMA ReopenSeeks ==
    ASSUME IInv, Placed, NEW c \in Consumers, NEW a \in 0..MaxEnd, Reopen(c, a)
    PROVE  Log!Seek(c) \/ Log!Refuse(c)
<1>1. /\ UNCHANGED <<entries, end, nextCtl, ctlAt, lost>> /\ AvailableFrom' = AvailableFrom
      /\ cursor \in [Consumers -> Cursors] /\ end \in Nat /\ a \in Nat
  <2>1. UNCHANGED <<entries, end, nextCtl, ctlAt, lost>>
    BY DEF Reopen, ringVars
  <2>2. AvailableFrom' = AvailableFrom
    BY ReopenPlaced
  <2>3. cursor \in [Consumers -> Cursors] /\ end \in Nat
    BY DEF IInv, TypeOK
  <2>4. a \in Nat
    BY RingConstants
  <2> QED
    BY <2>1, <2>2, <2>3, <2>4
<1>2. WholeLog' = WholeLog /\ Floor' = Floor
  BY <1>1, LogKept, FloorKept
<1>3. CASE a > end
  <2>1. cursor' = [cursor EXCEPT ![c] = cursor[c]] /\ out' = [by |-> c, error |-> "CursorBeyondEnd"]
    BY <1>3 DEF Reopen
  <2>2. cursor' = cursor
    BY <1>1, <2>1
  <2>3. Ats' = Ats
    BY <1>1, <2>2, AtsKept
  <2> QED
    BY <1>2, <2>1, <2>3, LogRefuses
<1>4. CASE ~(a > end)
  <2>1. cursor' = [cursor EXCEPT ![c] = FromOffset(a)] /\ out' = NoOut
    BY <1>4 DEF Reopen
  <2>2. PICK k : k = LogIndex(a, 0)
    OBVIOUS
  <2>3. k \in 0..Len(WholeLog)
    <3>1. ctlAt \in Seq(Nat) /\ Sorted(ctlAt) /\ Len(ctlAt) \in Nat
      BY PlacedFacts DEF Placed, CtlsPlaced
    <3>2. 0 \in 0..Len(ctlAt) /\ ~(0 > 0)
      BY <3>1
    <3>3. PassedOf(ctlAt, a, 0) \in 0..Len(ctlAt)
      BY <1>1, <3>1, <3>2, PassedSplit
    <3>4. k = a + PassedOf(ctlAt, a, 0)
      BY <2>2, PassedIsOf DEF LogIndex
    <3>5. Len(WholeLog) = end + Len(ctlAt)
      BY LogLength
    <3> QED
      BY <1>1, <1>4, <3>1, <3>3, <3>4, <3>5
  <2>4. Ats' = [Ats EXCEPT ![c] = k]
    <3>1. ASSUME NEW d \in Consumers PROVE At(d)' = IF d = c THEN k ELSE At(d)
      <4>1. CASE d = c
        <5>1. cursor'[d].after = a /\ cursor'[d].ctl = 0
          BY <1>1, <2>1, <4>1 DEF FromOffset
        <5> QED
          BY <1>1, <2>2, <4>1, <5>1 DEF At, LogIndex, Passed
      <4>2. CASE d # c
        <5>1. cursor'[d] = cursor[d]
          BY <1>1, <2>1, <4>2
        <5> QED
          BY <1>1, <4>2, <5>1 DEF At, LogIndex, Passed
      <4> QED
        BY <4>1, <4>2
    <3> QED
      BY <3>1 DEF Ats
  <2> QED
    BY <1>2, <2>1, <2>3, <2>4, LogSeeks
<1> QED
  BY <1>3, <1>4

\* A read that ends empty-handed is up to date.
LEMMA EmptyIsUpToDate ==
    ASSUME IInv, Placed, phase = "read", NEW q, q = rd, ReadingAt(q), q.i > Len(entries),
           Upto(q) = From(q)
    PROVE  Upto(q) = end + Len(ctlAt)
<1>1. Behind(q)
  BY DEF ReadingAt, NothingSkipped
<1>2. /\ q.from \in Nat /\ q.from <= end /\ AvailableFrom <= q.from /\ q.i \in Nat
      /\ PassedOf(ctlAt, q.from, q.ctl) \in 0..Len(ctlAt)
      /\ Upto(q) = q.from + PassedOf(ctlAt, q.from, q.ctl)
  BY ReadingFacts
<1>3. /\ end \in Nat /\ Len(ctlAt) \in Nat /\ entries \in Seq(Entry) /\ Len(entries) \in Nat
      /\ DOMAIN entries = 1..Len(entries) /\ Contiguous
  BY PlacedFacts DEF IInv, TypeOK, RingShape
<1>4. q.from = end
  <2>1. CASE entries = <<>>
    <3>1. Len(entries) = 0 /\ Outputs = {}
      BY <1>3, <2>1 DEF Outputs
    <3>2. AvailableFrom = end
      BY <3>1 DEF AvailableFrom
    <3> QED
      BY <1>2, <1>3, <3>2
  <2>2. CASE entries # <<>>
    <3>1. Len(entries) \in 1..Len(entries) /\ Len(entries) < q.i
      BY <1>2, <1>3, <2>2
    <3>2. EntryEnd(entries[Len(entries)]) = end
      BY <1>3, <2>2 DEF Contiguous
    <3>3. EntryEnd(entries[Len(entries)]) <= q.from
      BY <1>1, <3>1 DEF Behind
    <3> QED
      BY <1>2, <1>3, <3>2, <3>3
  <2> QED
    BY <2>1, <2>2
<1>5. PICK p \in 0..Len(ctlAt) : p = PassedOf(ctlAt, q.from, q.ctl)
  BY <1>2
<1>6. p = Len(ctlAt)
  <2> SUFFICES ASSUME p # Len(ctlAt) PROVE FALSE
    OBVIOUS
  <2>1. PICK i \in 1..Len(ctlAt) : p < i
    BY <1>3, <1>5
  <2>2. PICK k \in 1..Len(entries) : q.i <= k
    BY <1>1, <1>5, <2>1, AheadIsKept
  <2> QED
    BY <1>2, <1>3, <2>2
<1> QED
  BY <1>2, <1>3, <1>4, <1>5, <1>6

\* The answer of a read, and where it leaves the cursor.
LEMMA EndReadReads ==
    ASSUME IInv, Placed, Reading, EndRead
    PROVE  \E c \in Consumers : Log!Read(c)
<1>1. /\ phase = "read" /\ rd.i > Len(entries) /\ UNCHANGED <<entries, end, nextCtl, ctlAt, lost>>
      /\ cursor' = [cursor EXCEPT ![rd.by] = [after |-> rd.from, ctl |-> rd.ctl]]
      /\ out' = [by |-> rd.by, gap |-> rd.gap, events |-> rd.events]
  BY DEF EndRead, ringVars
<1>2. PICK r \in Reads : r = rd /\ ReadingAt(r)
  BY <1>1 DEF IInv, TypeOK, Reading
<1>3. PICK c \in Consumers : c = r.by
  BY <1>1, <1>2, ReadingFacts
<1>4. WholeLog' = WholeLog /\ Floor' = Floor
  BY <1>1, EndReadPlaced, LogKept, FloorKept
<1>5. /\ Floor \in Nat /\ At(c) \in Nat /\ Floor <= end + Len(ctlAt) /\ At(c) <= end + Len(ctlAt)
      /\ Ats[c] = At(c)
  BY PlacesFacts DEF Ats
<1>6. PICK p \in Nat : p = From(r)
  BY <1>3, <1>5 DEF From
<1>7. /\ Upto(r) = r.from + PassedOf(ctlAt, r.from, r.ctl) /\ r.from \in Nat /\ r.from <= end
      /\ PassedOf(ctlAt, r.from, r.ctl) \in 0..Len(ctlAt)
  BY <1>1, <1>2, ReadingFacts
<1>8. PICK n \in Nat : n = Len(WholeLog) /\ n = end + Len(ctlAt)
  BY LogLength, PlacedFacts
<1>9. PICK q \in Nat : q = Upto(r) /\ p <= q /\ q <= n
  <2>1. From(r) <= Upto(r)
    BY <1>2 DEF ReadingAt, Delivered
  <2>2. Upto(r) \in Nat /\ Upto(r) <= n
    BY <1>7, <1>8, PlacedFacts
  <2> QED
    BY <1>6, <2>1, <2>2
<1>10. q \in p..Len(WholeLog)
  BY <1>8, <1>9
<1>11. p = IF Ats[c] < Floor THEN Floor ELSE Ats[c]
  BY <1>3, <1>5, <1>6 DEF From
<1>12. r.gap = (Ats[c] < Floor)
  BY <1>2, <1>3, <1>5, Zenon DEF ReadingAt, Delivered
<1>13. ItemsOf(r.events) = SubSeq(WholeLog, p + 1, q)
  BY <1>2, <1>6, <1>9 DEF ReadingAt, Delivered
<1>14. q = p => q = Len(WholeLog)
  BY <1>1, <1>2, <1>6, <1>8, <1>9, EmptyIsUpToDate
<1>15. Ats' = [Ats EXCEPT ![c] = q]
  <2>0. ctlAt' = ctlAt
    BY <1>1
  <2>1. cursor \in [Consumers -> Cursors]
    BY DEF IInv, TypeOK
  <2>2. ASSUME NEW d \in Consumers PROVE At(d)' = IF d = c THEN q ELSE At(d)
    <3>1. CASE d = c
      <4>1. cursor'[d].after = r.from /\ cursor'[d].ctl = r.ctl
        BY <1>1, <1>2, <1>3, <2>1, <3>1
      <4>2. At(d)' = LogIndex(r.from, r.ctl)
        BY <2>0, <4>1 DEF At, LogIndex, Passed
      <4> QED
        BY <1>9, <3>1, <4>2 DEF Upto
    <3>2. CASE d # c
      <4>1. cursor'[d] = cursor[d]
        BY <1>1, <1>2, <1>3, <2>1, <3>2
      <4>2. At(d)' = At(d)
        BY <2>0, <4>1 DEF At, LogIndex, Passed
      <4> QED
        BY <3>2, <4>2
    <3> QED
      BY <3>1, <3>2
  <2> QED
    BY <2>2 DEF Ats
<1>16. out' = [by |-> c, gap |-> r.gap, events |-> r.events]
  BY <1>1, <1>2, <1>3
<1>17. Log!Read(c)
  <2>1. PICK g : g = r.gap
    OBVIOUS
  <2>2. PICK ev : ev = r.events
    OBVIOUS
  <2>3. out' = [by |-> c, gap |-> g, events |-> ev] /\ ItemsOf(ev) = SubSeq(WholeLog, p + 1, q)
    BY <1>13, <1>16, <2>1, <2>2
  <2>4. g = (Ats[c] < Floor)
    BY <1>12, <2>1, Zenon
  <2> QED
    BY <1>4, <1>10, <1>11, <1>14, <1>15, <2>3, <2>4, LogReads
<1> QED
  BY <1>17

\* A step that moves neither the ring nor a cursor is no step of the log.
LEMMA RingIdle ==
    ASSUME UNCHANGED <<ringVars, cursor, out>>
    PROVE  UNCHANGED Log!vars
<1>1. UNCHANGED <<entries, end, ctlAt, lost, cursor, out>>
  BY DEF ringVars
<1>2. AvailableFrom' = AvailableFrom
  BY <1>1 DEF AvailableFrom, Outputs
<1> QED
  BY <1>1, <1>2, FloorKept, AtsKept, LogKept, LogStutters

\* A control behind the oldest offset kept was passed by everyone already.
LEMMA TrimControlForgetsNothing ==
    ASSUME IInv, TrimControl
    PROVE  UNCHANGED Log!vars
<1>1. /\ entries \in Seq(Entry) /\ entries # <<>> /\ entries[1].kind = "ctl" /\ entries' = Tail(entries)
      /\ UNCHANGED <<end, ctlAt, cursor, lost, out>>
  BY DEF IInv, TypeOK, TrimControl, StaleFront
<1>2. AvailableFrom' = AvailableFrom
  BY <1>1, AvailDropFront
<1> QED
  BY <1>1, <1>2, FloorKept, AtsKept, LogKept, LogStutters

\* Every step of the ring, under the invariant.
LEMMA StepsOfLog ==
    ASSUME IInv, Placed, Reading, [Next]_vars
    PROVE  [Log!Next]_(Log!vars)
<1>1. CASE AppendOutput
  BY <1>1, AppendOutputWrites DEF Log!Next
<1>2. CASE PushControl
  BY <1>2, PushControlWrites DEF Log!Next
<1>3. CASE EvictOutput
  BY <1>3, EvictOutputForgets DEF Log!Next
<1>4. CASE EvictControl
  BY <1>4, EvictControlForgets DEF Log!Next
<1>5. CASE TrimControl
  BY <1>5, TrimControlForgetsNothing
<1>6. CASE \E c \in Consumers, a \in 0..MaxEnd : Reopen(c, a)
  BY <1>6, ReopenSeeks DEF Log!Next
<1>7. CASE EndRead
  BY <1>7, EndReadReads DEF Log!Next
<1>8. CASE UNCHANGED <<ringVars, cursor, out>>
  BY <1>8, RingIdle
<1>9. ASSUME \/ \E n \in 1..MaxPush : Push(n)
             \/ TrimDone \/ EvictDone \/ ReadChunk \/ ReadCtl
             \/ \E c \in Consumers, m \in ReadSizes : BeginRead(c, m)
      PROVE  UNCHANGED <<ringVars, cursor, out>>
  BY <1>9 DEF Push, TrimDone, EvictDone, ReadChunk, ReadCtl, BeginRead
<1>10. UNCHANGED vars => UNCHANGED <<ringVars, cursor, out>>
  BY DEF vars
<1> QED
  BY <1>1, <1>2, <1>3, <1>4, <1>5, <1>6, <1>7, <1>8, <1>9, <1>10 DEF Next

\* The empty ring is the empty log.
LEMMA InitIsLog ==
    ASSUME Init
    PROVE  Log!Init /\ Reading
<1>1. /\ ctlAt = <<>> /\ Len(ctlAt) = 0 /\ end = 0 /\ entries = <<>> /\ lost = NoLoss
      /\ cursor = [c \in Consumers |-> FromOffset(0)] /\ out = NoOut /\ phase = "free"
  BY DEF Init
<1>2. WholeLog = <<>>
  <2>1. ctlAt \in Seq(Nat) /\ end \in Nat
    BY <1>1, EmptySeq
  <2>2. WholeLog \in Seq(LogItem) /\ Len(WholeLog) = end + Len(ctlAt)
    BY <2>1, LogTyped, WholeLogIsOf
  <2>3. Len(WholeLog) = 0
    BY <1>1, <2>2
  <2> QED
    BY <2>2, <2>3, EmptySeq
<1>3. Passed(0, 0) = 0
  <2>1. PICK s \in Seq(Nat) : s = ctlAt /\ Len(s) = 0
    BY <1>1, EmptySeq
  <2>2. /\ 0 \in Nat /\ 0 <= 0 /\ \A i \in 1..Len(s) : s[i] < 0 => i <= 0
    BY <2>1
  <2>3. PassedOf(s, 0, 0) = 0
    BY <2>2, PassedIs
  <2> QED
    BY <2>1, <2>3, PassedIsOf
<1>4. Floor = 0
  <2>1. AvailableFrom = 0
    BY <1>1 DEF AvailableFrom, Outputs
  <2> QED
    BY <1>1, <1>3, <2>1 DEF Floor, LogIndex, NoLoss
<1>5. Ats = [c \in Consumers |-> 0]
  BY <1>1, <1>3 DEF Ats, At, LogIndex, FromOffset
<1>6. Got = Log!Nothing
  BY <1>1 DEF Got, NoOut, Log!Nothing
<1>7. Log!Init
  BY <1>2, <1>4, <1>5, <1>6, Mapping DEF Log!Init, Got
<1> QED
  BY <1>1, <1>7 DEF Reading

\* In every reachable state each entry, each cursor, the record of the last lost
\* control and the read in progress agree with the history of what was pushed:
\* no control that a cursor is still owed has left the ring unrecorded, and what
\* a read has gathered so far is a run of the log (ring.rs `evict' and `read').
THEOREM RingPlaced == Spec => [](Placed /\ Reading)
<1>1. Init => Placed /\ Reading
  BY InitPlaced, InitIsLog
<1>2. IInv /\ (Placed /\ Reading) /\ [Next]_vars => (Placed /\ Reading)'
  BY NextPlaced
<1> QED
  BY <1>1, <1>2, RingInvariant, PTL DEF Spec

\* The ring with its chunks, its budget, its two kinds of eviction and its
\* cursors of two parts implements the plain log of OutputLog: every reader gets
\* every byte and every control once and in order, is told of a gap exactly when
\* something it was owed has been evicted, and gets an empty answer only when it
\* is up to date.
THEOREM RingImplementsLog == Spec => ImplementsLog
<1>1. Init => Log!Init
  BY InitIsLog
<1>2. IInv /\ (Placed /\ Reading) /\ [Next]_vars => [Log!Next]_(Log!vars)
  BY StepsOfLog
<1> QED
  BY <1>1, <1>2, RingInvariant, RingPlaced, PTL DEF Spec, ImplementsLog, Log!Spec
=============================================================================
