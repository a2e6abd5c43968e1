--------------------------- MODULE ReattachProofs ---------------------------
(***************************************************************************)
(* Proofs about the recovery of an attach: typed input across breaks of    *)
(* the path (Reattach), for every number of bytes, legs, attempts and      *)
(* axes, and the watchdog that rules the path dead (PathWatch), for every  *)
(* interval, number of strikes, RTT and delay.  The two share nothing.     *)
(*                                                                         *)
(* The inductive invariant of Reattach says, part by part: which bytes the *)
(* buffer and the frames hold (an offset on an axis is a place in the      *)
(* order of typing, whichever leg it was sent on); that the frames of a    *)
(* leg follow on from what it acked, up to everything typed if it is the   *)
(* leg in use; that the newest axes, and among them those of the leg in    *)
(* use and of the legs tried since, are remembered; that everything up to  *)
(* an offset that was applied or acked was run or refused; that the lease  *)
(* is with the leg that took it last, if with one; and that the child sees *)
(* input in the order of the takings.  The one of PathWatch follows in the *)
(* second part.                                                            *)
(***************************************************************************)
EXTENDS Reattach, PathWatch, FiniteSetTheorems, TLAPS

-----------------------------------------------------------------------------
(* The invariant *)

ClientRec == [at : {"up", "dead", "seeded", "opened", "failed"},
              leg : Legs, new : Legs, from : Nat]
PendingRec == [acked : Nat, sent : Nat, buf : Seq(Nat)]
FrameRec == [data : Seq(Nat), seq : Nat]
RanRec == [leg : Legs, byte : Nat]

Typed ==
    /\ typed \in Nat
    /\ client \in ClientRec
    /\ pending \in PendingRec
    /\ alive \subseteq Legs
    /\ wire \in [Legs -> Seq(FrameRec)]
    /\ copies \in [Legs -> SUBSET FrameRec]
    /\ acks \in [Legs -> Nat]
    /\ DOMAIN applied \subseteq Legs /\ \A l \in DOMAIN applied : applied[l] \in Nat
    /\ nextAxis \in Nat /\ nextAxis = client.new + 1 /\ credAxis = client.new
    /\ lease \in Legs \union {Other, NoOne}
    /\ ran \in Seq(RanRec)
    /\ turn \in [Legs -> Nat] /\ takes \in Nat

\* The bytes from a to b.
Run(a, b) == [i \in 1 .. b - a |-> a + i]

\* The buffer holds what was typed and not released, by its offsets.
Buffered ==
    /\ pending.sent = typed
    /\ pending.acked <= typed
    /\ pending.buf = Run(pending.acked, typed)

\* A frame holds the bytes its offset says, all of the first n.
Faithful(f, n) == \E a \in Nat : a < f.seq /\ f.seq <= n /\ f.data = Run(a, f.seq)

Frames ==
    \A l \in Legs : /\ \A i \in 1 .. Len(wire[l]) : Faithful(wire[l][i], typed)
                    /\ \A f \in copies[l] : Faithful(f, typed)

\* How far a leg's stream gets once its frames are read.
Reach(l) == IF wire[l] = <<>> THEN acks[l] ELSE wire[l][Len(wire[l])].seq

\* Frames follow on from what the leg acked, and from each other; those of the
\* leg in use get to the last byte typed.
Chained ==
    /\ \A l \in Legs :
          /\ wire[l] # <<>> => Start(wire[l][1]) <= acks[l]
          /\ \A i \in 1 .. Len(wire[l]) - 1 : Start(wire[l][i + 1]) <= wire[l][i].seq
    /\ client.leg \in alive => Reach(client.leg) >= typed

\* The legs of the recovery under way: none is used yet, and they are few enough
\* for their axes to be remembered.
Attempts ==
    /\ client.leg <= client.new
    /\ client.at # "failed"
    /\ client.at = "up" => client.leg = client.new
    /\ client.at \in {"seeded", "opened"} => client.leg < client.new
    /\ client.new - client.leg <= MaxAttempts
    /\ client.at = "dead" => client.new - client.leg < MaxAttempts
    /\ \A l \in Legs : l > client.leg => wire[l] = <<>> /\ copies[l] = {}
    /\ \A l \in Legs : l > client.new => acks[l] = 0 /\ l \notin DOMAIN applied /\ l \notin alive

Recent == {l \in Legs : client.leg <= l /\ l <= client.new}

\* The legs whose axes prune_input_axes cannot have dropped.
Kept == {l \in Legs : l <= client.new /\ client.new - l < MaxAxes}

\* The newest axes are remembered, and are ahead of what their legs acked; those
\* a redemption may fork from are ahead of what the client has released.
Axes ==
    /\ \A l \in Kept : l \in DOMAIN applied /\ acks[l] <= applied[l]
    /\ \A l \in Recent : pending.acked <= applied[l]
    /\ \A l \in DOMAIN applied : applied[l] <= typed
    /\ client.at \in {"seeded", "opened"} =>
          /\ pending.acked <= client.from /\ client.from <= applied[client.new]
          /\ acks[client.new] = client.from

\* Every byte up to the offset n was run or refused.
Done(n) == \A b \in 1 .. n : b \in Ran \union refused

AllDone ==
    /\ \A l \in DOMAIN applied : Done(applied[l])
    /\ \A l \in Legs : Done(acks[l])

\* The turns are distinct, and the lease, if a leg has it, is with the last taker.
Leased ==
    /\ \A l \in Legs : turn[l] <= takes
    /\ \A k, l \in Legs : turn[k] = turn[l] /\ turn[k] # 0 => k = l
    /\ lease \in Legs => turn[lease] = takes /\ turn[lease] # 0

\* The child's input comes from legs that had their turn, and is within what their
\* axes remember.
Ordered ==
    /\ \A i \in 1 .. Len(ran) :
          /\ ran[i].leg <= client.new
          /\ turn[ran[i].leg] # 0
          /\ ran[i].leg \in Kept => ran[i].byte <= applied[ran[i].leg]
    /\ WritersTakeTurns

ReattachInv ==
    /\ Typed /\ Buffered /\ Frames /\ Chained /\ Attempts /\ Axes /\ AllDone
    /\ Leased /\ Ordered /\ NoByteSkipped

-----------------------------------------------------------------------------
(* Bytes, frames and axes *)

LEMMA Constants ==
  /\ MaxLegs \in Nat /\ MaxLegs > 0 /\ MaxAttempts \in Nat /\ MaxAttempts > 0
  /\ MaxAxes \in Nat /\ MaxAxes > MaxAttempts
  /\ Legs = 1 .. MaxLegs /\ Other \notin Legs /\ NoOne \notin Legs
  /\ \A l \in Legs : l \in Nat /\ l > 0
  BY ReattachConstants DEF Legs, Other, NoOne

LEMMA RunIs ==
  ASSUME NEW a \in Nat, NEW b \in Nat, a <= b
  PROVE  /\ Run(a, b) \in Seq(Nat) /\ Len(Run(a, b)) = b - a
         /\ \A i \in 1 .. b - a : Run(a, b)[i] = a + i
         /\ Run(a, b) = <<>> <=> a = b
<1>1. b - a \in Nat /\ \A i \in 1 .. b - a : a + i \in Nat
  OBVIOUS
<1>2. Run(a, b) \in Seq(Nat) /\ Len(Run(a, b)) = b - a
  BY <1>1 DEF Run
<1>3. \A i \in 1 .. b - a : Run(a, b)[i] = a + i
  BY DEF Run
<1>4. Run(a, b) = <<>> <=> a = b
  BY <1>1, <1>2
<1> QED
  BY <1>2, <1>3, <1>4

\* Its parts, for the leaves that need no more.
LEMMA RunSeq ==
  ASSUME NEW a \in Nat, NEW b \in Nat, a <= b
  PROVE  Run(a, b) \in Seq(Nat) /\ (Run(a, b) = <<>> <=> a = b)
  BY RunIs

\* Sequences of the same elements.
LEMMA SameSeq ==
  ASSUME NEW s \in Seq(Nat), NEW r \in Seq(Nat), Len(s) = Len(r),
         \A i \in 1 .. Len(s) : s[i] = r[i]
  PROVE  s = r
  OBVIOUS

\* One more byte.
LEMMA RunGrows ==
  ASSUME NEW a \in Nat, NEW b \in Nat, a <= b
  PROVE  Append(Run(a, b), b + 1) = Run(a, b + 1)
<1>1. /\ Run(a, b) \in Seq(Nat) /\ Len(Run(a, b)) = b - a
      /\ Run(a, b + 1) \in Seq(Nat) /\ Len(Run(a, b + 1)) = b - a + 1
  <2>1. PICK c \in Nat : c = b + 1
    OBVIOUS
  <2>2. a <= c /\ c - a = b - a + 1
    BY <2>1
  <2>3. Run(a, c) \in Seq(Nat) /\ Len(Run(a, c)) = c - a
    BY <2>2, RunIs
  <2>4. Run(a, b) \in Seq(Nat) /\ Len(Run(a, b)) = b - a
    BY RunIs
  <2> QED
    BY <2>1, <2>2, <2>3, <2>4
<1>2. /\ \A i \in 1 .. b - a : Run(a, b)[i] = a + i
      /\ \A i \in 1 .. b - a + 1 : Run(a, b + 1)[i] = a + i
  BY DEF Run
<1> DEFINE s == Append(Run(a, b), b + 1)
<1>3. s \in Seq(Nat) /\ Len(s) = b - a + 1
  BY <1>1
<1>4. \A i \in 1 .. b - a + 1 : s[i] = a + i
  BY <1>1, <1>2
<1> HIDE DEF s
<1>5. PICK r \in Seq(Nat) : r = Run(a, b + 1) /\ Len(r) = b - a + 1
  BY <1>1
<1>6. \A i \in 1 .. Len(s) : s[i] = r[i]
  BY <1>2, <1>3, <1>4, <1>5
<1>7. s = r
  BY <1>3, <1>5, <1>6, SameSeq
<1> QED
  BY <1>5, <1>7 DEF s

\* The first bytes are dropped.
LEMMA RunDrops ==
  ASSUME NEW a \in Nat, NEW k \in Nat, NEW b \in Nat, a <= k, k <= b
  PROVE  SubSeq(Run(a, b), k - a + 1, Len(Run(a, b))) = Run(k, b)
<1>1. Run(a, b) \in Seq(Nat) /\ Len(Run(a, b)) = b - a /\ \A i \in 1 .. b - a : Run(a, b)[i] = a + i
  BY RunIs
<1>2. Run(k, b) \in Seq(Nat) /\ Len(Run(k, b)) = b - k /\ \A i \in 1 .. b - k : Run(k, b)[i] = k + i
  BY RunIs
<1> DEFINE s == SubSeq(Run(a, b), k - a + 1, b - a)
<1>3. s \in Seq(Nat) /\ Len(s) = b - k
  BY <1>1
<1>4. \A i \in 1 .. b - k : s[i] = k + i
  BY <1>1
<1> HIDE DEF s
<1>5. s = Run(k, b)
  BY <1>2, <1>3, <1>4
<1> QED
  BY <1>1, <1>5 DEF s

\* A frame's bytes are those between its start and its offset.
LEMMA FrameIs ==
  ASSUME NEW n \in Nat, NEW f \in FrameRec, Faithful(f, n)
  PROVE  /\ Start(f) \in Nat /\ f.seq \in Nat /\ Start(f) < f.seq /\ f.seq <= n
         /\ f.data = Run(Start(f), f.seq) /\ Len(f.data) = f.seq - Start(f)
<1>1. PICK a \in Nat : a < f.seq /\ f.seq <= n /\ f.data = Run(a, f.seq)
  BY DEF Faithful
<1>2. f.seq \in Nat
  BY DEF FrameRec
<1>3. Len(f.data) = f.seq - a
  <2>1. a <= f.seq
    BY <1>1, <1>2
  <2> QED
    BY <1>1, <1>2, <2>1, RunIs
<1>4. Start(f) = a
  BY <1>2, <1>3 DEF Start
<1> QED
  BY <1>1, <1>2, <1>3, <1>4

\* A frame of such bytes.
LEMMA FrameMade ==
  ASSUME NEW a \in Nat, NEW b \in Nat, a < b
  PROVE  /\ Frame(Run(a, b), b) \in FrameRec /\ Frame(Run(a, b), b).seq = b
         /\ Start(Frame(Run(a, b), b)) = a
         /\ Faithful(Frame(Run(a, b), b), b)
<1>1. Run(a, b) \in Seq(Nat) /\ Len(Run(a, b)) = b - a
  BY RunIs
<1>2. Frame(Run(a, b), b).seq = b /\ Frame(Run(a, b), b).data = Run(a, b)
  BY DEF Frame
<1> QED
  BY <1>1, <1>2 DEF Frame, FrameRec, Start, Faithful

\* prune_input_axes keeps an axis that fewer than MAX_INPUT_AXES can follow.
LEMMA PrunedKeeps ==
  ASSUME NEW axes, DOMAIN axes \subseteq Legs, NEW l \in DOMAIN axes, NEW n \in Nat,
         \A k \in DOMAIN axes : k <= n, n - l < MaxAxes
  PROVE  l \in DOMAIN Pruned(axes)
<1>1. l \in Nat /\ n \in Nat /\ l <= n
  BY Constants
<1> DEFINE K == {k \in DOMAIN axes : k > l}
           I == l + 1 .. n
<1>2. K \in SUBSET I
  BY <1>1, Constants
<1>3. IsFiniteSet(I) /\ Cardinality(I) = n - l
  <2>1. l + 1 \in Int /\ n \in Int
    BY <1>1
  <2>2. IsFiniteSet(I) /\ Cardinality(I) = IF l + 1 > n THEN 0 ELSE n - (l + 1) + 1
    BY <2>1, FS_Interval
  <2> QED
    BY <1>1, <2>2
<1> HIDE DEF K, I
<1>4. IsFiniteSet(K) /\ Cardinality(K) <= n - l
  BY <1>2, <1>3, FS_Subset
<1>5. Cardinality(K) \in Nat
  BY <1>4, FS_CardinalityType
<1>6. Cardinality(K) < MaxAxes
  BY <1>1, <1>4, <1>5, Constants
<1> QED
  BY <1>6 DEF Pruned, K

LEMMA PrunedIs ==
  ASSUME NEW axes
  PROVE  /\ DOMAIN Pruned(axes) \subseteq DOMAIN axes
         /\ \A l \in DOMAIN Pruned(axes) : Pruned(axes)[l] = axes[l]
  BY DEF Pruned

LEMMA SetAxisIs ==
  ASSUME NEW l, NEW n
  PROVE  /\ DOMAIN SetAxis(l, n) = DOMAIN applied \union {l}
         /\ SetAxis(l, n)[l] = n
         /\ \A k \in DOMAIN applied : k # l => SetAxis(l, n)[k] = applied[k]
  BY DEF SetAxis

LEMMA RecentIsKept ==
  ASSUME Typed, Attempts
  PROVE  Recent \subseteq Kept /\ client.leg \in Recent /\ client.new \in Recent
<1>1. client.leg \in Legs /\ client.new \in Legs /\ client.leg \in Nat /\ client.new \in Nat
  BY Constants DEF Typed, ClientRec
<1>2. client.leg <= client.new /\ client.new - client.leg <= MaxAttempts
  BY DEF Attempts
<1>3. ASSUME NEW l \in Recent PROVE l \in Kept
  <2>1. l \in Legs /\ l \in Nat /\ client.leg <= l /\ l <= client.new
    BY Constants DEF Recent
  <2>2. client.new - l < MaxAxes
    BY <1>1, <1>2, <2>1, Constants
  <2> QED
    BY <2>1, <2>2 DEF Kept
<1> QED
  BY <1>1, <1>2, <1>3 DEF Recent

-----------------------------------------------------------------------------
(* The invariant is kept *)

\* The path dies, a probe is answered, an attempt fails: only the client's step.
LEMMA StepsOfClient ==
  ASSUME ReattachInv, PathDies \/ Migrate \/ AttemptFails
  PROVE  ReattachInv'
<1>1. /\ UNCHANGED <<typed, pending, pumping, alive, wire, copies, acks, hostVars, nextAxis, credAxis>>
      /\ client \in ClientRec
      /\ client' = [client EXCEPT !.at = "dead"] \/ client' = [client EXCEPT !.at = "up"]
  BY DEF PathDies, Migrate, AttemptFails, ReattachInv, Typed
<1>2. /\ client'.leg = client.leg /\ client'.new = client.new /\ client'.at \in {"dead", "up"}
      /\ client' \in ClientRec /\ client.leg \in Nat /\ client.new \in Nat
  BY <1>1, Constants DEF ClientRec
<1>3. /\ client'.at = "up" => client.leg = client.new
      /\ client'.at = "dead" => client.new - client.leg < MaxAttempts
  <2>1. CASE PathDies
    BY <1>2, <2>1, Constants DEF PathDies, ReattachInv, Attempts
  <2>2. CASE Migrate
    BY <1>1, <1>2, <2>2 DEF Migrate, ClientRec
  <2>3. CASE AttemptFails
    <3>1. /\ nextAxis = client.new + 1 /\ nextAxis - client.leg <= MaxAttempts
          /\ client' = [client EXCEPT !.at = "dead"]
      BY <2>3 DEF AttemptFails, CanFail, ReattachInv, Typed
    <3>2. client'.at = "dead"
      BY <1>1, <3>1 DEF ClientRec
    <3> QED
      BY <1>2, <3>1, <3>2, Constants
  <2> QED
    BY <2>1, <2>2, <2>3
<1>4. Typed' /\ Buffered' /\ Frames'
  BY <1>1, <1>2 DEF hostVars, ReattachInv, Typed, Buffered, Frames
<1>5. Chained' /\ Attempts'
  BY <1>1, <1>2, <1>3 DEF hostVars, ReattachInv, Chained, Reach, Attempts
<1>6. Axes' /\ Leased'
  BY <1>1, <1>2 DEF hostVars, ReattachInv, Axes, Leased, Recent, Kept
<1>7. AllDone' /\ Ordered' /\ NoByteSkipped'
  BY <1>1, <1>2 DEF hostVars, ReattachInv, AllDone, Done, Ran, Ordered, WritersTakeTurns, NoByteSkipped, Recent, Kept
<1> QED
  BY <1>4, <1>5, <1>6, <1>7 DEF ReattachInv

\* What the child got stays what it was.
LEMMA HistoryStays ==
  ASSUME ReattachInv, UNCHANGED <<client, acks, applied, ran, refused, turn, nextAxis>>
  PROVE  AllDone' /\ Ordered' /\ NoByteSkipped'
<1>1. /\ client' = client /\ acks' = acks /\ applied' = applied /\ ran' = ran
      /\ refused' = refused /\ turn' = turn /\ nextAxis' = nextAxis
  OBVIOUS
<1>2. AllDone'
  BY <1>1 DEF ReattachInv, AllDone, Done, Ran
<1>3. WritersTakeTurns'
  BY <1>1 DEF ReattachInv, Ordered, WritersTakeTurns
<1>4. Kept' = Kept
  BY <1>1 DEF Kept
<1>5. Ordered'
  BY <1>1, <1>3, <1>4 DEF ReattachInv, Ordered
<1>6. NoByteSkipped'
  BY <1>1 DEF ReattachInv, NoByteSkipped, Ran
<1> QED
  BY <1>2, <1>5, <1>6

\* A stream ends, and perhaps its lease.
LEMMA StreamGone ==
  ASSUME ReattachInv, NEW l \in Legs,
         UNCHANGED <<clientVars, acks, applied, ran, refused, turn, takes, nextAxis, credAxis>>,
         alive' = alive \ {l},
         wire' = [wire EXCEPT ![l] = <<>>], copies' = [copies EXCEPT ![l] = {}],
         lease' = lease \/ lease' = NoOne
  PROVE  ReattachInv'
<1>2. /\ wire'[l] = <<>> /\ copies'[l] = {}
      /\ \A k \in Legs : k # l => wire'[k] = wire[k] /\ copies'[k] = copies[k]
      /\ wire' \in [Legs -> Seq(FrameRec)] /\ copies' \in [Legs -> SUBSET FrameRec]
  BY DEF ReattachInv, Typed
<1>3. Typed' /\ Buffered'
  BY <1>2 DEF clientVars, ReattachInv, Typed, Buffered
<1>4. Frames'
  BY <1>2 DEF clientVars, ReattachInv, Frames
<1>5. Chained'
  <2>1. /\ typed' = typed /\ client' = client /\ acks' = acks /\ client.leg \in Legs
        /\ client.leg \in alive' => client.leg # l /\ client.leg \in alive
    BY DEF clientVars, ReattachInv, Typed, ClientRec
  <2>2. client.leg \in alive' => Reach(client.leg)' = Reach(client.leg)
    BY <1>2, <2>1 DEF Reach
  <2>3. \A k \in Legs :
          /\ wire'[k] # <<>> => Start(wire'[k][1]) <= acks[k]
          /\ \A i \in 1 .. Len(wire'[k]) - 1 : Start(wire'[k][i + 1]) <= wire'[k][i].seq
    <3> SUFFICES ASSUME NEW k \in Legs
                 PROVE  /\ wire'[k] # <<>> => Start(wire'[k][1]) <= acks[k]
                        /\ \A i \in 1 .. Len(wire'[k]) - 1 :
                              Start(wire'[k][i + 1]) <= wire'[k][i].seq
      OBVIOUS
    <3>1. CASE k = l
      BY <1>2, <3>1
    <3>2. CASE k # l
      BY <1>2, <3>2 DEF ReattachInv, Chained
    <3> QED
      BY <3>1, <3>2
  <2>4. client.leg \in alive' => Reach(client.leg)' >= typed
    BY <2>1, <2>2 DEF ReattachInv, Chained
  <2> QED
    BY <2>1, <2>3, <2>4 DEF Chained
<1>6. Attempts'
  BY <1>2 DEF clientVars, ReattachInv, Attempts
<1>7. Axes' /\ Leased'
  BY Constants DEF clientVars, ReattachInv, Axes, Leased, Recent, Kept
<1>8. AllDone' /\ Ordered' /\ NoByteSkipped'
  BY HistoryStays DEF clientVars
<1> QED
  BY <1>3, <1>4, <1>5, <1>6, <1>7, <1>8 DEF ReattachInv

LEMMA StreamsEnd ==
  ASSUME ReattachInv, NEW l \in Legs, ConnectionEnds(l) \/ Backpressure(l)
  PROVE  ReattachInv'
<1>1. /\ UNCHANGED <<clientVars, acks, applied, ran, refused, turn, takes, nextAxis, credAxis>>
      /\ alive' = alive \ {l}
      /\ wire' = [wire EXCEPT ![l] = <<>>] /\ copies' = [copies EXCEPT ![l] = {}]
      /\ lease' = lease \/ lease' = NoOne
  BY DEF ConnectionEnds, Backpressure, hostVars
<1> QED
  BY <1>1, StreamGone

\* The lease goes to another writer.
LEMMA StealKeeps ==
  ASSUME ReattachInv, Steal
  PROVE  ReattachInv'
<1>1. /\ UNCHANGED <<clientVars, alive, wire, copies, acks, applied, ran, refused, turn, takes,
                     nextAxis, credAxis>>
      /\ lease' = Other
  BY DEF Steal
<1>2. Typed' /\ Buffered' /\ Frames' /\ Chained' /\ Attempts'
  BY <1>1 DEF clientVars, ReattachInv, Typed, Buffered, Frames, Chained, Reach, Attempts
<1>3. Axes' /\ Leased'
  BY <1>1, Constants DEF clientVars, ReattachInv, Axes, Leased, Recent, Kept
<1>4. AllDone' /\ Ordered' /\ NoByteSkipped'
  BY <1>1, HistoryStays DEF clientVars
<1> QED
  BY <1>2, <1>3, <1>4 DEF ReattachInv

\* An InputAck releases bytes that were applied.
LEMMA ReadAckKeeps ==
  ASSUME ReattachInv, ReadAck
  PROVE  ReattachInv'
<1>1. /\ UNCHANGED <<typed, client, pumping, alive, wire, copies, acks, hostVars, nextAxis, credAxis>>
      /\ client.at = "up" /\ acks[client.leg] > pending.acked
      /\ pending' = Acked(pending, acks[client.leg])
  BY DEF ReadAck
<1>2. /\ typed \in Nat /\ pending \in PendingRec /\ client.leg \in Legs /\ client.leg = client.new
      /\ acks[client.leg] \in Nat /\ pending.acked \in Nat
      /\ pending.sent = typed /\ pending.acked <= typed /\ pending.buf = Run(pending.acked, typed)
  BY <1>1 DEF ReattachInv, Typed, Buffered, Attempts, ClientRec, PendingRec
<1>3. PICK to \in Nat : to = IF acks[client.leg] < typed THEN acks[client.leg] ELSE typed
  BY <1>2
<1>4. /\ pending' \in PendingRec /\ pending'.sent = typed /\ pending'.acked <= typed
      /\ pending'.buf = Run(pending'.acked, typed)
      /\ pending'.acked <= acks[client.leg] \/ pending'.acked = pending.acked
  <2>1. CASE to <= pending.acked
    BY <1>1, <1>2, <1>3, <2>1 DEF Acked
  <2>2. CASE ~(to <= pending.acked)
    <3>1. pending' = [pending EXCEPT !.acked = to,
                                     !.buf = SubSeq(pending.buf, to - pending.acked + 1, Len(pending.buf))]
      BY <1>1, <1>2, <1>3, <2>2 DEF Acked
    <3>2. pending.acked <= to /\ to <= typed /\ to <= acks[client.leg]
      BY <1>2, <1>3, <2>2
    <3>3. SubSeq(pending.buf, to - pending.acked + 1, Len(pending.buf)) = Run(to, typed)
      <4>1. PICK a \in Nat : a = pending.acked
        BY <1>2
      <4>2. SubSeq(Run(a, typed), to - a + 1, Len(Run(a, typed))) = Run(to, typed)
        BY <1>2, <3>2, <4>1, RunDrops
      <4> QED
        BY <1>2, <4>1, <4>2
    <3>4. Run(to, typed) \in Seq(Nat)
      BY <1>2, <3>2, RunIs
    <3>5. pending' = [pending EXCEPT !.acked = to, !.buf = Run(to, typed)]
      BY <3>1, <3>3
    <3> QED
      BY <1>2, <3>2, <3>4, <3>5 DEF PendingRec
  <2> QED
    BY <2>1, <2>2
<1>5. Typed' /\ Buffered' /\ Frames' /\ Chained' /\ Attempts'
  BY <1>1, <1>4 DEF hostVars, ReattachInv, Typed, Buffered, Frames, Chained, Reach, Attempts
<1>6. Axes' /\ Leased'
  <2>1. Recent = {client.leg} /\ Recent' = Recent /\ Kept' = Kept /\ client.leg \in Kept
    <3>1. client.leg \in Kept
      BY RecentIsKept DEF ReattachInv
    <3> QED
      BY <1>1, <1>2, <3>1, Constants DEF Recent, Kept
  <2>2. acks[client.leg] <= applied[client.leg] /\ pending.acked <= applied[client.leg]
        /\ applied[client.leg] \in Nat
    BY <2>1 DEF ReattachInv, Axes, Typed
  <2>3. pending'.acked <= applied[client.leg]
    BY <1>2, <1>4, <2>2 DEF PendingRec
  <2> QED
    BY <1>1, <2>1, <2>3 DEF hostVars, ReattachInv, Axes, Leased
<1>7. AllDone' /\ Ordered' /\ NoByteSkipped'
  BY <1>1 DEF hostVars, ReattachInv, AllDone, Done, Ran, Ordered, WritersTakeTurns, NoByteSkipped, Recent, Kept
<1> QED
  BY <1>5, <1>6, <1>7 DEF ReattachInv

\* open_attach_stream: the newest leg's header is on its way.
LEMMA OpenStreamKeeps ==
  ASSUME ReattachInv, OpenStream
  PROVE  ReattachInv'
<1>1. /\ UNCHANGED <<typed, pending, pumping, wire, copies, acks, hostVars, nextAxis, credAxis>>
      /\ client.at = "seeded" /\ alive' = alive \union {client.new}
      /\ client' = [client EXCEPT !.at = "opened"]
  BY DEF OpenStream
<1>2. client \in ClientRec /\ client.new \in Legs /\ client.leg \in Legs
  BY DEF ReattachInv, Typed, ClientRec
<1>3. /\ client'.leg = client.leg /\ client'.new = client.new /\ client'.at = "opened"
      /\ client'.from = client.from /\ client' \in ClientRec
  BY <1>1, <1>2 DEF ClientRec
<1>4. client.leg # client.new /\ client.leg < client.new
  BY <1>1, <1>2, Constants DEF ReattachInv, Attempts
<1>5. Typed' /\ Buffered' /\ Frames'
  BY <1>1, <1>2, <1>3 DEF hostVars, ReattachInv, Typed, Buffered, Frames
<1>6. Attempts'
  <2>1. \A l \in Legs : l > client.new => l \notin alive'
    BY <1>1, <1>2, Constants DEF ReattachInv, Attempts
  <2> QED
    BY <1>1, <1>3, <1>4, <2>1 DEF hostVars, ReattachInv, Attempts
<1>7. Chained'
  BY <1>1, <1>3, <1>4 DEF ReattachInv, Chained, Reach
<1>8. Axes' /\ Leased'
  BY <1>1, <1>3 DEF hostVars, ReattachInv, Axes, Leased, Recent, Kept
<1>9. AllDone' /\ Ordered' /\ NoByteSkipped'
  BY <1>1, <1>3 DEF hostVars, ReattachInv, AllDone, Done, Ran, Ordered, WritersTakeTurns, NoByteSkipped, Kept
<1> QED
  BY <1>5, <1>6, <1>7, <1>8, <1>9 DEF ReattachInv

\* handle_data_stream: the leg whose header arrives takes the lease, and nothing
\* of it has reached the child before.
LEMMA TakeLeaseKeeps ==
  ASSUME ReattachInv, NEW l \in Legs, TakeLease(l)
  PROVE  ReattachInv'
<1>1. /\ UNCHANGED <<clientVars, alive, wire, copies, acks, applied, ran, refused, nextAxis, credAxis>>
      /\ turn[l] = 0 /\ lease' = l /\ takes' = takes + 1 /\ turn' = [turn EXCEPT ![l] = takes + 1]
  BY DEF TakeLease
<1>2. /\ turn \in [Legs -> Nat] /\ takes \in Nat /\ turn' \in [Legs -> Nat] /\ takes' \in Nat
      /\ turn'[l] = takes + 1 /\ \A k \in Legs : k # l => turn'[k] = turn[k]
  BY <1>1 DEF ReattachInv, Typed
<1>3. Typed' /\ Buffered' /\ Frames' /\ Chained' /\ Attempts'
  BY <1>1, <1>2 DEF clientVars, ReattachInv, Typed, Buffered, Frames, Chained, Reach, Attempts
<1>4. Axes'
  BY <1>1 DEF clientVars, ReattachInv, Axes, Recent, Kept
<1>5. Leased'
  <2>1. \A k \in Legs : turn[k] \in Nat /\ turn[k] <= takes
    BY <1>2 DEF ReattachInv, Leased
  <2>2. \A k \in Legs : turn'[k] <= takes + 1 /\ (turn'[k] = takes + 1 => k = l)
    BY <1>2, <2>1
  <2>3. \A j, k \in Legs : turn'[j] = turn'[k] /\ turn'[j] # 0 => j = k
    <3> SUFFICES ASSUME NEW j \in Legs, NEW k \in Legs, turn'[j] = turn'[k], turn'[j] # 0
                 PROVE  j = k
      OBVIOUS
    <3>1. CASE j = l \/ k = l
      BY <1>2, <2>2, <3>1
    <3>2. CASE j # l /\ k # l
      BY <1>2, <3>2 DEF ReattachInv, Leased
    <3> QED
      BY <3>1, <3>2
  <2> QED
    BY <1>1, <1>2, <2>2, <2>3 DEF Leased
<1>6. AllDone' /\ NoByteSkipped'
  BY <1>1 DEF ReattachInv, AllDone, Done, Ran, NoByteSkipped
<1>7. \A i \in 1 .. Len(ran) : ran[i].leg \in Legs /\ ran[i].leg # l /\ turn'[ran[i].leg] = turn[ran[i].leg]
  <2>1. \A i \in 1 .. Len(ran) : ran[i] \in RanRec
    BY DEF ReattachInv, Typed
  <2>2. \A i \in 1 .. Len(ran) : ran[i].leg \in Legs /\ turn[ran[i].leg] # 0
    BY <2>1 DEF ReattachInv, Ordered, RanRec
  <2> QED
    BY <1>1, <1>2, <2>2
<1>8. Ordered'
  BY <1>1, <1>7 DEF clientVars, ReattachInv, Ordered, WritersTakeTurns, Kept
<1> QED
  BY <1>3, <1>4, <1>5, <1>6, <1>8 DEF ReattachInv

\* A redemption forks the newest axis.
LEMMA RedeemKeeps ==
  ASSUME ReattachInv, Redeem
  PROVE  ReattachInv'
<1>1. /\ typed \in Nat /\ client \in ClientRec /\ client.at = "dead"
      /\ client.leg \in Legs /\ client.new \in Legs /\ client.leg \in Nat /\ client.new \in Nat
      /\ client.leg <= client.new /\ client.new - client.leg < MaxAttempts
      /\ nextAxis = client.new + 1 /\ credAxis = client.new /\ nextAxis <= MaxLegs
  BY Constants DEF Redeem, CanRetry, ReattachInv, Typed, ClientRec, Attempts
<1>2. PICK l \in Legs : l = client.new + 1
  BY <1>1, Constants
<1>3. client.new \in Recent /\ client.new \in Kept /\ client.new \in DOMAIN applied
  <2>1. client.new \in Recent /\ client.new \in Kept
    BY RecentIsKept DEF ReattachInv
  <2> QED
    BY <2>1 DEF ReattachInv, Axes
<1>4. PICK o \in Nat : o = applied[client.new]
  BY <1>3 DEF ReattachInv, Typed
<1>5. SeedOffset = o
  BY <1>1, <1>3, <1>4 DEF SeedOffset, AppliedOn
<1>6. /\ nextAxis' = l + 1 /\ credAxis' = l /\ acks' = [acks EXCEPT ![l] = o]
      /\ client' = [client EXCEPT !.at = "seeded", !.new = l, !.from = o]
      /\ applied' = Pruned(SetAxis(l, o))
      /\ UNCHANGED <<typed, pending, pumping, alive, wire, copies, lease, ran, refused, turn, takes>>
  BY <1>1, <1>2, <1>5 DEF Redeem
<1>7. /\ client'.leg = client.leg /\ client'.new = l /\ client'.at = "seeded" /\ client'.from = o
      /\ client' \in ClientRec
  BY <1>1, <1>2, <1>4, <1>6 DEF ClientRec
<1>8. /\ l \in Nat /\ l \notin Recent /\ l \notin DOMAIN applied
      /\ Recent' = Recent \union {l} /\ \A k \in Kept' : k = l \/ k \in Kept
  <2>1. l \in Nat /\ l \notin Recent /\ l \notin DOMAIN applied /\ Recent' = Recent \union {l}
    BY <1>1, <1>2, <1>7, Constants DEF Recent, ReattachInv, Attempts
  <2>2. ASSUME NEW k \in Kept' PROVE k = l \/ k \in Kept
    <3>1. k \in Legs /\ k \in Nat /\ k <= l /\ l - k < MaxAxes
      BY <1>7, Constants DEF Kept
    <3>2. k # l => k <= client.new /\ client.new - k < MaxAxes
      BY <1>1, <1>2, <3>1, Constants
    <3> QED
      BY <3>1, <3>2 DEF Kept
  <2> QED
    BY <2>1, <2>2
<1>22. /\ acks' \in [Legs -> Nat] /\ acks'[l] = o /\ \A k \in Legs : k # l => acks'[k] = acks[k]
  BY <1>4, <1>6 DEF ReattachInv, Typed
<1>9. /\ DOMAIN applied' \subseteq DOMAIN applied \union {l}
      /\ l \in DOMAIN applied' => applied'[l] = o
      /\ \A k \in DOMAIN applied' : k # l => k \in DOMAIN applied /\ applied'[k] = applied[k]
  <2>1. PICK x : x = SetAxis(l, o)
    OBVIOUS
  <2>2. /\ DOMAIN x = DOMAIN applied \union {l} /\ x[l] = o
        /\ \A k \in DOMAIN applied : k # l => x[k] = applied[k]
    BY <2>1, SetAxisIs
  <2>3. DOMAIN Pruned(x) \subseteq DOMAIN x /\ \A k \in DOMAIN Pruned(x) : Pruned(x)[k] = x[k]
    BY PrunedIs
  <2> QED
    BY <1>6, <2>1, <2>2, <2>3
<1>10. \A k \in Kept' : k \in DOMAIN applied'
  <2> SUFFICES ASSUME NEW k \in Kept' PROVE k \in DOMAIN Pruned(SetAxis(l, o))
    BY <1>6
  <2>1. DOMAIN SetAxis(l, o) = DOMAIN applied \union {l}
    BY SetAxisIs
  <2>2. k \in DOMAIN SetAxis(l, o) /\ DOMAIN SetAxis(l, o) \subseteq Legs
    BY <1>8, <2>1 DEF ReattachInv, Axes, Typed
  <2>3. \A j \in DOMAIN SetAxis(l, o) : j <= l
    <3>1. \A j \in DOMAIN applied : j \in Legs /\ ~(j > client.new)
      BY DEF ReattachInv, Attempts, Typed
    <3> QED
      BY <1>1, <1>2, <2>1, <3>1, Constants
  <2>4. l - k < MaxAxes
    BY <1>7 DEF Kept
  <2> QED
    BY <1>8, <2>2, <2>3, <2>4, PrunedKeeps
<1>23. l \in Kept' /\ \A k \in Recent' : k \in Kept'
  <2>1. l \in Kept'
    BY <1>7, <1>8, Constants DEF Kept
  <2>2. ASSUME NEW k \in Recent PROVE k \in Kept'
    <3>1. k \in Legs /\ k \in Nat /\ client.leg <= k /\ k <= client.new
      BY Constants DEF Recent
    <3>2. k <= l /\ l - k < MaxAxes
      BY <1>1, <1>2, <3>1, Constants
    <3> QED
      BY <1>7, <3>1, <3>2 DEF Kept
  <2> QED
    BY <1>8, <2>1, <2>2
<1>11. Typed'
  <2>1. DOMAIN applied' \subseteq Legs /\ \A k \in DOMAIN applied' : applied'[k] \in Nat
    BY <1>4, <1>9 DEF ReattachInv, Typed
  <2>2. nextAxis' \in Nat /\ nextAxis' = client'.new + 1 /\ credAxis' = client'.new
    BY <1>6, <1>7, <1>8
  <2> QED
    BY <1>6, <1>7, <1>22, <2>1, <2>2 DEF ReattachInv, Typed
<1>12. Buffered' /\ Frames'
  BY <1>6 DEF ReattachInv, Buffered, Frames
<1>24. wire[l] = <<>> /\ client.leg # l
  BY <1>1, <1>2, Constants DEF ReattachInv, Attempts
<1>13. Chained'
  BY <1>1, <1>2, <1>6, <1>7, <1>22, <1>24 DEF ReattachInv, Chained, Reach
<1>14. Attempts'
  <2>1. \A k \in Legs : k > l => k > client.new /\ k # l
    BY <1>1, <1>2, Constants
  <2>2. \A k \in Legs : k > l => acks'[k] = 0 /\ k \notin DOMAIN applied' /\ k \notin alive'
    BY <1>6, <1>9, <1>22, <2>1 DEF ReattachInv, Attempts
  <2> QED
    BY <1>1, <1>2, <1>6, <1>7, <2>2, Constants DEF ReattachInv, Attempts
<1>15. /\ o <= typed /\ pending.acked <= o /\ Done(o)
  BY <1>3, <1>4 DEF ReattachInv, Axes, AllDone
<1>16. Axes'
  <2>1. \A k \in Kept' : acks'[k] <= applied'[k]
    <3> SUFFICES ASSUME NEW k \in Kept' PROVE acks'[k] <= applied'[k]
      OBVIOUS
    <3>1. CASE k = l
      BY <1>4, <1>9, <1>10, <1>22, <3>1
    <3>2. CASE k # l
      <4>1. k \in Kept /\ k \in Legs
        BY <1>8, <3>2 DEF Kept
      <4> QED
        BY <1>9, <1>10, <1>22, <3>2, <4>1 DEF ReattachInv, Axes
    <3> QED
      BY <3>1, <3>2
  <2>2. \A k \in DOMAIN applied' : applied'[k] <= typed'
    BY <1>6, <1>9, <1>15 DEF ReattachInv, Axes
  <2>3. client'.from <= applied'[client'.new] /\ acks'[client'.new] = client'.from
    BY <1>4, <1>7, <1>9, <1>10, <1>22, <1>23
  <2>4. \A k \in Recent' : pending'.acked <= applied'[k]
    <3> SUFFICES ASSUME NEW k \in Recent' PROVE pending.acked <= applied'[k]
      BY <1>6
    <3>1. k \in DOMAIN applied'
      BY <1>10, <1>23
    <3>2. k # l => k \in Recent
      BY <1>8
    <3> QED
      BY <1>9, <1>15, <3>1, <3>2 DEF ReattachInv, Axes
  <2> QED
    BY <1>6, <1>7, <1>10, <1>15, <2>1, <2>2, <2>3, <2>4 DEF Axes
<1>17. \A n : Done(n)' <=> Done(n)
  BY <1>6 DEF Done, Ran
<1>18. AllDone'
  BY <1>6, <1>9, <1>15, <1>17, <1>22 DEF ReattachInv, AllDone
<1>19. Leased'
  BY <1>6 DEF ReattachInv, Leased
<1>20. \A i \in 1 .. Len(ran) : ran[i].leg <= client.new /\ ran[i].leg \in Nat
  <2>1. \A i \in 1 .. Len(ran) : ran[i] \in RanRec
    BY DEF ReattachInv, Typed
  <2> QED
    BY <2>1, Constants DEF ReattachInv, Ordered, RanRec
<1>21. Ordered' /\ NoByteSkipped'
  <2>1. \A i \in 1 .. Len(ran) : ran[i].leg # l /\ ran[i].leg <= l
    BY <1>1, <1>2, <1>20
  <2>2. \A i \in 1 .. Len(ran) : ran[i].leg \in Kept' => ran[i].byte <= applied'[ran[i].leg]
    BY <1>8, <1>9, <1>10, <2>1 DEF ReattachInv, Ordered
  <2>3. \A i \in 1 .. Len(ran) : ran[i].leg + MaxAxes < nextAxis => ran[i].leg + MaxAxes < nextAxis'
    <3>1. PICK c \in Nat : c = client.new
      BY <1>1, <1>2, Constants
    <3>2. nextAxis \in Nat /\ nextAxis' \in Nat /\ nextAxis <= nextAxis'
      BY <1>1, <1>2, <1>6, <3>1, Constants
    <3> QED
      BY <1>20, <3>2, Constants
  <2>4. WritersTakeTurns'
    BY <1>6, <2>3 DEF ReattachInv, Ordered, WritersTakeTurns
  <2> QED
    BY <1>6, <1>7, <2>1, <2>2, <2>4 DEF ReattachInv, Ordered, NoByteSkipped
<1> QED
  BY <1>11, <1>12, <1>13, <1>14, <1>16, <1>18, <1>19, <1>21 DEF ReattachInv

\* One more frame on a stream.
LEMMA ChainGrows ==
  ASSUME NEW s \in Seq(FrameRec), NEW f \in FrameRec, NEW a \in Nat, Start(f) \in Nat,
         s # <<>> => Start(s[1]) <= a,
         \A i \in 1 .. Len(s) - 1 : Start(s[i + 1]) <= s[i].seq,
         Start(f) <= IF s = <<>> THEN a ELSE s[Len(s)].seq
  PROVE  /\ Append(s, f) \in Seq(FrameRec) /\ Append(s, f) # <<>>
         /\ Append(s, f)[Len(Append(s, f))] = f
         /\ Start(Append(s, f)[1]) <= a
         /\ \A i \in 1 .. Len(Append(s, f)) - 1 :
                Start(Append(s, f)[i + 1]) <= Append(s, f)[i].seq
         /\ \A i \in 1 .. Len(Append(s, f)) :
                Append(s, f)[i] = f \/ \E j \in 1 .. Len(s) : Append(s, f)[i] = s[j]
<1> DEFINE t == Append(s, f)
<1>1. /\ t \in Seq(FrameRec) /\ Len(t) = Len(s) + 1 /\ Len(s) \in Nat
      /\ t[Len(s) + 1] = f /\ \A i \in 1 .. Len(s) : t[i] = s[i]
  OBVIOUS
<1> HIDE DEF t
<1>2. t # <<>> /\ t[Len(t)] = f
  BY <1>1
<1>3. s = <<>> <=> Len(s) = 0
  OBVIOUS
<1>4. Start(t[1]) <= a
  BY <1>1, <1>3
<1>5. ASSUME NEW i \in 1 .. Len(t) - 1 PROVE Start(t[i + 1]) <= t[i].seq
  <2>1. CASE i = Len(s)
    BY <1>1, <1>3, <2>1
  <2>2. CASE i # Len(s)
    BY <1>1, <2>2
  <2> QED
    BY <2>1, <2>2
<1>6. \A i \in 1 .. Len(t) : t[i] = f \/ \E j \in 1 .. Len(s) : t[i] = s[j]
  BY <1>1
<1> QED
  BY <1>1, <1>2, <1>4, <1>5, <1>6 DEF t

\* send_input on a stream that gets as far as the frame's start.
LEMMA SendKeeps ==
  ASSUME ReattachInv, NEW l \in Legs, NEW f \in FrameRec, Send(l, f),
         Start(f) \in Nat, Start(f) <= Reach(l)
  PROVE  /\ wire' \in [Legs -> Seq(FrameRec)] /\ copies' \in [Legs -> SUBSET FrameRec]
         /\ \A k \in Legs : k # l => wire'[k] = wire[k] /\ copies'[k] = copies[k]
         /\ l \in alive => wire'[l] # <<>> /\ wire'[l][Len(wire'[l])] = f
         /\ wire'[l] # <<>> => Start(wire'[l][1]) <= acks[l]
         /\ \A i \in 1 .. Len(wire'[l]) - 1 : Start(wire'[l][i + 1]) <= wire'[l][i].seq
         /\ \A i \in 1 .. Len(wire'[l]) :
               wire'[l][i] = f \/ \E j \in 1 .. Len(wire[l]) : wire'[l][i] = wire[l][j]
         /\ \A g \in copies'[l] : g = f \/ g \in copies[l]
<1>1. /\ wire \in [Legs -> Seq(FrameRec)] /\ copies \in [Legs -> SUBSET FrameRec]
      /\ wire[l] \in Seq(FrameRec) /\ acks[l] \in Nat
      /\ wire[l] # <<>> => Start(wire[l][1]) <= acks[l]
      /\ \A i \in 1 .. Len(wire[l]) - 1 : Start(wire[l][i + 1]) <= wire[l][i].seq
  BY DEF ReattachInv, Typed, Chained
<1>2. CASE l \notin alive
  BY <1>1, <1>2 DEF Send
<1>3. CASE l \in alive
  <2>1. /\ wire' = [wire EXCEPT ![l] = Append(wire[l], f)]
        /\ copies' = [copies EXCEPT ![l] = copies[l] \union {f}]
    BY <1>3 DEF Send
  <2> DEFINE t == Append(wire[l], f)
  <2>2. /\ t \in Seq(FrameRec) /\ t # <<>> /\ t[Len(t)] = f /\ Start(t[1]) <= acks[l]
        /\ \A i \in 1 .. Len(t) - 1 : Start(t[i + 1]) <= t[i].seq
        /\ \A i \in 1 .. Len(t) : t[i] = f \/ \E j \in 1 .. Len(wire[l]) : t[i] = wire[l][j]
    BY <1>1, ChainGrows DEF Reach
  <2>3. wire' = [wire EXCEPT ![l] = t]
    BY <2>1
  <2> HIDE DEF t
  <2>4. /\ wire'[l] = t /\ copies'[l] = copies[l] \union {f}
        /\ \A k \in Legs : k # l => wire'[k] = wire[k] /\ copies'[k] = copies[k]
        /\ wire' \in [Legs -> Seq(FrameRec)] /\ copies' \in [Legs -> SUBSET FrameRec]
    BY <1>1, <2>1, <2>2, <2>3
  <2> QED
    BY <2>2, <2>4
<1> QED
  BY <1>2, <1>3

\* A byte is typed.
LEMMA TypeKeeps ==
  ASSUME ReattachInv, Type
  PROVE  ReattachInv'
<1>1. UNCHANGED <<client, alive, acks, hostVars, nextAxis, credAxis>>
  BY DEF Type
<1>2. CASE UNCHANGED <<typed, pending, wire, copies>>
  <2>1. Typed' /\ Buffered' /\ Frames' /\ Chained' /\ Attempts'
    BY <1>1, <1>2 DEF hostVars, ReattachInv, Typed, Buffered, Frames, Chained, Reach, Attempts
  <2>2. Axes' /\ Leased' /\ AllDone' /\ Ordered' /\ NoByteSkipped'
    BY <1>1, <1>2 DEF hostVars, ReattachInv, Axes, Leased, AllDone, Done, Ran, Ordered, WritersTakeTurns, NoByteSkipped, Recent, Kept
  <2> QED
    BY <2>1, <2>2 DEF ReattachInv
<1>3. CASE /\ typed' = typed + 1
           /\ pending' = [pending EXCEPT !.sent = pending.sent + 1, !.buf = Append(pending.buf, typed + 1)]
           /\ Send(client.leg, Frame(<<typed + 1>>, pending.sent + 1))
  <2>1. /\ typed \in Nat /\ pending \in PendingRec /\ client.leg \in Legs
        /\ pending.acked \in Nat /\ pending.sent = typed /\ pending.acked <= typed
        /\ pending.buf = Run(pending.acked, typed)
    BY DEF ReattachInv, Typed, Buffered, ClientRec, PendingRec
  <2>2. PICK n \in Nat : n = typed + 1
    BY <2>1
  <2>3. <<n>> = Run(typed, n)
    <3>1. Run(typed, typed) = <<>>
      <4>1. typed \in Nat /\ typed <= typed
        BY <2>1
      <4> QED
        BY <4>1, RunSeq
    <3>2. Append(Run(typed, typed), typed + 1) = Run(typed, typed + 1)
      BY <2>1, RunGrows
    <3> QED
      BY <2>2, <3>1, <3>2
  <2>4. PICK f : f = Frame(Run(typed, n), n)
    OBVIOUS
  <2>5. f \in FrameRec /\ f.seq = n /\ Start(f) = typed
    BY <2>1, <2>2, <2>4, FrameMade
  <2>6. Send(client.leg, f)
    BY <1>3, <2>1, <2>2, <2>3, <2>4
  <2>7. Faithful(f, n)
    BY <2>1, <2>2, <2>4, FrameMade
  <2>8. \A g \in FrameRec : Faithful(g, typed) => Faithful(g, n)
    BY <2>1, <2>2 DEF Faithful, FrameRec
  <2>9. \A k \in Legs : /\ \A i \in 1 .. Len(wire[k]) : Faithful(wire[k][i], n)
                        /\ \A g \in copies[k] : Faithful(g, n)
    <3>1. \A k \in Legs : /\ \A i \in 1 .. Len(wire[k]) : wire[k][i] \in FrameRec
                          /\ \A g \in copies[k] : g \in FrameRec
      BY DEF ReattachInv, Typed
    <3> QED
      BY <2>8, <3>1 DEF ReattachInv, Frames
  <2>10. /\ wire' \in [Legs -> Seq(FrameRec)] /\ copies' \in [Legs -> SUBSET FrameRec]
         /\ Frames' /\ Chained' /\ Attempts'
    <3>1. CASE client.leg \notin alive
      <4>1. wire' = wire /\ copies' = copies
        BY <2>6, <3>1 DEF Send
      <4>2. Frames'
        BY <1>3, <2>2, <2>9, <4>1 DEF Frames
      <4>3. Chained' /\ Attempts'
        BY <1>1, <3>1, <4>1 DEF hostVars, ReattachInv, Chained, Reach, Attempts
      <4> QED
        BY <4>1, <4>2, <4>3 DEF ReattachInv, Typed
    <3>2. CASE client.leg \in alive
      <4>1. PICK l \in Legs : l = client.leg
        BY <2>1
      <4>2. typed <= Reach(l)
        <5>1. wire[l] # <<>> => wire[l][Len(wire[l])] \in FrameRec
          BY DEF ReattachInv, Typed
        <5>2. Reach(l) \in Nat
          BY <5>1 DEF Reach, ReattachInv, Typed, FrameRec
        <5> QED
          BY <2>1, <3>2, <4>1, <5>2 DEF ReattachInv, Chained
      <4>3. Send(l, f) /\ Start(f) \in Nat /\ Start(f) <= Reach(l) /\ l \in alive
        BY <2>1, <2>5, <2>6, <3>2, <4>1, <4>2
      <4>4. /\ wire' \in [Legs -> Seq(FrameRec)] /\ copies' \in [Legs -> SUBSET FrameRec]
            /\ \A k \in Legs : k # l => wire'[k] = wire[k] /\ copies'[k] = copies[k]
            /\ wire'[l] # <<>> /\ wire'[l][Len(wire'[l])] = f
            /\ Start(wire'[l][1]) <= acks[l]
            /\ \A i \in 1 .. Len(wire'[l]) - 1 : Start(wire'[l][i + 1]) <= wire'[l][i].seq
            /\ \A i \in 1 .. Len(wire'[l]) :
                  wire'[l][i] = f \/ \E j \in 1 .. Len(wire[l]) : wire'[l][i] = wire[l][j]
            /\ \A g \in copies'[l] : g = f \/ g \in copies[l]
        BY <2>5, <4>3, SendKeeps
      <4>5. Frames'
        BY <1>3, <2>2, <2>7, <2>9, <4>4 DEF Frames
      <4>6. client' = client /\ acks' = acks /\ alive' = alive /\ applied' = applied
        BY <1>1 DEF hostVars
      <4>7. Reach(l)' = n
        BY <2>5, <4>4 DEF Reach
      <4>8. Chained'
        <5>1. \A k \in Legs :
                 /\ wire'[k] # <<>> => Start(wire'[k][1]) <= acks'[k]
                 /\ \A i \in 1 .. Len(wire'[k]) - 1 : Start(wire'[k][i + 1]) <= wire'[k][i].seq
          BY <4>4, <4>6 DEF ReattachInv, Chained
        <5>2. Reach(client.leg)' >= typed'
          BY <1>3, <2>1, <2>2, <4>1, <4>6, <4>7 DEF Reach
        <5> QED
          BY <5>1, <5>2 DEF Chained
      <4>9. Attempts'
        <5>1. \A k \in Legs : k > client.leg => wire'[k] = <<>> /\ copies'[k] = {}
          <6>1. \A k \in Legs : k > client.leg => k # l
            BY <4>1, Constants
          <6>2. \A k \in Legs : k > client.leg => wire[k] = <<>> /\ copies[k] = {}
            BY DEF ReattachInv, Attempts
          <6>3. \A k \in Legs : k # l => wire'[k] = wire[k] /\ copies'[k] = copies[k]
            BY <4>4
          <6> QED
            BY <6>1, <6>2, <6>3
        <5> QED
          BY <4>6, <5>1 DEF ReattachInv, Attempts
      <4> QED
        BY <4>4, <4>5, <4>8, <4>9
    <3> QED
      BY <3>1, <3>2
  <2>11. /\ pending' \in PendingRec /\ pending'.sent = n /\ pending'.acked = pending.acked
         /\ pending'.buf = Run(pending.acked, n)
    <3>1. PICK a \in Nat : a = pending.acked
      BY <2>1
    <3>2. Append(Run(a, typed), typed + 1) = Run(a, typed + 1)
      BY <2>1, <3>1, RunGrows
    <3>3. Run(a, n) \in Seq(Nat)
      <4>1. a <= n
        BY <2>1, <2>2, <3>1
      <4> QED
        BY <4>1, RunSeq
    <3>4. pending' = [pending EXCEPT !.sent = n, !.buf = Run(a, n)]
      BY <1>3, <2>1, <2>2, <3>1, <3>2
    <3> QED
      BY <2>1, <2>2, <3>1, <3>3, <3>4 DEF PendingRec
  <2>12. Typed' /\ Buffered'
    <3>1. typed' = n /\ typed' \in Nat
      BY <1>3, <2>2
    <3>2. Typed'
      BY <1>1, <2>10, <2>11, <3>1 DEF hostVars, ReattachInv, Typed
    <3>3. pending.acked <= n
      BY <2>1, <2>2
    <3>4. Buffered'
      BY <2>11, <3>1, <3>3 DEF Buffered
    <3> QED
      BY <3>2, <3>4
  <2>13. Axes'
    BY <1>1, <1>3, <2>1, <2>11 DEF hostVars, ReattachInv, Axes, Recent, Kept, Typed
  <2>14. Leased' /\ AllDone' /\ Ordered' /\ NoByteSkipped'
    BY <1>1 DEF hostVars, ReattachInv, Leased, AllDone, Done, Ran, Ordered, WritersTakeTurns, NoByteSkipped, Recent, Kept
  <2> QED
    BY <2>10, <2>12, <2>13, <2>14 DEF ReattachInv
<1> QED
  BY <1>2, <1>3 DEF Type

\* The end of reattach: rebase, and send the tail on the new leg.
LEMMA ResendKeeps ==
  ASSUME ReattachInv, Resend
  PROVE  ReattachInv'
<1>1. /\ client.at = "opened" /\ client \in ClientRec /\ client.new \in Legs /\ client.leg \in Legs
      /\ typed \in Nat /\ pending \in PendingRec /\ pending.acked \in Nat /\ client.from \in Nat
      /\ UNCHANGED <<typed, alive, acks, hostVars, nextAxis, credAxis>>
  BY DEF Resend, ReattachInv, Typed, ClientRec, PendingRec
<1>2. PICK l \in Legs : l = client.new
  BY <1>1
<1>3. PICK o \in Nat : o = client.from
  BY <1>1
<1>4. /\ l \in Recent /\ l \in Kept /\ l \in DOMAIN applied /\ applied[l] \in Nat
      /\ client.leg < l /\ l \in Nat
  <2>1. client.leg < client.new /\ client.leg \in Nat /\ l \in Nat
    BY <1>1, <1>2, Constants DEF ReattachInv, Attempts
  <2>2. l \in Recent /\ l \in Kept
    BY <1>2, RecentIsKept DEF ReattachInv
  <2>3. l \in DOMAIN applied /\ applied[l] \in Nat
    BY <2>2 DEF ReattachInv, Axes, Typed
  <2> QED
    BY <1>2, <2>1, <2>2, <2>3
<1>5. /\ pending.acked <= o /\ o <= applied[l] /\ o <= typed /\ acks[l] = o
      /\ wire[l] = <<>> /\ copies[l] = {}
  <2>1. pending.acked <= o /\ o <= applied[l] /\ acks[l] = o /\ applied[l] <= typed
    BY <1>1, <1>2, <1>3, <1>4 DEF ReattachInv, Axes
  <2>2. wire[l] = <<>> /\ copies[l] = {}
    BY <1>1, <1>4, Constants DEF ReattachInv, Attempts
  <2> QED
    BY <1>1, <1>4, <2>1, <2>2
<1>6. PICK p : p = Rebased(pending, o)
  OBVIOUS
<1>7. p \in PendingRec /\ p.acked = o /\ p.sent = typed /\ p.buf = Run(o, typed)
  <2>1. pending.sent = typed /\ pending.buf = Run(pending.acked, typed)
    BY DEF ReattachInv, Buffered
  <2>2. Run(o, typed) \in Seq(Nat)
    BY <1>1, <1>5, RunIs
  <2>3. CASE o >= typed
    <3>1. o = typed
      BY <1>1, <1>5, <2>3
    <3>2. Run(o, typed) = <<>>
      BY <1>1, <3>1, RunIs
    <3>3. p = [acked |-> o, sent |-> o, buf |-> <<>>]
      BY <1>6, <2>1, <2>3 DEF Rebased
    <3> QED
      BY <1>1, <3>1, <3>2, <3>3 DEF PendingRec
  <2>4. CASE ~(o >= typed)
    <3>1. PICK a \in Nat : a = pending.acked
      BY <1>1
    <3>2. SubSeq(Run(a, typed), o - a + 1, Len(Run(a, typed))) = Run(o, typed)
      BY <1>1, <1>5, <3>1, RunDrops
    <3>3. p = [pending EXCEPT !.acked = o, !.buf = Run(o, typed)]
      BY <1>6, <2>1, <2>4, <3>1, <3>2 DEF Rebased
    <3> QED
      BY <1>1, <2>1, <2>2, <3>3 DEF PendingRec
  <2> QED
    BY <2>3, <2>4
<1>8. /\ pending' = p /\ client' = [client EXCEPT !.at = "up", !.leg = l]
      /\ IF p.buf = <<>> THEN UNCHANGED <<wire, copies>> ELSE Send(l, Frame(p.buf, p.sent))
  BY <1>1, <1>2, <1>3, <1>5, <1>6 DEF Resend
<1>9. client'.leg = l /\ client'.new = l /\ client'.at = "up" /\ client' \in ClientRec
  BY <1>1, <1>2, <1>8 DEF ClientRec
<1>10. /\ applied' = applied /\ lease' = lease /\ ran' = ran /\ refused' = refused
       /\ turn' = turn /\ takes' = takes /\ Recent' = {l} /\ Kept' = Kept
  BY <1>1, <1>2, <1>4, <1>9, Constants DEF hostVars, Recent, Kept
<1>11. /\ wire' \in [Legs -> Seq(FrameRec)] /\ copies' \in [Legs -> SUBSET FrameRec]
       /\ \A k \in Legs : k # l => wire'[k] = wire[k] /\ copies'[k] = copies[k]
       /\ l \in alive => Reach(l)' >= typed
       /\ wire'[l] # <<>> => Start(wire'[l][1]) <= acks[l]
       /\ \A i \in 1 .. Len(wire'[l]) - 1 : Start(wire'[l][i + 1]) <= wire'[l][i].seq
       /\ \A i \in 1 .. Len(wire'[l]) : Faithful(wire'[l][i], typed)
       /\ \A g \in copies'[l] : Faithful(g, typed)
  <2>1. CASE o = typed
    <3>1. wire' = wire /\ copies' = copies
      <4>1. p.buf = <<>>
        BY <1>1, <1>7, <2>1, RunIs
      <4> QED
        BY <1>8, <4>1
    <3>2. Reach(l)' = typed
      BY <1>1, <1>5, <2>1, <3>1 DEF Reach
    <3>3. wire \in [Legs -> Seq(FrameRec)] /\ copies \in [Legs -> SUBSET FrameRec]
      BY DEF ReattachInv, Typed
    <3> QED
      BY <1>1, <1>5, <3>1, <3>2, <3>3
  <2>2. CASE o # typed
    <3>1. o < typed
      BY <1>1, <1>5, <2>2
    <3>2. PICK f : f = Frame(Run(o, typed), typed)
      OBVIOUS
    <3>3. f \in FrameRec /\ f.seq = typed /\ Start(f) = o /\ Faithful(f, typed)
      BY <1>1, <3>1, <3>2, FrameMade
    <3>4. p.buf # <<>>
      <4>1. o \in Nat /\ typed \in Nat /\ o <= typed /\ o # typed
        BY <1>1, <2>2, <3>1
      <4> QED
        BY <1>7, <4>1, RunSeq
    <3>5. Send(l, f) /\ Start(f) \in Nat /\ Start(f) <= Reach(l)
      BY <1>5, <1>7, <1>8, <3>2, <3>3, <3>4 DEF Reach
    <3>6. /\ wire' \in [Legs -> Seq(FrameRec)] /\ copies' \in [Legs -> SUBSET FrameRec]
          /\ \A k \in Legs : k # l => wire'[k] = wire[k] /\ copies'[k] = copies[k]
          /\ l \in alive => wire'[l] # <<>> /\ wire'[l][Len(wire'[l])] = f
          /\ wire'[l] # <<>> => Start(wire'[l][1]) <= acks[l]
          /\ \A i \in 1 .. Len(wire'[l]) - 1 : Start(wire'[l][i + 1]) <= wire'[l][i].seq
          /\ \A i \in 1 .. Len(wire'[l]) :
                wire'[l][i] = f \/ \E j \in 1 .. Len(wire[l]) : wire'[l][i] = wire[l][j]
          /\ \A g \in copies'[l] : g = f \/ g \in copies[l]
      BY <3>3, <3>5, SendKeeps
    <3>7. l \in alive => Reach(l)' >= typed
      BY <1>1, <3>3, <3>6 DEF Reach
    <3>8. \A i \in 1 .. Len(wire'[l]) : wire'[l][i] = f
      BY <1>5, <3>6
    <3>9. \A g \in copies'[l] : g = f
      BY <1>5, <3>6
    <3> QED
      BY <3>3, <3>6, <3>7, <3>8, <3>9
  <2> QED
    BY <2>1, <2>2
<1>12. Typed' /\ Buffered'
  BY <1>1, <1>2, <1>5, <1>7, <1>8, <1>9, <1>10, <1>11 DEF ReattachInv, Typed, Buffered
<1>13. Frames'
  BY <1>1, <1>11 DEF ReattachInv, Frames
<1>14. Chained'
  <2>1. Reach(client.leg)' = Reach(l)'
    BY <1>9 DEF Reach
  <2> QED
    BY <1>1, <1>9, <1>11, <2>1 DEF ReattachInv, Chained
<1>15. Attempts'
  <2>1. \A k \in Legs : k > l => k # l /\ k > client.leg
    BY <1>1, <1>4, Constants
  <2>2. \A k \in Legs : k > l => wire'[k] = <<>> /\ copies'[k] = {}
    BY <1>11, <2>1 DEF ReattachInv, Attempts
  <2> QED
    BY <1>1, <1>2, <1>4, <1>9, <1>10, <2>2, Constants DEF ReattachInv, Attempts
<1>16. Axes' /\ Leased'
  <2>1. \A k \in DOMAIN applied' : applied'[k] <= typed'
    BY <1>1, <1>10 DEF ReattachInv, Axes
  <2>2. Axes'
    BY <1>1, <1>4, <1>5, <1>7, <1>8, <1>9, <1>10, <2>1 DEF ReattachInv, Axes
  <2> QED
    BY <1>10, <2>2 DEF ReattachInv, Leased
<1>17. AllDone' /\ NoByteSkipped'
  BY <1>1, <1>10 DEF ReattachInv, AllDone, Done, Ran, NoByteSkipped
<1>18. Ordered'
  BY <1>1, <1>2, <1>9, <1>10 DEF ReattachInv, Ordered, WritersTakeTurns
<1> QED
  BY <1>12, <1>13, <1>14, <1>15, <1>16, <1>17, <1>18 DEF ReattachInv

-----------------------------------------------------------------------------
(* The host reads a frame *)

LEMMA Concatenated ==
  ASSUME NEW S, NEW r \in Seq(S), NEW t \in Seq(S)
  PROVE  /\ r \o t \in Seq(S) /\ Len(r \o t) = Len(r) + Len(t)
         /\ \A i \in 1 .. Len(r) : (r \o t)[i] = r[i]
         /\ \A i \in Len(r) + 1 .. Len(r) + Len(t) : (r \o t)[i] = t[i - Len(r)]
<1>1. Len(r) \in Nat /\ Len(t) \in Nat
  OBVIOUS
<1>2. r \o t \in Seq(S) /\ Len(r \o t) = Len(r) + Len(t)
  OBVIOUS
<1>3. \A i \in 1 .. Len(r) : (r \o t)[i] = r[i]
  BY <1>1
<1>4. \A i \in Len(r) + 1 .. Len(r) + Len(t) : (r \o t)[i] = t[i - Len(r)]
  BY <1>1
<1> QED
  BY <1>2, <1>3, <1>4

\* The bytes after a, up to b, handed to the child on leg l.
LEMMA RanGrows ==
  ASSUME ran \in Seq(RanRec), NEW l \in Legs, NEW a \in Nat, NEW b \in Nat, a <= b,
         ran' = ran \o Bytes(l, Run(a, b))
  PROVE  /\ ran' \in Seq(RanRec) /\ Len(ran) \in Nat /\ Len(ran') = Len(ran) + (b - a)
         /\ \A i \in 1 .. Len(ran) : ran'[i] = ran[i]
         /\ \A i \in Len(ran) + 1 .. Len(ran') :
                ran'[i].leg = l /\ ran'[i].byte = a + (i - Len(ran))
<1>1. Len(Run(a, b)) = b - a /\ \A i \in 1 .. b - a : Run(a, b)[i] = a + i
  BY RunIs
<1> DEFINE s == Bytes(l, Run(a, b))
<1>2. s = [i \in 1 .. b - a |-> [leg |-> l, byte |-> a + i]]
  BY <1>1 DEF Bytes
<1>3. /\ s \in Seq(RanRec) /\ Len(s) = b - a
      /\ \A i \in 1 .. b - a : s[i] = [leg |-> l, byte |-> a + i]
  <2>1. PICK n \in Nat : n = b - a
    OBVIOUS
  <2>2. \A i \in 1 .. n : [leg |-> l, byte |-> a + i] \in RanRec
    BY DEF RanRec
  <2>3. s = [i \in 1 .. n |-> [leg |-> l, byte |-> a + i]]
    BY <1>2, <2>1
  <2> HIDE DEF s
  <2>4. s \in [1 .. n -> RanRec] /\ \A i \in 1 .. n : s[i] = [leg |-> l, byte |-> a + i]
    BY <2>2, <2>3
  <2>5. s \in Seq(RanRec) /\ Len(s) = n
    BY <2>4
  <2> QED
    BY <2>1, <2>4, <2>5
<1> HIDE DEF s
<1>4. ran' = ran \o s
  BY DEF s
<1>5. /\ ran' \in Seq(RanRec) /\ Len(ran) \in Nat /\ Len(ran') = Len(ran) + (b - a)
      /\ \A i \in 1 .. Len(ran) : ran'[i] = ran[i]
      /\ \A i \in Len(ran) + 1 .. Len(ran') : ran'[i] = s[i - Len(ran)]
  <2>1. PICK r \in Seq(RanRec) : r = ran
    OBVIOUS
  <2>2. Len(r) \in Nat /\ Len(s) \in Nat
    BY <1>3
  <2>3. /\ r \o s \in Seq(RanRec) /\ Len(r \o s) = Len(r) + Len(s)
        /\ \A i \in 1 .. Len(r) : (r \o s)[i] = r[i]
        /\ \A i \in Len(r) + 1 .. Len(r) + Len(s) : (r \o s)[i] = s[i - Len(r)]
    BY <1>3, Concatenated
  <2> QED
    BY <1>3, <1>4, <2>1, <2>2, <2>3
<1>6. \A i \in Len(ran) + 1 .. Len(ran') :
         ran'[i].leg = l /\ ran'[i].byte = a + (i - Len(ran))
  <2> SUFFICES ASSUME NEW i \in Len(ran) + 1 .. Len(ran')
               PROVE  ran'[i].leg = l /\ ran'[i].byte = a + (i - Len(ran))
    OBVIOUS
  <2>1. PICK j \in 1 .. b - a : j = i - Len(ran)
    <3>1. PICK n \in Nat : n = Len(ran)
      BY <1>5
    <3>2. i \in n + 1 .. n + (b - a)
      BY <1>5, <3>1
    <3>3. i - n \in 1 .. b - a
      BY <3>2
    <3> QED
      BY <3>1, <3>3
  <2>2. ran'[i] = s[j] /\ s[j] = [leg |-> l, byte |-> a + j]
    BY <1>3, <1>5, <2>1
  <2> QED
    BY <2>1, <2>2
<1> QED
  BY <1>5, <1>6

\* enqueue_write, on the axis of l and on the others.
LEMMA WriteIs ==
  ASSUME ReattachInv, NEW l \in Legs, l <= client.new, NEW f \in FrameRec, Faithful(f, typed),
         ~Gap(l, f), Write(l, f)
  PROVE  /\ DOMAIN applied' \subseteq DOMAIN applied \union {l}
         /\ \A k \in Kept : k \in DOMAIN applied'
         /\ \A k \in DOMAIN applied' : k # l => k \in DOMAIN applied /\ applied'[k] = applied[k]
         /\ l \in DOMAIN applied' =>
               applied'[l] = IF f.seq > AppliedOn(l) THEN f.seq ELSE AppliedOn(l)
         /\ \/ /\ lease # l /\ ran' = ran
               /\ refused' = refused \union (Start(f) + 1 .. f.seq)
            \/ /\ lease = l /\ l \in DOMAIN applied' /\ refused' = refused
               /\ \/ f.seq <= AppliedOn(l) /\ ran' = ran
                  \/ f.seq > AppliedOn(l) /\ ran' = ran \o Bytes(l, Run(AppliedOn(l), f.seq))
<1>1. /\ typed \in Nat /\ Start(f) \in Nat /\ f.seq \in Nat /\ Start(f) < f.seq /\ f.seq <= typed
      /\ f.data = Run(Start(f), f.seq) /\ Len(f.data) = f.seq - Start(f)
  BY FrameIs DEF ReattachInv, Typed
<1>2. CASE lease # l
  <2> DEFINE n == IF f.seq > AppliedOn(l) THEN f.seq ELSE AppliedOn(l)
  <2>1. applied' = Pruned(SetAxis(l, n)) /\ refused' = refused \union Elements(f.data) /\ ran' = ran
    BY <1>2 DEF Write
  <2> HIDE DEF n
  <2>2. Elements(f.data) = Start(f) + 1 .. f.seq
    <3>1. \A i \in 1 .. f.seq - Start(f) : f.data[i] = Start(f) + i
      <4>1. PICK st \in Nat, q \in Nat : st = Start(f) /\ q = f.seq
        BY <1>1
      <4>2. st <= q
        BY <1>1, <4>1
      <4>3. \A i \in 1 .. q - st : Run(st, q)[i] = st + i
        BY <4>2, RunIs
      <4> QED
        BY <1>1, <4>1, <4>3
    <3>2. ASSUME NEW b \in Start(f) + 1 .. f.seq PROVE b \in Elements(f.data)
      <4>1. b - Start(f) \in 1 .. Len(f.data) /\ f.data[b - Start(f)] = b
        BY <1>1, <3>1
      <4> QED
        BY <4>1 DEF Elements
    <3>3. \A b \in Elements(f.data) : b \in Start(f) + 1 .. f.seq
      BY <1>1, <3>1 DEF Elements
    <3> QED
      BY <3>2, <3>3
  <2>3. PICK x : x = SetAxis(l, n)
    OBVIOUS
  <2>4. /\ DOMAIN x = DOMAIN applied \union {l} /\ x[l] = n
        /\ \A k \in DOMAIN applied : k # l => x[k] = applied[k]
    <3>1. PICK m : m = n
      OBVIOUS
    <3>2. x = SetAxis(l, m)
      BY <2>3, <3>1
    <3>3. /\ DOMAIN x = DOMAIN applied \union {l} /\ x[l] = m
          /\ \A k \in DOMAIN applied : k # l => x[k] = applied[k]
      BY <3>2 DEF SetAxis
    <3> QED
      BY <3>1, <3>3
  <2>5. DOMAIN Pruned(x) \subseteq DOMAIN x /\ \A k \in DOMAIN Pruned(x) : Pruned(x)[k] = x[k]
    BY PrunedIs
  <2>6. ASSUME NEW k \in Kept PROVE k \in DOMAIN Pruned(x)
    <3>1. DOMAIN x \subseteq Legs /\ k \in DOMAIN x
      BY <2>4 DEF ReattachInv, Typed, Axes
    <3>2. client.new \in Nat /\ k \in Nat /\ client.new - k < MaxAxes
      BY Constants DEF Kept, ReattachInv, Typed, ClientRec
    <3>3. \A j \in DOMAIN x : j <= client.new
      <4>1. \A j \in DOMAIN applied : j \in Legs /\ ~(j > client.new)
        BY DEF ReattachInv, Attempts, Typed
      <4> QED
        BY <2>4, <3>2, <4>1, Constants
    <3> QED
      BY <3>1, <3>2, <3>3, PrunedKeeps
  <2> QED
    BY <1>2, <2>1, <2>2, <2>3, <2>4, <2>5, <2>6 DEF n
<1>3. CASE lease = l
  <2>1. AppliedOn(l) \in Nat
    BY DEF AppliedOn, ReattachInv, Typed
  <2>3. PICK a \in Nat : a = AppliedOn(l)
    BY <2>1
  <2>4. PICK st \in Nat : st = Start(f)
    BY <1>1
  <2>5. st <= a /\ refused' = refused
    <3>1. ~(Start(f) > a)
      BY <1>3, <2>3 DEF Gap
    <3>2. refused' = refused
      BY <1>3 DEF Write
    <3> QED
      BY <2>4, <3>1, <3>2
  <2>6. (a - st >= Len(f.data)) <=> (f.seq <= a)
    BY <1>1, <2>4, <2>5
  <2>7. CASE f.seq <= a
    <3>1. applied' = applied /\ ran' = ran
      BY <1>3, <2>3, <2>4, <2>6, <2>7 DEF Write, Start
    <3>2. \A k \in Kept : k \in DOMAIN applied
      BY DEF ReattachInv, Axes
    <3>3. l \in DOMAIN applied' /\ applied'[l] = a
      <4>1. a # 0
        BY <1>1, <2>7
      <4> QED
        BY <2>3, <3>1, <4>1 DEF AppliedOn
    <3> QED
      BY <1>1, <1>3, <2>3, <2>5, <2>7, <3>1, <3>2, <3>3
  <2>8. CASE ~(f.seq <= a)
    <3>1. /\ applied' = SetAxis(l, f.seq)
          /\ ran' = ran \o Bytes(l, SubSeq(f.data, a - st + 1, Len(f.data)))
      BY <1>3, <2>3, <2>4, <2>6, <2>8 DEF Write, Start
    <3>2. SubSeq(Run(st, f.seq), a - st + 1, Len(Run(st, f.seq))) = Run(a, f.seq)
      <4>1. PICK q \in Nat : q = f.seq
        BY <1>1
      <4>2. st <= a /\ a <= q
        BY <2>5, <2>8, <4>1
      <4>3. SubSeq(Run(st, q), a - st + 1, Len(Run(st, q))) = Run(a, q)
        BY <4>2, RunDrops
      <4> QED
        BY <4>1, <4>3
    <3>3. ran' = ran \o Bytes(l, Run(a, f.seq))
      BY <1>1, <2>4, <3>1, <3>2
    <3>4. /\ DOMAIN applied' = DOMAIN applied \union {l} /\ applied'[l] = f.seq
          /\ \A k \in DOMAIN applied : k # l => applied'[k] = applied[k]
      <4>1. PICK m : m = f.seq
        OBVIOUS
      <4>2. applied' = SetAxis(l, m)
        BY <3>1, <4>1
      <4>3. /\ DOMAIN SetAxis(l, m) = DOMAIN applied \union {l} /\ SetAxis(l, m)[l] = m
            /\ \A k \in DOMAIN applied : k # l => SetAxis(l, m)[k] = applied[k]
        BY DEF SetAxis
      <4> QED
        BY <4>1, <4>2, <4>3
    <3>5. \A k \in Kept : k \in DOMAIN applied
      BY DEF ReattachInv, Axes
    <3> QED
      BY <1>1, <1>3, <2>3, <2>5, <2>8, <3>3, <3>4, <3>5
  <2> QED
    BY <2>7, <2>8
<1> QED
  BY <1>2, <1>3

\* What the child has and what was refused after a write: nothing is undone, the
\* frame's bytes are done, and the child's input stays in order and whole.
LEMMA RunIsKept ==
  ASSUME ReattachInv, NEW l \in Legs, l <= client.new, NEW f \in FrameRec, Faithful(f, typed),
         Start(f) <= acks[l], ~Gap(l, f), Write(l, f),
         UNCHANGED <<client, lease, turn, takes, nextAxis>>
  PROVE  /\ ran' \in Seq(RanRec)
         /\ \A b : b \in Ran \union refused => b \in (Ran \union refused)'
         /\ \A b \in 1 .. f.seq : b \in (Ran \union refused)'
         /\ Ordered' /\ NoByteSkipped'
<1>1. /\ \A k \in Kept : k \in DOMAIN applied'
      /\ \A k \in DOMAIN applied' : k # l => k \in DOMAIN applied /\ applied'[k] = applied[k]
      /\ l \in DOMAIN applied' =>
            applied'[l] = IF f.seq > AppliedOn(l) THEN f.seq ELSE AppliedOn(l)
      /\ \/ /\ lease # l /\ ran' = ran
            /\ refused' = refused \union (Start(f) + 1 .. f.seq)
         \/ /\ lease = l /\ l \in DOMAIN applied' /\ refused' = refused
            /\ \/ f.seq <= AppliedOn(l) /\ ran' = ran
               \/ f.seq > AppliedOn(l) /\ ran' = ran \o Bytes(l, Run(AppliedOn(l), f.seq))
  BY WriteIs
<1>2. typed \in Nat /\ Start(f) \in Nat /\ f.seq \in Nat /\ Start(f) < f.seq
  BY FrameIs DEF ReattachInv, Typed
<1>3. /\ ran \in Seq(RanRec) /\ Len(ran) \in Nat /\ acks[l] \in Nat
      /\ \A i \in 1 .. Len(ran) : ran[i].leg \in Legs /\ ran[i].byte \in Nat
  <2>1. ran \in Seq(RanRec) /\ acks[l] \in Nat
    BY DEF ReattachInv, Typed
  <2>2. \A i \in 1 .. Len(ran) : ran[i] \in RanRec
    BY <2>1
  <2> QED
    BY <2>1, <2>2 DEF RanRec
<1>4. Kept' = Kept
  BY DEF Kept
<1>10. AppliedOn(l) \in Nat /\ \A c \in 1 .. AppliedOn(l) : c \in Ran \union refused
  <2>1. CASE l \in DOMAIN applied
    BY <2>1 DEF AppliedOn, ReattachInv, Typed, AllDone, Done
  <2>2. CASE l \notin DOMAIN applied
    BY <2>2 DEF AppliedOn
  <2> QED
    BY <2>1, <2>2
<1>5. \A k \in Kept : k \in DOMAIN applied /\ applied[k] \in Nat /\ applied'[k] \in Nat /\ applied[k] <= applied'[k]
  <2> SUFFICES ASSUME NEW k \in Kept
               PROVE  k \in DOMAIN applied /\ applied[k] \in Nat /\ applied'[k] \in Nat /\ applied[k] <= applied'[k]
    OBVIOUS
  <2>1. k \in DOMAIN applied /\ applied[k] \in Nat /\ k \in DOMAIN applied'
    BY <1>1 DEF ReattachInv, Axes, Typed
  <2>2. CASE k # l
    BY <1>1, <2>1, <2>2
  <2>3. CASE k = l
    BY <1>1, <1>2, <2>1, <2>3 DEF AppliedOn
  <2> QED
    BY <2>2, <2>3
<1>6. \A i \in 1 .. Len(ran) :
         /\ ran[i].leg <= client.new
         /\ turn[ran[i].leg] # 0
         /\ ran[i].leg \in Kept => ran[i].byte <= applied[ran[i].leg] /\ ran[i].byte <= applied'[ran[i].leg]
  <2>1. \A i \in 1 .. Len(ran) :
         /\ ran[i].leg <= client.new
         /\ turn[ran[i].leg] # 0
         /\ ran[i].leg \in Kept => ran[i].byte <= applied[ran[i].leg]
    BY DEF ReattachInv, Ordered
  <2>2. \A i \in 1 .. Len(ran) : ran[i].leg \in Kept => ran[i].byte <= applied'[ran[i].leg]
    <3> SUFFICES ASSUME NEW i \in 1 .. Len(ran), ran[i].leg \in Kept
                 PROVE  ran[i].byte <= applied'[ran[i].leg]
      OBVIOUS
    <3>1. PICK k \in Kept : k = ran[i].leg
      OBVIOUS
    <3>2. ran[i].byte <= applied[k] /\ applied[k] <= applied'[k] /\ applied[k] \in Nat /\ applied'[k] \in Nat
          /\ ran[i].byte \in Nat
      BY <1>3, <1>5, <2>1, <3>1
    <3> QED
      BY <3>1, <3>2
  <2> QED
    BY <2>1, <2>2
<1>7. WritersTakeTurns /\ NoByteSkipped
  BY DEF ReattachInv, Ordered
<1>8. CASE ran' = ran
  <2>1. refused \subseteq refused' /\ Ran' = Ran
    BY <1>1, <1>8 DEF Ran
  <2>2. ASSUME NEW b \in 1 .. f.seq PROVE b \in Ran \union refused'
    <3>1. CASE lease # l
      <4>1. \A c \in 1 .. acks[l] : c \in Ran \union refused
        BY DEF ReattachInv, AllDone, Done
      <4>2. refused' = refused \union (Start(f) + 1 .. f.seq)
        BY <1>1, <3>1
      <4> QED
        BY <1>2, <1>3, <4>1, <4>2
    <3>2. CASE lease = l
      <4>1. \/ f.seq <= AppliedOn(l)
            \/ f.seq > AppliedOn(l) /\ ran' = ran \o Bytes(l, Run(AppliedOn(l), f.seq))
        BY ONLY <1>1, <3>2
      <4>2. PICK a \in Nat : a = AppliedOn(l)
        BY <1>10
      <4>3. f.seq <= a
        <5> SUFFICES ASSUME f.seq > a, ran' = ran \o Bytes(l, Run(a, f.seq)) PROVE FALSE
          BY <1>2, <4>1, <4>2
        <5>1. PICK q \in Nat : q = f.seq
          BY <1>2
        <5>2. a <= q /\ ran' = ran \o Bytes(l, Run(a, q))
          BY <5>1
        <5>3. Len(ran') = Len(ran) + (q - a)
          BY <1>3, <5>2, RanGrows
        <5> QED
          BY <1>3, <1>8, <5>1, <5>3
      <4>4. \A c \in 1 .. a : c \in Ran \union refused
        BY <1>10, <4>2
      <4> QED
        BY <1>2, <2>1, <4>3, <4>4
    <3> QED
      BY <3>1, <3>2
  <2>3. Ordered'
    BY <1>4, <1>6, <1>7, <1>8 DEF Ordered, WritersTakeTurns
  <2>4. NoByteSkipped'
    BY <1>7, <1>8, <2>1 DEF NoByteSkipped
  <2> QED
    BY <1>3, <1>8, <2>1, <2>2, <2>3, <2>4
<1>9. CASE ran' # ran
  <2>1. lease = l /\ l \in DOMAIN applied' /\ refused' = refused
    BY <1>1, <1>9
  <2>2. PICK a \in Nat, q \in Nat : a = AppliedOn(l) /\ q = f.seq
    BY <1>2, <1>10
  <2>3. a < q /\ a <= q /\ ran' = ran \o Bytes(l, Run(a, q))
    BY <1>1, <1>9, <2>1, <2>2
  <2>4. PICK n \in Nat : n = Len(ran)
    BY <1>3
  <2>5. /\ ran' \in Seq(RanRec) /\ Len(ran') = n + (q - a)
        /\ \A i \in 1 .. n : ran'[i] = ran[i]
        /\ \A i \in n + 1 .. n + (q - a) : ran'[i].leg = l /\ ran'[i].byte = a + (i - n)
    <3>1. /\ ran' \in Seq(RanRec) /\ Len(ran') = Len(ran) + (q - a)
          /\ \A i \in 1 .. Len(ran) : ran'[i] = ran[i]
          /\ \A i \in Len(ran) + 1 .. Len(ran') :
                ran'[i].leg = l /\ ran'[i].byte = a + (i - Len(ran))
      <4>1. /\ ran \in Seq(RanRec) /\ a \in Nat /\ q \in Nat /\ a <= q
            /\ ran' = ran \o Bytes(l, Run(a, q))
        BY <1>3, <2>3
      <4> QED
        BY <4>1, RanGrows
    <3> QED
      BY <2>4, <3>1
  <2>6. \A b \in Ran : b \in Ran'
    <3>1. \A i \in 1 .. n : i \in 1 .. Len(ran')
      BY <2>3, <2>5
    <3> QED
      BY <2>4, <2>5, <3>1 DEF Ran
  <2>7. ASSUME NEW b \in a + 1 .. q PROVE n + (b - a) \in n + 1 .. n + (q - a) /\ ran'[n + (b - a)].byte = b
    <3>1. PICK i \in n + 1 .. n + (q - a) : i = n + (b - a)
      OBVIOUS
    <3>2. ran'[i].byte = a + (i - n)
      BY <2>5
    <3> QED
      BY <3>1, <3>2
  <2>8. \A b \in 1 .. a : b \in refused \/ \E j \in 1 .. n : ran[j].byte = b
    <3>1. \A b \in 1 .. a : b \in Ran \union refused
      BY <1>10, <2>2
    <3> QED
      BY <2>4, <3>1 DEF Ran
  <2>9. ASSUME NEW b \in 1 .. q PROVE b \in (Ran \union refused)'
    <3>1. CASE b <= a
      <4>1. b \in refused \/ b \in Ran
        BY <2>4, <2>8, <3>1 DEF Ran
      <4> QED
        BY <2>1, <2>6, <4>1
    <3>2. CASE ~(b <= a)
      <4>1. PICK i \in n + 1 .. n + (q - a) : ran'[i].byte = b
        BY <2>7, <3>2
      <4> QED
        BY <2>5, <4>1 DEF Ran
    <3> QED
      BY <3>1, <3>2
  <2>10. q = applied'[l]
    BY <1>1, <2>1, <2>2, <2>3
  <2>11. ASSUME NEW i \in 1 .. n + (q - a)
         PROVE  \/ i \in 1 .. n /\ ran'[i] = ran[i]
                \/ /\ i \in n + 1 .. n + (q - a) /\ ran'[i].leg = l
                   /\ ran'[i].byte = a + (i - n) /\ ran'[i].byte <= q
    <3>1. CASE i <= n
      <4>1. i \in 1 .. n
        BY <3>1
      <4> QED
        BY <2>5, <4>1
    <3>2. CASE ~(i <= n)
      <4>1. i \in n + 1 .. n + (q - a) /\ a + (i - n) <= q
        BY <3>2
      <4> QED
        BY <2>5, <4>1
    <3> QED
      BY <3>1, <3>2
  <2>17. turn[l] = takes /\ turn[l] # 0 /\ l \in Nat
    BY <2>1, Constants DEF ReattachInv, Leased
  <2>12. \A i \in 1 .. n + (q - a) :
            /\ ran'[i].leg <= client.new
            /\ turn[ran'[i].leg] # 0
            /\ ran'[i].leg \in Kept => ran'[i].byte <= applied'[ran'[i].leg]
    <3> SUFFICES ASSUME NEW i \in 1 .. n + (q - a)
                 PROVE  /\ ran'[i].leg <= client.new
                        /\ turn[ran'[i].leg] # 0
                        /\ ran'[i].leg \in Kept => ran'[i].byte <= applied'[ran'[i].leg]
      OBVIOUS
    <3>1. CASE i \in 1 .. n /\ ran'[i] = ran[i]
      BY <1>6, <2>4, <3>1
    <3>2. CASE ran'[i].leg = l /\ ran'[i].byte <= q
      BY <2>10, <2>17, <3>2
    <3> QED
      BY <2>11, <3>1, <3>2
  <2>13. ASSUME NEW i \in 1 .. n + (q - a), NEW j \in 1 .. n + (q - a), i < j
         PROVE  \/ turn[ran'[i].leg] < turn[ran'[j].leg]
                \/ /\ ran'[i].leg = ran'[j].leg
                   /\ ran'[i].byte < ran'[j].byte \/ ran'[i].leg + MaxAxes < nextAxis
    <3>1. CASE j \in 1 .. n
      <4>1. i \in 1 .. n
        BY <2>13, <3>1
      <4>2. ran'[i] = ran[i] /\ ran'[j] = ran[j]
        BY <2>5, <3>1, <4>1
      <4>3. \/ turn[ran[i].leg] < turn[ran[j].leg]
            \/ /\ ran[i].leg = ran[j].leg
               /\ ran[i].byte < ran[j].byte \/ ran[i].leg + MaxAxes < nextAxis
        BY <1>7, <2>4, <2>13, <3>1, <4>1 DEF WritersTakeTurns
      <4> QED
        BY <4>2, <4>3
    <3>2. CASE j \notin 1 .. n
      <4>1. j \in n + 1 .. n + (q - a) /\ ran'[j].leg = l /\ ran'[j].byte = a + (j - n)
        BY <2>11, <3>2
      <4>2. CASE i \in 1 .. n
        <5>1. PICK k \in Legs, b \in Nat : k = ran'[i].leg /\ b = ran'[i].byte
          BY <1>3, <2>4, <2>5, <4>2
        <5>2. /\ turn[k] # 0 /\ turn[k] \in Nat /\ turn[k] <= takes /\ takes \in Nat
              /\ turn[k] = turn[l] => k = l
          BY <1>6, <2>4, <2>5, <4>2, <5>1 DEF ReattachInv, Leased, Typed
        <5>3. turn[k] < turn[l] \/ k = l
          BY <2>17, <5>2
        <5>4. k = l => b <= a \/ l + MaxAxes < nextAxis
          <6>1. CASE l \in Kept
            <7>1. a = applied[l]
              BY <1>5, <2>2, <6>1 DEF AppliedOn
            <7>2. k = l => b <= applied[l]
              <8>1. ran'[i] = ran[i] /\ i \in 1 .. Len(ran)
                BY <2>4, <2>5, <4>2
              <8>2. ran[i].leg \in Kept => ran[i].byte <= applied[ran[i].leg]
                BY <1>6, <8>1
              <8>3. k = ran[i].leg /\ b = ran[i].byte
                BY <5>1, <8>1
              <8> QED
                BY <6>1, <8>2, <8>3
            <7> QED
              BY <7>1, <7>2
          <6>2. CASE l \notin Kept
            <7>1. client.new \in Nat /\ nextAxis = client.new + 1
              BY Constants DEF ReattachInv, Typed, ClientRec
            <7>2. ~(client.new - l < MaxAxes)
              BY <6>2 DEF Kept
            <7> QED
              BY <2>17, <7>1, <7>2, Constants
          <6> QED
            BY <6>1, <6>2
        <5>5. b <= a => b < ran'[j].byte
          BY <4>1, <5>1
        <5>6. CASE turn[k] < turn[l]
          BY <4>1, <5>1, <5>6
        <5>7. CASE k = l
          BY <4>1, <5>1, <5>4, <5>5, <5>7
        <5> QED
          BY <5>3, <5>6, <5>7
      <4>3. CASE i \notin 1 .. n
        <5>1. ran'[i].leg = l /\ ran'[i].byte = a + (i - n)
          BY <2>11, <4>3
        <5>2. a + (i - n) < a + (j - n)
          BY <2>13
        <5> QED
          BY <4>1, <5>1, <5>2
      <4> QED
        BY <4>2, <4>3
    <3> QED
      BY <3>1, <3>2
  <2>14. Ordered'
    <3>1. client' = client /\ turn' = turn /\ nextAxis' = nextAxis
      OBVIOUS
    <3> QED
      BY <1>4, <2>5, <2>12, <2>13, <3>1 DEF Ordered, WritersTakeTurns
  <2>15. ASSUME NEW i \in 1 .. n + (q - a), NEW b \in 1 .. ran'[i].byte - 1
         PROVE  b \in refused \/ \E j \in 1 .. i - 1 : ran'[j].byte = b
    <3>1. CASE i \in 1 .. n
      <4>1. ran'[i] = ran[i] /\ b \in 1 .. ran[i].byte - 1
        BY <2>5, <3>1
      <4>2. b \in refused \/ \E j \in 1 .. i - 1 : ran[j].byte = b
        BY <1>7, <2>4, <3>1, <4>1 DEF NoByteSkipped
      <4>3. \A j \in 1 .. i - 1 : ran'[j] = ran[j]
        BY <2>5, <3>1
      <4> QED
        BY <4>2, <4>3
    <3>2. CASE i \notin 1 .. n
      <4>1. i \in n + 1 .. n + (q - a) /\ ran'[i].byte = a + (i - n)
        BY <2>11, <3>2
      <4>2. CASE b <= a
        <5>1. \A j \in 1 .. n : ran'[j] = ran[j] /\ j \in 1 .. i - 1
          BY <2>5, <4>1
        <5>2. b \in 1 .. a
          BY <4>1, <4>2
        <5> QED
          BY <2>8, <5>1, <5>2
      <4>3. CASE ~(b <= a)
        <5>1. b \in a + 1 .. q /\ b < a + (i - n)
          BY <4>1, <4>3
        <5>2. n + (b - a) \in 1 .. i - 1
          BY <4>1, <5>1
        <5> QED
          BY <2>7, <5>1, <5>2
      <4> QED
        BY <4>1, <4>2, <4>3
    <3> QED
      BY <3>1, <3>2
  <2>16. NoByteSkipped'
    BY <2>1, <2>5, <2>15 DEF NoByteSkipped
  <2> QED
    BY <2>1, <2>2, <2>5, <2>6, <2>9, <2>14, <2>16
<1> QED
  BY <1>8, <1>9

\* A write on leg l, and the offset n it is answered with.
LEMMA WriteKeeps ==
  ASSUME ReattachInv, NEW l \in Legs, l <= client.leg, NEW f \in FrameRec, Faithful(f, typed),
         Start(f) <= acks[l], ~Gap(l, f), Write(l, f), NEW n,
         UNCHANGED <<typed, client, pending, pumping, alive, lease, turn, takes, nextAxis, credAxis>>,
         acks' = [acks EXCEPT ![l] = n],
         \/ lease = l /\ n = applied'[l]
         \/ lease # l /\ n = IF f.seq > acks[l] THEN f.seq ELSE acks[l]
         \/ lease # l /\ n = acks[l]
  PROVE  /\ n \in Nat /\ (lease = l => f.seq <= n) /\ (lease # l => acks[l] <= n)
         /\ acks' \in [Legs -> Nat] /\ acks'[l] = n /\ \A k \in Legs : k # l => acks'[k] = acks[k]
         /\ DOMAIN applied' \subseteq Legs /\ \A k \in DOMAIN applied' : applied'[k] \in Nat
         /\ \A k \in Legs : k > client.new => acks'[k] = 0 /\ k \notin DOMAIN applied'
         /\ ran' \in Seq(RanRec)
         /\ Buffered' /\ Axes' /\ AllDone' /\ Leased' /\ Ordered' /\ NoByteSkipped'
<1>1. /\ client \in ClientRec /\ client.leg \in Legs /\ client.new \in Legs /\ typed \in Nat
      /\ acks \in [Legs -> Nat] /\ acks[l] \in Nat
      /\ client.leg \in Nat /\ client.new \in Nat /\ l \in Nat /\ client.leg <= client.new
  BY Constants DEF ReattachInv, Typed, ClientRec, Attempts
<1>2. l <= client.new
  BY <1>1
<1>3. /\ DOMAIN applied' \subseteq DOMAIN applied \union {l}
      /\ \A k \in Kept : k \in DOMAIN applied'
      /\ \A k \in DOMAIN applied' : k # l => k \in DOMAIN applied /\ applied'[k] = applied[k]
      /\ l \in DOMAIN applied' =>
            applied'[l] = IF f.seq > AppliedOn(l) THEN f.seq ELSE AppliedOn(l)
      /\ lease = l => l \in DOMAIN applied'
  BY <1>2, WriteIs
<1>4. /\ ran' \in Seq(RanRec)
      /\ \A b : b \in Ran \union refused => b \in (Ran \union refused)'
      /\ \A b \in 1 .. f.seq : b \in (Ran \union refused)'
      /\ Ordered' /\ NoByteSkipped'
  BY <1>2, RunIsKept
<1>5. f.seq \in Nat /\ f.seq <= typed
  BY <1>1, FrameIs
<1>6. Recent' = Recent /\ Kept' = Kept
  BY DEF Recent, Kept
<1>7. /\ AppliedOn(l) \in Nat /\ AppliedOn(l) <= typed
      /\ \A b \in 1 .. AppliedOn(l) : b \in Ran \union refused
  <2>1. CASE l \in DOMAIN applied
    BY <2>1 DEF AppliedOn, ReattachInv, Typed, Axes, AllDone, Done
  <2>2. CASE l \notin DOMAIN applied
    BY <1>1, <2>2 DEF AppliedOn
  <2> QED
    BY <2>1, <2>2
<1>8. l \in DOMAIN applied' =>
         /\ applied'[l] \in Nat /\ applied'[l] <= typed
         /\ f.seq <= applied'[l] /\ AppliedOn(l) <= applied'[l]
         /\ \A b \in 1 .. applied'[l] : b \in (Ran \union refused)'
  <2>1. CASE f.seq > AppliedOn(l)
    BY <1>3, <1>4, <1>5, <1>7, <2>1
  <2>2. CASE ~(f.seq > AppliedOn(l))
    BY <1>3, <1>4, <1>5, <1>7, <2>2
  <2> QED
    BY <2>1, <2>2
<1>9. /\ DOMAIN applied' \subseteq Legs
      /\ \A k \in DOMAIN applied' : applied'[k] \in Nat /\ applied'[k] <= typed
  <2>1. DOMAIN applied \subseteq Legs /\ \A k \in DOMAIN applied : applied[k] \in Nat /\ applied[k] <= typed
    BY DEF ReattachInv, Typed, Axes
  <2> QED
    BY <1>3, <1>8, <2>1
<1>10. l \in Kept => /\ l \in DOMAIN applied' /\ applied'[l] \in Nat /\ f.seq <= applied'[l]
                     /\ acks[l] <= applied[l] /\ applied[l] <= applied'[l] /\ applied[l] \in Nat
                     /\ acks[l] <= applied'[l]
  <2>1. l \in Kept => l \in DOMAIN applied /\ acks[l] <= applied[l] /\ applied[l] \in Nat
    BY DEF ReattachInv, Axes, Typed
  <2>2. l \in Kept => l \in DOMAIN applied' /\ AppliedOn(l) = applied[l]
    BY <1>3, <2>1 DEF AppliedOn
  <2> QED
    BY <1>1, <1>8, <2>1, <2>2
<1>11. /\ n \in Nat /\ (lease = l => f.seq <= n) /\ (lease # l => acks[l] <= n)
       /\ l \in Kept => n <= applied'[l]
  BY <1>1, <1>3, <1>5, <1>8, <1>10
<1>12. \A b \in 1 .. n : b \in (Ran \union refused)'
  <2>1. CASE lease = l
    BY <1>3, <1>8, <2>1
  <2>2. CASE lease # l
    <3>1. \A b \in 1 .. acks[l] : b \in Ran \union refused
      BY DEF ReattachInv, AllDone, Done
    <3> QED
      BY <1>4, <2>2, <3>1
  <2> QED
    BY <2>1, <2>2
<1>13. acks' \in [Legs -> Nat] /\ acks'[l] = n /\ \A k \in Legs : k # l => acks'[k] = acks[k]
  BY <1>1, <1>11
<1>14. \A k \in Legs : k > client.new => acks'[k] = 0 /\ k \notin DOMAIN applied'
  <2>1. \A k \in Legs : k > client.new => k # l
    BY <1>1, <1>2, Constants
  <2>2. \A k \in Legs : k > client.new => acks[k] = 0 /\ k \notin DOMAIN applied
    BY DEF ReattachInv, Attempts
  <2> QED
    BY <1>3, <1>13, <2>1, <2>2
<1>15. Buffered' /\ Leased'
  BY <1>6 DEF ReattachInv, Buffered, Leased
<1>16. \A k \in Kept : /\ applied[k] \in Nat /\ k \in DOMAIN applied' /\ applied'[k] \in Nat
                       /\ applied[k] <= applied'[k]
  <2> SUFFICES ASSUME NEW k \in Kept
               PROVE  /\ applied[k] \in Nat /\ k \in DOMAIN applied' /\ applied'[k] \in Nat
                      /\ applied[k] <= applied'[k]
    OBVIOUS
  <2>1. CASE k = l
    BY <1>10, <2>1
  <2>2. CASE k # l
    BY <1>3, <1>9, <2>2
  <2> QED
    BY <2>1, <2>2
<1>21. Recent \subseteq Kept /\ client.new \in Recent
  BY RecentIsKept DEF ReattachInv
<1>17. Axes'
  <2>1. pending' = pending /\ client' = client /\ typed' = typed /\ pending.acked \in Nat
    BY DEF ReattachInv, Typed, PendingRec
  <2>2. ASSUME NEW k \in Kept PROVE k \in DOMAIN applied' /\ acks'[k] <= applied'[k]
    <3>1. acks[k] <= applied[k] /\ k \in Legs
      BY DEF ReattachInv, Axes, Kept
    <3>2. CASE k = l
      BY <1>11, <1>13, <1>16, <3>2
    <3>3. CASE k # l
      BY <1>3, <1>13, <1>16, <3>1, <3>3
    <3> QED
      BY <3>2, <3>3
  <2>3. ASSUME NEW k \in Recent PROVE pending.acked <= applied'[k]
    <3>1. pending.acked <= applied[k]
      BY DEF ReattachInv, Axes
    <3> QED
      BY <1>16, <1>21, <2>1, <3>1
  <2>4. client.at \in {"seeded", "opened"} =>
          /\ pending.acked <= client.from /\ client.from <= applied'[client.new]
          /\ acks'[client.new] = client.from
    <3>1. client.at \in {"seeded", "opened"} =>
            /\ pending.acked <= client.from /\ client.from <= applied[client.new]
            /\ acks[client.new] = client.from /\ client.leg < client.new
      BY DEF ReattachInv, Axes, Attempts
    <3>2. client.from \in Nat
      BY <1>1 DEF ClientRec
    <3> QED
      BY <1>1, <1>13, <1>16, <1>21, <3>1, <3>2
  <2> QED
    BY <1>6, <1>9, <2>1, <2>2, <2>3, <2>4 DEF Axes
<1>18. AllDone'
  <2>1. \A k \in DOMAIN applied' : \A b \in 1 .. applied'[k] : b \in (Ran \union refused)'
    <3>1. \A k \in DOMAIN applied : \A b \in 1 .. applied[k] : b \in Ran \union refused
      BY DEF ReattachInv, AllDone, Done
    <3> QED
      BY <1>3, <1>4, <1>8, <3>1
  <2>2. \A k \in Legs : \A b \in 1 .. acks'[k] : b \in (Ran \union refused)'
    <3>1. \A k \in Legs : \A b \in 1 .. acks[k] : b \in Ran \union refused
      BY DEF ReattachInv, AllDone, Done
    <3> QED
      BY <1>4, <1>12, <1>13, <3>1
  <2> QED
    BY <2>1, <2>2 DEF AllDone, Done
<1> QED
  BY <1>4, <1>9, <1>11, <1>13, <1>14, <1>15, <1>17, <1>18

LEMMA TailIs ==
  ASSUME NEW S, NEW s \in Seq(S), s # <<>>
  PROVE  /\ Len(s) \in Nat /\ Len(s) >= 1 /\ Head(s) = s[1] /\ Head(s) \in S
         /\ Tail(s) \in Seq(S) /\ Len(Tail(s)) = Len(s) - 1
         /\ \A i \in 1 .. Len(s) - 1 : Tail(s)[i] = s[i + 1]
         /\ Tail(s) = <<>> <=> Len(s) = 1
<1>1. Len(s) \in Nat /\ Len(s) >= 1 /\ Head(s) = s[1] /\ Head(s) \in S
  OBVIOUS
<1>2. Tail(s) \in Seq(S) /\ Len(Tail(s)) = Len(s) - 1
  OBVIOUS
<1>3. \A i \in 1 .. Len(s) - 1 : Tail(s)[i] = s[i + 1]
  OBVIOUS
<1>4. Tail(s) = <<>> <=> Len(s) = 1
  <2>1. PICK t \in Seq(S) : t = Tail(s)
    BY <1>2
  <2>2. t = <<>> <=> Len(t) = 0
    OBVIOUS
  <2> QED
    BY <1>1, <1>2, <2>1, <2>2
<1> QED
  BY <1>1, <1>2, <1>3, <1>4

\* input_pump reads the next frame.  On the leg in use, as on every leg whose axis
\* is remembered, it finds no gap.
LEMMA StreamInputKeeps ==
  ASSUME ReattachInv, NEW l \in Legs, StreamInput(l)
  PROVE  ReattachInv'
<1>1. PICK s \in Seq(FrameRec) : s = wire[l]
  BY DEF ReattachInv, Typed
<1>2. /\ s # <<>> /\ l \in alive
      /\ UNCHANGED <<typed, pending, pumping, lease, turn, takes, nextAxis, credAxis>>
  BY <1>1 DEF StreamInput
<1>3. PICK f \in FrameRec : f = Head(s)
  BY <1>2, TailIs
<1>4. /\ Len(s) \in Nat /\ Len(s) >= 1 /\ f = s[1]
      /\ Tail(s) \in Seq(FrameRec) /\ Len(Tail(s)) = Len(s) - 1
      /\ \A i \in 1 .. Len(s) - 1 : Tail(s)[i] = s[i + 1]
      /\ Tail(s) = <<>> <=> Len(s) = 1
  BY <1>2, <1>3, TailIs
<1>5. /\ client \in ClientRec /\ client.leg \in Legs /\ client.new \in Legs /\ typed \in Nat
      /\ client.leg \in Nat /\ client.new \in Nat /\ l \in Nat /\ client.leg <= client.new
      /\ acks[l] \in Nat
  BY Constants DEF ReattachInv, Typed, ClientRec, Attempts
<1>6. l <= client.leg
  <2>1. l > client.leg => wire[l] = <<>>
    BY DEF ReattachInv, Attempts
  <2> QED
    BY <1>1, <1>2, <1>5, <2>1
<1>7. Faithful(f, typed)
  <2>1. 1 \in 1 .. Len(wire[l])
    BY <1>1, <1>4
  <2> QED
    BY <1>1, <1>4, <2>1 DEF ReattachInv, Frames
<1>8. Start(f) <= acks[l] /\ Start(f) \in Nat /\ f.seq \in Nat
  <2>1. Start(f) <= acks[l]
    BY <1>1, <1>2, <1>4 DEF ReattachInv, Chained
  <2>2. Start(f) \in Nat /\ f.seq \in Nat
    BY <1>5, <1>7, FrameIs
  <2> QED
    BY <2>1, <2>2
<1>9. ~(Start(f) > acks[l]) /\ (l \in Kept => ~Gap(l, f))
  <2>1. l \in Kept => l \in DOMAIN applied /\ acks[l] <= applied[l] /\ applied[l] \in Nat
    BY DEF ReattachInv, Axes, Typed
  <2> QED
    BY <1>5, <1>8, <2>1 DEF Gap, AppliedOn
<1>20. ASSUME Gap(l, f) PROVE ReattachInv'
  <2>1. l # client.leg
    BY <1>9, <1>20, RecentIsKept DEF ReattachInv
  <2>2. /\ alive' = alive \ {l} /\ wire' = [wire EXCEPT ![l] = <<>>]
        /\ copies' = [copies EXCEPT ![l] = {}]
        /\ client' = [client EXCEPT !.at = IF @ = "up" /\ client.leg = l THEN "failed" ELSE @]
        /\ UNCHANGED <<acks, applied, ran, refused>>
    BY <1>1, <1>3, <1>20 DEF StreamInput
  <2>3. client' = client
    BY <1>5, <2>1, <2>2 DEF ClientRec
  <2> QED
    BY <1>2, <2>2, <2>3, StreamGone DEF clientVars
<1>21. SUFFICES ASSUME ~Gap(l, f) PROVE ReattachInv'
  BY <1>20
<1>10. PICK n : n = IF lease = l THEN applied'[l] ELSE IF f.seq > acks[l] THEN f.seq ELSE acks[l]
  OBVIOUS
<1>11. /\ Write(l, f) /\ wire' = [wire EXCEPT ![l] = Tail(s)]
       /\ acks' = [acks EXCEPT ![l] = n]
       /\ client' = client /\ alive' = alive
  BY <1>1, <1>3, <1>9, <1>10, <1>21 DEF StreamInput
<1>22. copies' \in [Legs -> SUBSET FrameRec] /\ \A k \in Legs : copies'[k] \subseteq copies[k]
  <2>1. copies' = [copies EXCEPT ![l] = Ahead(copies[l], acks'[l])]
    BY <1>1, <1>3, <1>9, <1>21 DEF StreamInput
  <2> QED
    BY <2>1 DEF Ahead, ReattachInv, Typed
<1>12. UNCHANGED <<typed, client, pending, pumping, alive, lease, turn, takes, nextAxis, credAxis>>
  BY <1>2, <1>11
<1>13. /\ n \in Nat /\ (lease = l => f.seq <= n)
       /\ acks' \in [Legs -> Nat] /\ acks'[l] = n /\ \A k \in Legs : k # l => acks'[k] = acks[k]
       /\ DOMAIN applied' \subseteq Legs /\ \A k \in DOMAIN applied' : applied'[k] \in Nat
       /\ \A k \in Legs : k > client.new => acks'[k] = 0 /\ k \notin DOMAIN applied'
       /\ ran' \in Seq(RanRec)
       /\ Buffered' /\ Axes' /\ AllDone' /\ Leased' /\ Ordered' /\ NoByteSkipped'
  BY <1>6, <1>7, <1>8, <1>10, <1>11, <1>12, <1>21, WriteKeeps
<1>14. f.seq <= n
  BY <1>5, <1>8, <1>10, <1>13
<1>15. /\ wire' \in [Legs -> Seq(FrameRec)] /\ wire'[l] = Tail(s)
       /\ \A k \in Legs : k # l => wire'[k] = wire[k]
  BY <1>4, <1>11 DEF ReattachInv, Typed
<1>16. Typed'
  BY <1>11, <1>12, <1>13, <1>15, <1>22 DEF ReattachInv, Typed
<1>17. Frames'
  <2>1. \A i \in 1 .. Len(Tail(s)) : Faithful(Tail(s)[i], typed)
    <3>1. \A i \in 1 .. Len(s) : Faithful(s[i], typed)
      BY <1>1 DEF ReattachInv, Frames
    <3>2. \A i \in 1 .. Len(s) - 1 : i + 1 \in 1 .. Len(s)
      BY <1>4
    <3> QED
      BY <1>4, <3>1, <3>2
  <2>2. \A k \in Legs : \A i \in 1 .. Len(wire'[k]) : Faithful(wire'[k][i], typed)
    BY <1>15, <2>1 DEF ReattachInv, Frames
  <2> QED
    BY <1>12, <1>22, <2>2 DEF ReattachInv, Frames
<1>18. Chained'
  <2>1. \A i \in 1 .. Len(s) - 1 : Start(s[i + 1]) <= s[i].seq
    BY <1>1 DEF ReattachInv, Chained
  <2>2. Tail(s) # <<>> => Start(Tail(s)[1]) <= n
    <3> SUFFICES ASSUME Tail(s) # <<>> PROVE Start(Tail(s)[1]) <= n
      OBVIOUS
    <3>1. 1 \in 1 .. Len(s) - 1 /\ 2 \in 1 .. Len(s)
      BY <1>4
    <3>2. Tail(s)[1] = s[2] /\ Start(s[2]) <= f.seq
      BY <1>4, <2>1, <3>1
    <3>3. Start(s[2]) \in Nat
      <4>1. s[2] \in FrameRec /\ Faithful(s[2], typed)
        BY <1>1, <3>1 DEF ReattachInv, Frames
      <4>2. PICK g \in FrameRec : g = s[2]
        BY <4>1
      <4> QED
        BY <1>5, <4>1, <4>2, FrameIs
    <3> QED
      BY <1>8, <1>13, <1>14, <3>2, <3>3
  <2>3. \A i \in 1 .. Len(Tail(s)) - 1 : Start(Tail(s)[i + 1]) <= Tail(s)[i].seq
    <3> SUFFICES ASSUME NEW i \in 1 .. Len(Tail(s)) - 1
                 PROVE  Start(Tail(s)[i + 1]) <= Tail(s)[i].seq
      OBVIOUS
    <3>1. PICK j \in 1 .. Len(s) - 1 : j = i + 1
      BY <1>4
    <3>2. i \in 1 .. Len(s) - 1
      BY <1>4
    <3>3. Tail(s)[i] = s[j] /\ Tail(s)[i + 1] = s[j + 1]
      BY <1>4, <3>1, <3>2
    <3> QED
      BY <2>1, <3>3
  <2>4. \A k \in Legs :
          /\ wire'[k] # <<>> => Start(wire'[k][1]) <= acks'[k]
          /\ \A i \in 1 .. Len(wire'[k]) - 1 : Start(wire'[k][i + 1]) <= wire'[k][i].seq
    BY <1>13, <1>15, <2>2, <2>3 DEF ReattachInv, Chained
  <2>5. client.leg \in alive =>
          (IF wire'[client.leg] = <<>> THEN acks'[client.leg]
             ELSE wire'[client.leg][Len(wire'[client.leg])].seq) >= typed
    <3> SUFFICES ASSUME client.leg \in alive
                 PROVE  (IF wire'[client.leg] = <<>> THEN acks'[client.leg]
                           ELSE wire'[client.leg][Len(wire'[client.leg])].seq) >= typed
      OBVIOUS
    <3>1. Reach(client.leg) >= typed
      BY DEF ReattachInv, Chained
    <3>2. CASE client.leg # l
      BY <1>5, <1>13, <1>15, <3>1, <3>2 DEF Reach
    <3>3. CASE client.leg = l
      <4>1. s[Len(s)].seq >= typed
        BY <1>1, <1>2, <3>1, <3>3 DEF Reach
      <4>2. CASE Tail(s) = <<>>
        <5>1. f.seq >= typed
          BY <1>4, <4>1, <4>2
        <5>2. n >= typed
          BY <1>5, <1>8, <1>13, <1>14, <5>1
        <5>3. wire'[client.leg] = <<>> /\ acks'[client.leg] = n
          BY <1>13, <1>15, <3>3, <4>2
        <5> QED
          BY <5>2, <5>3
      <4>3. CASE Tail(s) # <<>>
        <5>1. PICK m \in 1 .. Len(s) - 1 : m = Len(s) - 1
          <6>1. PICK c \in Nat : c = Len(s)
            BY <1>4
          <6>2. c >= 1 /\ c # 1
            BY <1>4, <4>3, <6>1
          <6>3. c - 1 \in 1 .. c - 1
            BY <6>2
          <6> QED
            BY <6>1, <6>3
        <5>2. Tail(s)[m] = s[Len(s)] /\ m = Len(Tail(s))
          BY <1>4, <5>1
        <5> QED
          BY <1>15, <3>3, <4>1, <4>3, <5>2
      <4> QED
        BY <4>2, <4>3
    <3> QED
      BY <3>2, <3>3
  <2> QED
    BY <1>12, <2>4, <2>5 DEF Chained, Reach
<1>19. Attempts'
  <2>1. \A k \in Legs : k > client.leg => k # l /\ wire[k] = <<>> /\ copies[k] = {}
    BY <1>5, <1>6, Constants DEF ReattachInv, Attempts
  <2>2. \A k \in Legs : k > client.leg => wire'[k] = <<>> /\ copies'[k] = {}
    BY <1>15, <1>22, <2>1
  <2> QED
    BY <1>12, <1>13, <2>2 DEF ReattachInv, Attempts
<1> QED
  BY <1>13, <1>16, <1>17, <1>18, <1>19 DEF ReattachInv

\* A datagram copy is read, or passed over.
LEMMA DatagramInputKeeps ==
  ASSUME ReattachInv, NEW l \in Legs, NEW f \in copies[l], DatagramInput(l, f)
  PROVE  ReattachInv'
<1>1. /\ copies' = [copies EXCEPT ![l] = Ahead(copies[l] \ {f}, acks'[l])]
      /\ UNCHANGED <<clientVars, alive, wire, lease, turn, takes, nextAxis, credAxis>>
  BY DEF DatagramInput
<1>2. /\ f \in FrameRec /\ Faithful(f, typed) /\ typed \in Nat
      /\ copies' \in [Legs -> SUBSET FrameRec] /\ \A k \in Legs : copies'[k] \subseteq copies[k]
  BY <1>1 DEF ReattachInv, Typed, Frames, Ahead
<1>3. typed' = typed /\ client' = client /\ pending' = pending
  BY <1>1 DEF clientVars
<1>4. Frames'
  BY <1>1, <1>2, <1>3 DEF ReattachInv, Frames
<1>5. CASE UNCHANGED <<applied, ran, refused, acks>>
  <2>1. Typed' /\ Buffered' /\ Chained' /\ Attempts'
    BY <1>1, <1>2, <1>3, <1>5 DEF ReattachInv, Typed, Buffered, Chained, Reach, Attempts
  <2>2. Axes' /\ Leased' /\ AllDone' /\ Ordered' /\ NoByteSkipped'
    BY <1>1, <1>3, <1>5 DEF ReattachInv, Axes, Leased, AllDone, Done, Ran, Ordered, WritersTakeTurns, NoByteSkipped, Recent, Kept
  <2> QED
    BY <1>4, <2>1, <2>2 DEF ReattachInv
<1>6. CASE /\ Start(f) = acks[l] /\ ~Gap(l, f) /\ Write(l, f)
           /\ acks' = [acks EXCEPT ![l] = IF lease = l THEN applied'[l] ELSE acks[l]]
  <2>1. PICK n : n = IF lease = l THEN applied'[l] ELSE acks[l]
    OBVIOUS
  <2>2. client.leg \in Legs /\ client.leg \in Nat /\ l \in Nat /\ acks[l] \in Nat /\ Start(f) <= acks[l]
    <3>1. client.leg \in Legs /\ acks[l] \in Nat
      BY DEF ReattachInv, Typed, ClientRec
    <3> QED
      BY <1>6, <3>1, Constants
  <2>3. l <= client.leg
    <3>1. l > client.leg => copies[l] = {}
      BY DEF ReattachInv, Attempts
    <3> QED
      BY <2>2, <3>1
  <2>4. UNCHANGED <<typed, client, pending, pumping, alive, lease, turn, takes, nextAxis, credAxis>>
    BY <1>1 DEF clientVars
  <2>5. /\ acks' = [acks EXCEPT ![l] = n]
        /\ \/ lease = l /\ n = applied'[l]
           \/ lease # l /\ n = acks[l]
    BY <1>6, <2>1
  <2>6. /\ n \in Nat /\ (lease = l => f.seq <= n) /\ (lease # l => acks[l] <= n)
        /\ acks' \in [Legs -> Nat] /\ acks'[l] = n /\ \A k \in Legs : k # l => acks'[k] = acks[k]
        /\ DOMAIN applied' \subseteq Legs /\ \A k \in DOMAIN applied' : applied'[k] \in Nat
        /\ \A k \in Legs : k > client.new => acks'[k] = 0 /\ k \notin DOMAIN applied'
        /\ ran' \in Seq(RanRec)
        /\ Buffered' /\ Axes' /\ AllDone' /\ Leased' /\ Ordered' /\ NoByteSkipped'
    BY <1>2, <1>6, <2>2, <2>3, <2>4, <2>5, WriteKeeps
  <2>7. Typed'
    BY <1>1, <1>2, <2>4, <2>6 DEF ReattachInv, Typed
  <2>8. Attempts'
    BY <1>1, <1>2, <2>4, <2>6 DEF ReattachInv, Attempts
  <2>9. ASSUME NEW k \in Legs PROVE acks[k] \in Nat /\ acks'[k] \in Nat /\ acks[k] <= acks'[k]
    <3>1. acks[k] \in Nat /\ acks'[k] \in Nat
      BY <2>6 DEF ReattachInv, Typed
    <3>2. CASE k = l
      <4>1. acks[l] < f.seq /\ f.seq \in Nat
        BY <1>2, <1>6, FrameIs
      <4> QED
        BY <2>6, <3>1, <3>2, <4>1
    <3>3. CASE k # l
      BY <2>6, <3>1, <3>3
    <3> QED
      BY <3>1, <3>2, <3>3
  <2>10. Chained'
    <3>1. \A k \in Legs : wire[k] # <<>> => Start(wire[k][1]) <= acks'[k]
      <4> SUFFICES ASSUME NEW k \in Legs, wire[k] # <<>> PROVE Start(wire[k][1]) <= acks'[k]
        OBVIOUS
      <4>1. wire[k][1] \in FrameRec /\ Faithful(wire[k][1], typed) /\ Start(wire[k][1]) <= acks[k]
        <5>1. 1 \in 1 .. Len(wire[k]) /\ wire[k] \in Seq(FrameRec)
          BY DEF ReattachInv, Typed
        <5> QED
          BY <5>1 DEF ReattachInv, Frames, Chained
      <4>2. PICK g \in FrameRec : g = wire[k][1]
        BY <4>1
      <4>3. Start(g) \in Nat
        BY <1>2, <4>1, <4>2, FrameIs
      <4> QED
        BY <2>9, <4>1, <4>2, <4>3
    <3>2. client.leg \in alive =>
          (IF wire[client.leg] = <<>> THEN acks'[client.leg]
             ELSE wire[client.leg][Len(wire[client.leg])].seq) >= typed
      BY <1>2, <2>2, <2>9 DEF ReattachInv, Chained, Reach
    <3>3. wire' = wire /\ alive' = alive
      BY <1>1
    <3> QED
      BY <1>3, <3>1, <3>2, <3>3 DEF ReattachInv, Chained, Reach
  <2> QED
    BY <1>4, <2>6, <2>7, <2>8, <2>10 DEF ReattachInv
<1> QED
  BY <1>5, <1>6 DEF DatagramInput

LEMMA InitHolds == Init => ReattachInv
<1> SUFFICES ASSUME Init PROVE ReattachInv
  OBVIOUS
<1>1. 1 \in Legs /\ Legs = 1 .. MaxLegs /\ \A l \in Legs : l \in Nat /\ l > 0
  BY Constants
<1>2. /\ typed = 0 /\ client = [at |-> "up", leg |-> 1, new |-> 1, from |-> 0]
      /\ pending = [acked |-> 0, sent |-> 0, buf |-> <<>>]
      /\ alive = {1} /\ wire = [l \in Legs |-> <<>>] /\ copies = [l \in Legs |-> {}]
      /\ acks = [l \in Legs |-> 0] /\ DOMAIN applied = {1} /\ applied[1] = 0
      /\ nextAxis = 2 /\ credAxis = 1 /\ lease = 1 /\ ran = <<>> /\ refused = {}
      /\ turn = [l \in Legs |-> IF l = 1 THEN 1 ELSE 0] /\ takes = 1
  BY DEF Init
<1>3. client \in ClientRec /\ client.at = "up" /\ client.leg = 1 /\ client.new = 1
  BY <1>1, <1>2 DEF ClientRec
<1>4. pending \in PendingRec /\ pending.acked = 0 /\ pending.sent = 0 /\ pending.buf = <<>>
  BY <1>2 DEF PendingRec
<1>5. /\ wire \in [Legs -> Seq(FrameRec)] /\ copies \in [Legs -> SUBSET FrameRec]
      /\ acks \in [Legs -> Nat] /\ \A l \in Legs : wire[l] = <<>> /\ copies[l] = {} /\ acks[l] = 0
  BY <1>2
<1>6. Typed
  BY <1>1, <1>2, <1>3, <1>4, <1>5 DEF Typed
<1>7. Buffered
  <2>1. Run(0, 0) = <<>>
    BY RunIs
  <2> QED
    BY <1>2, <1>4, <2>1 DEF Buffered
<1>8. Frames /\ Chained
  BY <1>1, <1>2, <1>3, <1>5 DEF Frames, Chained, Reach
<1>9. Attempts
  BY <1>1, <1>2, <1>3, <1>5, Constants DEF Attempts
<1>10. Recent = {1} /\ \A l \in Kept : l = 1
  BY <1>1, <1>3 DEF Recent, Kept
<1>11. Axes /\ Leased
  <2>1. Axes
    BY <1>1, <1>2, <1>3, <1>4, <1>5, <1>10 DEF Axes
  <2>2. Leased
    BY <1>1, <1>2 DEF Leased
  <2> QED
    BY <2>1, <2>2
<1>12. AllDone
  BY <1>2, <1>5 DEF AllDone, Done
<1>13. Ordered /\ NoByteSkipped
  BY <1>2 DEF Ordered, WritersTakeTurns, NoByteSkipped
<1> QED
  BY <1>6, <1>7, <1>8, <1>9, <1>11, <1>12, <1>13 DEF ReattachInv

LEMMA NextKeeps ==
  ASSUME ReattachInv, [Next]_vars
  PROVE  ReattachInv'
<1>1. CASE ClientStep
  <2>1. CASE Type
    BY <2>1, TypeKeeps
  <2>2. CASE ReadAck
    BY <2>2, ReadAckKeeps
  <2>3. CASE PathDies \/ Migrate \/ AttemptFails
    BY <2>3, StepsOfClient
  <2>4. CASE Redeem
    BY <2>4, RedeemKeeps
  <2>5. CASE OpenStream
    BY <2>5, OpenStreamKeeps
  <2>6. CASE Resend
    BY <2>6, ResendKeeps
  <2> QED
    BY <1>1, <2>1, <2>2, <2>3, <2>4, <2>5, <2>6 DEF ClientStep
<1>2. CASE HostStep
  <2>1. ASSUME NEW l \in Legs, StreamInput(l) PROVE ReattachInv'
    BY <2>1, StreamInputKeeps
  <2>2. ASSUME NEW l \in Legs, ConnectionEnds(l) \/ Backpressure(l) PROVE ReattachInv'
    BY <2>2, StreamsEnd
  <2>3. ASSUME NEW l \in Legs, NEW f \in copies[l], DatagramInput(l, f) PROVE ReattachInv'
    BY <2>3, DatagramInputKeeps
  <2>4. CASE Steal
    BY <2>4, StealKeeps
  <2>5. ASSUME NEW l \in Legs, TakeLease(l) PROVE ReattachInv'
    BY <2>5, TakeLeaseKeeps
  <2> QED
    BY <1>2, <2>1, <2>2, <2>3, <2>4, <2>5 DEF HostStep
<1>3. CASE UNCHANGED vars
  <2>1. /\ typed' = typed /\ client' = client /\ pending' = pending /\ pumping' = pumping
        /\ alive' = alive /\ wire' = wire /\ copies' = copies /\ acks' = acks
        /\ applied' = applied /\ lease' = lease /\ ran' = ran /\ refused' = refused
        /\ nextAxis' = nextAxis /\ credAxis' = credAxis /\ turn' = turn /\ takes' = takes
    BY <1>3 DEF vars, clientVars, hostVars
  <2>2. Typed' /\ Buffered' /\ Frames' /\ Chained' /\ Attempts'
    BY <2>1 DEF ReattachInv, Typed, Buffered, Frames, Chained, Reach, Attempts
  <2>3. Axes' /\ Leased' /\ AllDone' /\ Ordered' /\ NoByteSkipped'
    BY <2>1 DEF ReattachInv, Axes, Leased, AllDone, Done, Ran, Ordered, WritersTakeTurns, NoByteSkipped, Recent, Kept
  <2> QED
    BY <2>2, <2>3 DEF ReattachInv
<1> QED
  BY <1>1, <1>2, <1>3 DEF Next

-----------------------------------------------------------------------------
(* The theorems *)

\* The invariant holds in every state of every recovery.
THEOREM ReattachInvariant == Spec => []ReattachInv
<1>1. ReattachInv /\ [Next]_vars => ReattachInv'
  BY NextKeeps
<1> QED
  BY <1>1, InitHolds, PTL DEF Spec

\* The child sees no byte before the ones typed earlier, except bytes refused for
\* want of the lease, however often the path breaks and wherever an attempt stops
\* (reattach, enqueue_write).
THEOREM NoHoleInInput == Spec => []NoByteSkipped
<1>1. ReattachInv => NoByteSkipped
  BY DEF ReattachInv
<1> QED
  BY <1>1, ReattachInvariant, PTL

\* The client lets go only of bytes that were run or refused (PendingInput::ack
\* and rebase against the axis the host forked).
THEOREM ReleasesAreDone == Spec => []ReleasedIsDone
<1>1. ReattachInv => ReleasedIsDone
  <2> SUFFICES ASSUME ReattachInv PROVE ReleasedIsDone
    OBVIOUS
  <2>1. client.leg \in Recent /\ client.leg \in Kept /\ pending.acked \in Nat
    BY RecentIsKept DEF ReattachInv, Typed, PendingRec
  <2>2. /\ client.leg \in DOMAIN applied /\ applied[client.leg] \in Nat
        /\ pending.acked <= applied[client.leg]
    BY <2>1 DEF ReattachInv, Axes, Typed
  <2>3. \A b \in 1 .. applied[client.leg] : b \in Ran \union refused
    BY <2>2 DEF ReattachInv, AllDone, Done
  <2> QED
    BY <2>1, <2>2, <2>3 DEF ReleasedIsDone
<1> QED
  BY <1>1, ReattachInvariant, PTL

\* No recovery ends in InputUnrecoverable and the stream of the leg in use never in
\* an input gap: the pruning of axes, refused writes, failed attempts and headers
\* that come late never lose the offset that the next redemption forks from.
THEOREM RecoveryNeverStuck == Spec => []NeverUnrecoverable
<1>1. ReattachInv => NeverUnrecoverable
  BY DEF ReattachInv, Attempts, NeverUnrecoverable
<1> QED
  BY <1>1, ReattachInvariant, PTL

\* The child sees input in the turns in which handle_data_stream handed the lease
\* over, in whatever order the headers came: a leg that lost the lease to another
\* is silent for good, and each leg's input runs in order, and once while its axis
\* is among the MAX_INPUT_AXES newest.
THEOREM InputTakesTurns == Spec => []WritersTakeTurns
<1>1. ReattachInv => WritersTakeTurns
  BY DEF ReattachInv, Ordered
<1> QED
  BY <1>1, ReattachInvariant, PTL

\* Once the stream of the leg in use is drained, every byte typed was run or
\* refused: a recovery retransmits all that the axis it forked was missing.
THEOREM DrainedIsDone == Spec => []QuietMeansDone
<1>1. ReattachInv => QuietMeansDone
  <2> SUFFICES ASSUME ReattachInv, client.leg \in alive, wire[client.leg] = <<>>
               PROVE  1 .. typed \subseteq Ran \union refused
    BY DEF QuietMeansDone
  <2>1. client.leg \in Legs /\ acks[client.leg] \in Nat /\ typed \in Nat
    BY DEF ReattachInv, Typed, ClientRec
  <2>2. acks[client.leg] >= typed
    BY DEF ReattachInv, Chained, Reach
  <2>3. \A b \in 1 .. acks[client.leg] : b \in Ran \union refused
    BY <2>1 DEF ReattachInv, AllDone, Done
  <2> QED
    BY <2>1, <2>2, <2>3
<1> QED
  BY <1>1, ReattachInvariant, PTL

-----------------------------------------------------------------------------
(***************************************************************************)
(* The watchdog.  The invariant bounds the age of the last packet read by  *)
(* what the rounds of the loop have counted since: the silence PathState   *)
(* sees is no longer than the packets justify (Earned) and, in a path in   *)
(* use, no shorter than the truth; every round but the first has counted a *)
(* strike (Struck); and the last one found the verdict not due (NotDueYet) *)
(* or left the path its one grace (InGrace).                               *)
(***************************************************************************)

WatchStates == [silence : Nat, idle : Nat, probed : Nat, unanswered : Nat, probeNow : BOOLEAN,
                margin : Nat, hint : Nat \cup {Never}, grace : Nat \cup {Never}]

Counters == [frames : BOOLEAN, datagrams : BOOLEAN]

Sleeps == [slept : Nat, period : Nat \ {0}]

\* The types of the watch, its loop and the history.
WatchType ==
    /\ watch \in WatchStates
    /\ stalls \in {0, 1}
    /\ dead \in BOOLEAN
    /\ rx \in Counters
    /\ timer \in Sleeps
    /\ rewake \in BOOLEAN /\ woke \in BOOLEAN /\ running \in BOOLEAN
    /\ heard \in Nat /\ credit \in Nat /\ excused \in BOOLEAN

LEMMA WatchConstants ==
    /\ ProbeInterval \in Nat \ {0} /\ IdleProbeInterval \in Nat \ {0} /\ Strikes \in Nat \ {0}
    /\ ActiveWindow \in Nat /\ MinDeadAfter \in Nat /\ RttMultiple \in Nat /\ MaxLate \in Nat
    /\ ProbeInterval <= IdleProbeInterval
    /\ Horizon \in Nat /\ ProbeInterval <= Horizon /\ Never \notin Nat
    /\ Rtts \subseteq Nat /\ Rtts # {}
  BY WatchAssumption

\* Products of the probe interval, as far as the bounds need them.
LEMMA IntervalTimes ==
    ASSUME NEW a \in Nat, NEW p \in Nat
    PROVE  /\ p * a \in Nat
           /\ p * (a + 1) = p * a + p
           /\ p * 0 = 0 /\ p * 1 = p
  OBVIOUS

LEMMA IntervalTimesMonotone ==
    ASSUME NEW a \in Nat, NEW b \in Nat, a <= b, NEW p \in Nat
    PROVE  p * a <= p * b
<1>1. PICK d \in Nat : b = a + d
  <2>1. b - a \in Nat /\ b = a + (b - a)
    OBVIOUS
  <2> QED
    BY <2>1
<1>2. p * b = p * a + p * d /\ p * d \in Nat /\ p * a \in Nat
  BY <1>1
<1> QED
  BY <1>2

LEMMA GraceNat == DatagramGrace \in Nat \ {0}
<1>1. ProbeInterval \in Nat \ {0} /\ Strikes \in Nat \ {0}
  BY WatchConstants
<1>2. PICK a \in Nat : Strikes = a + 1
  <2>1. Strikes - 1 \in Nat /\ Strikes = (Strikes - 1) + 1
    BY <1>1
  <2> QED
    BY <2>1
<1>3. ProbeInterval * Strikes = ProbeInterval * a + ProbeInterval /\ ProbeInterval * a \in Nat
  BY <1>1, <1>2, IntervalTimes
<1> QED
  BY <1>1, <1>3 DEF DatagramGrace

LEMMA DeadAfterNat == ASSUME NEW rtt \in Rtts PROVE DeadAfter(rtt) \in Nat
<1>1. rtt \in Nat /\ RttMultiple \in Nat /\ MinDeadAfter \in Nat
  BY WatchConstants
<1>2. rtt * RttMultiple \in Nat
  BY <1>1
<1> QED
  BY <1>1, <1>2 DEF DeadAfter, MaxOf

-----------------------------------------------------------------------------
(* What the operations of PathState do, field by field. *)

LEMMA NewStateFacts ==
    /\ NewState \in WatchStates
    /\ NewState.silence = 0 /\ NewState.idle = 0 /\ NewState.probed = IdleProbeInterval
    /\ NewState.unanswered = 0 /\ NewState.margin = 0 /\ NewState.grace = Never
  BY WatchConstants DEF NewState, WatchStates

LEMMA ObserveInboundFacts ==
    ASSUME NEW w \in WatchStates
    PROVE  /\ ObserveInbound(w) \in WatchStates
           /\ ObserveInbound(w).silence = 0 /\ ObserveInbound(w).unanswered = 0
           /\ ObserveInbound(w).grace = Never /\ ObserveInbound(w).margin = w.margin
           /\ ObserveInbound(w).idle = w.idle /\ ObserveInbound(w).probed = w.probed
  BY WatchConstants DEF ObserveInbound, WatchStates

LEMMA RestartFacts ==
    ASSUME NEW w \in WatchStates
    PROVE  /\ RestartSilenceClock(w) \in WatchStates
           /\ RestartSilenceClock(w).silence = 0 /\ RestartSilenceClock(w).margin = 0
           /\ RestartSilenceClock(w).idle = w.idle /\ RestartSilenceClock(w).probed = w.probed
<1>1. PICK v \in WatchStates : v = ObserveInbound(w)
  BY ObserveInboundFacts
<1>2. v.silence = 0 /\ v.idle = w.idle /\ v.probed = w.probed
  BY <1>1, ObserveInboundFacts
<1>3. RestartSilenceClock(w) = [v EXCEPT !.margin = 0]
  BY <1>1 DEF RestartSilenceClock
<1>4. /\ [v EXCEPT !.margin = 0] \in WatchStates
      /\ [v EXCEPT !.margin = 0].silence = v.silence /\ [v EXCEPT !.margin = 0].margin = 0
      /\ [v EXCEPT !.margin = 0].idle = v.idle /\ [v EXCEPT !.margin = 0].probed = v.probed
  BY DEF WatchStates
<1> QED
  BY <1>2, <1>3, <1>4

LEMMA SinceFacts ==
    ASSUME NEW w \in WatchStates, NEW age \in Nat
    PROVE  /\ ObserveInboundSince(w, age) \in WatchStates
           /\ ObserveInboundSince(w, age).silence = MinOf(w.silence, age)
           /\ ObserveInboundSince(w, age).unanswered = 0
           /\ ObserveInboundSince(w, age).grace = Never
           /\ ObserveInboundSince(w, age).margin = w.margin
           /\ ObserveInboundSince(w, age).idle = w.idle
           /\ ObserveInboundSince(w, age).probed = w.probed
           /\ ObserveInboundSince(w, age).probeNow = w.probeNow
  BY WatchConstants DEF ObserveInboundSince, WatchStates, MinOf

LEMMA DatagramFacts ==
    ASSUME NEW w \in WatchStates
    PROVE  /\ ObserveDatagram(w) \in WatchStates
           /\ ObserveDatagram(w).silence = w.silence
           /\ ObserveDatagram(w).unanswered = w.unanswered
           /\ ObserveDatagram(w).grace = w.grace
           /\ ObserveDatagram(w).margin = w.margin
           /\ ObserveDatagram(w).idle = w.idle
           /\ ObserveDatagram(w).probed = w.probed
           /\ ObserveDatagram(w).probeNow = w.probeNow
  BY DEF ObserveDatagram, WatchStates

LEMMA ActivityFacts ==
    ASSUME NEW w \in WatchStates
    PROVE  /\ ObserveActivity(w) \in WatchStates
           /\ ObserveActivity(w).silence = w.silence
           /\ ObserveActivity(w).unanswered = w.unanswered
           /\ ObserveActivity(w).grace = w.grace
           /\ ObserveActivity(w).margin = w.margin
           /\ ObserveActivity(w).idle = 0
           /\ ObserveActivity(w).probed = w.probed
  BY DEF ObserveActivity, WatchStates

LEMMA WakeFacts ==
    ASSUME NEW w \in WatchStates
    PROVE  /\ ObserveWake(w) \in WatchStates
           /\ ObserveWake(w).silence = w.silence
           /\ ObserveWake(w).unanswered = w.unanswered
           /\ ObserveWake(w).grace = w.grace
           /\ ObserveWake(w).margin = w.margin
           /\ ObserveWake(w).idle = 0
           /\ ObserveWake(w).probed = w.probed
           /\ ObserveWake(w).probeNow = TRUE
  BY DEF ObserveWake, WatchStates

LEMMA MonusFacts ==
    ASSUME NEW a \in Nat, NEW b \in Nat
    PROVE  Monus(a, b) \in Nat /\ Monus(a, b) <= a /\ (a <= b => Monus(a, b) = 0)
           /\ (b < a => Monus(a, b) = a - b)
  BY DEF Monus

LEMMA TickFacts ==
    ASSUME NEW w \in WatchStates, NEW gap \in Nat, NEW expected \in Nat
    PROVE  /\ ObserveTick(w, gap, expected) \in WatchStates
           /\ IF Monus(gap, expected) < ProbeInterval
                THEN ObserveTick(w, gap, expected) = w
                ELSE /\ ObserveTick(w, gap, expected).silence = Monus(w.silence, Monus(gap, expected))
                     /\ ObserveTick(w, gap, expected).margin = Monus(gap, expected)
           /\ ObserveTick(w, gap, expected).unanswered = w.unanswered
           /\ ObserveTick(w, gap, expected).grace = w.grace
           /\ ObserveTick(w, gap, expected).idle = w.idle
           /\ ObserveTick(w, gap, expected).probed = w.probed
           /\ ObserveTick(w, gap, expected).probeNow = w.probeNow
<1>1. PICK late \in Nat : late = Monus(gap, expected)
  BY MonusFacts
<1>2. w.silence \in Nat
  BY DEF WatchStates
<1>3. PICK s \in Nat : s = Monus(w.silence, late)
  BY <1>2, MonusFacts
<1>4. ObserveTick(w, gap, expected) =
        IF late < ProbeInterval THEN w ELSE [w EXCEPT !.silence = s, !.margin = late]
  BY <1>1, <1>3 DEF ObserveTick, SelfDelayThreshold
<1> DEFINE v == [w EXCEPT !.silence = s, !.margin = late]
<1>5. /\ v \in WatchStates /\ v.silence = s /\ v.margin = late
      /\ v.unanswered = w.unanswered /\ v.grace = w.grace /\ v.idle = w.idle
      /\ v.probed = w.probed /\ v.probeNow = w.probeNow
  BY DEF WatchStates
<1> HIDE DEF v
<1>6. CASE late < ProbeInterval
  BY <1>1, <1>4, <1>6
<1>7. CASE ~(late < ProbeInterval)
  <2>1. ObserveTick(w, gap, expected) = v
    BY <1>4, <1>7 DEF v
  <2> QED
    BY <1>1, <1>3, <1>5, <1>7, <2>1
<1> QED
  BY <1>6, <1>7

\* sample: frames end the silence at the previous sample, datagrams only hint.
LEMMA SampledFacts ==
    ASSUME NEW w \in WatchStates, rx \in Counters, timer \in Sleeps
    PROVE  /\ Sampled(w) \in WatchStates
           /\ Sampled(w).silence = IF rx.frames THEN MinOf(w.silence, timer.slept) ELSE w.silence
           /\ Sampled(w).unanswered = IF rx.frames THEN 0 ELSE w.unanswered
           /\ Sampled(w).grace = IF rx.frames THEN Never ELSE w.grace
           /\ Sampled(w).margin = w.margin /\ Sampled(w).idle = w.idle
           /\ Sampled(w).probed = w.probed /\ Sampled(w).probeNow = w.probeNow
<1>1. PICK s \in Nat : s = timer.slept
  BY DEF Sleeps
<1>2. PICK v \in WatchStates : v = IF rx.frames THEN ObserveInboundSince(w, s) ELSE w
  BY <1>1, SinceFacts
<1>3. /\ v.silence = IF rx.frames THEN MinOf(w.silence, s) ELSE w.silence
      /\ v.unanswered = IF rx.frames THEN 0 ELSE w.unanswered
      /\ v.grace = IF rx.frames THEN Never ELSE w.grace
      /\ v.margin = w.margin /\ v.idle = w.idle
      /\ v.probed = w.probed /\ v.probeNow = w.probeNow
  <2>1. CASE rx.frames
    BY <1>1, <1>2, <2>1, SinceFacts
  <2>2. CASE ~rx.frames
    BY <1>2, <2>2
  <2> QED
    BY <2>1, <2>2
<1>4. Sampled(w) = IF rx.datagrams THEN ObserveDatagram(v) ELSE v
  BY <1>1, <1>2 DEF Sampled
<1>5. CASE rx.datagrams
  <2>1. Sampled(w) = ObserveDatagram(v)
    BY <1>4, <1>5
  <2> QED
    BY <1>1, <1>3, <2>1, DatagramFacts
<1>6. CASE ~rx.datagrams
  <2>1. Sampled(w) = v
    BY <1>4, <1>6
  <2> QED
    BY <1>1, <1>3, <2>1
<1> QED
  BY <1>5, <1>6

\* verdict, when the path is not ruled dead.
LEMMA JudgedFacts ==
    ASSUME NEW w \in WatchStates, NEW rtt
    PROVE  /\ Judged(w, rtt) \in WatchStates
           /\ Judged(w, rtt).silence = w.silence /\ Judged(w, rtt).margin = 0
           /\ Judged(w, rtt).idle = w.idle
           /\ Judged(w, rtt).probed = (IF Probes(w) THEN 0 ELSE w.probed)
           /\ Judged(w, rtt).unanswered =
                (IF Probes(w) THEN MinOf(w.unanswered + 1, Strikes) ELSE w.unanswered)
           /\ Judged(w, rtt).grace =
                (IF Due(w, rtt) /\ w.grace = Never THEN 0 ELSE w.grace)
<1>0. w.unanswered \in Nat /\ w.probed \in Nat /\ w.grace \in Nat \cup {Never}
  BY DEF WatchStates
<1>1. PICK g \in Nat \cup {Never} : g = IF Due(w, rtt) /\ w.grace = Never THEN 0 ELSE w.grace
  BY <1>0
<1>2. PICK p \in Nat : p = IF Probes(w) THEN 0 ELSE w.probed
  BY <1>0
<1>3. PICK u \in Nat : u = IF Probes(w) THEN MinOf(w.unanswered + 1, Strikes) ELSE w.unanswered
  BY <1>0, WatchConstants DEF MinOf
<1> DEFINE v == [w EXCEPT !.margin = 0, !.grace = g, !.probeNow = FALSE, !.probed = p, !.unanswered = u]
<1>4. Judged(w, rtt) = v
  BY <1>1, <1>2, <1>3 DEF Judged, WatchStates
<1>5. /\ v \in WatchStates /\ v.silence = w.silence /\ v.margin = 0 /\ v.idle = w.idle
      /\ v.probed = p /\ v.unanswered = u /\ v.grace = g
  BY DEF WatchStates
<1> HIDE DEF v
<1> QED
  BY <1>1, <1>2, <1>3, <1>4, <1>5

\* The watch grows older by one.
Aged(w) == [w EXCEPT !.silence = Older(@), !.idle = MinOf(@ + 1, ActiveWindow + 1),
                     !.probed = MinOf(@ + 1, IdleProbeInterval),
                     !.hint = IF @ = Never \/ @ > DatagramGrace THEN Never ELSE @ + 1,
                     !.grace = IF @ = Never THEN @ ELSE MinOf(@ + 1, DatagramGrace)]

LEMMA AgedFacts ==
    ASSUME NEW w \in WatchStates
    PROVE  /\ Aged(w) \in WatchStates
           /\ Aged(w).silence = MinOf(w.silence + 1, Horizon)
           /\ Aged(w).probed = MinOf(w.probed + 1, IdleProbeInterval)
           /\ Aged(w).unanswered = w.unanswered /\ Aged(w).margin = w.margin
           /\ Aged(w).grace = (IF w.grace = Never THEN Never
                               ELSE MinOf(w.grace + 1, DatagramGrace))
<1>0. /\ w.silence \in Nat /\ w.idle \in Nat /\ w.probed \in Nat
      /\ w.hint \in Nat \cup {Never} /\ w.grace \in Nat \cup {Never}
  BY DEF WatchStates
<1>1. PICK s \in Nat : s = MinOf(w.silence + 1, Horizon) /\ s = Older(w.silence)
  BY <1>0, WatchConstants DEF MinOf, Older
<1>2. PICK i \in Nat : i = MinOf(w.idle + 1, ActiveWindow + 1)
  BY <1>0, WatchConstants DEF MinOf
<1>3. PICK p \in Nat : p = MinOf(w.probed + 1, IdleProbeInterval)
  BY <1>0, WatchConstants DEF MinOf
<1>4. PICK h \in Nat \cup {Never} :
         h = IF w.hint = Never \/ w.hint > DatagramGrace THEN Never ELSE w.hint + 1
  <2>1. CASE w.hint = Never
    BY <2>1
  <2>2. CASE w.hint \in Nat
    <3>1. w.hint + 1 \in Nat
      BY <2>2
    <3> QED
      BY <2>2, <3>1
  <2> QED
    BY <1>0, <2>1, <2>2
<1>5. PICK g \in Nat \cup {Never} :
         g = IF w.grace = Never THEN Never ELSE MinOf(w.grace + 1, DatagramGrace)
  <2>1. CASE w.grace = Never
    BY <2>1
  <2>2. CASE w.grace \in Nat
    <3>1. MinOf(w.grace + 1, DatagramGrace) \in Nat
      BY <2>2, GraceNat DEF MinOf
    <3> QED
      BY <2>2, <3>1
  <2> QED
    BY <1>0, <2>1, <2>2
<1> DEFINE v == [w EXCEPT !.silence = s, !.idle = i, !.probed = p, !.hint = h, !.grace = g]
<1>6. Aged(w) = v
  BY <1>1, <1>2, <1>3, <1>4, <1>5 DEF Aged, WatchStates
<1>7. /\ v \in WatchStates /\ v.silence = s /\ v.probed = p
      /\ v.unanswered = w.unanswered /\ v.margin = w.margin /\ v.grace = g
  BY DEF WatchStates
<1> HIDE DEF v
<1> QED
  BY <1>1, <1>3, <1>5, <1>6, <1>7

LEMMA CadenceFacts ==
    ASSUME NEW w
    PROVE  /\ Cadence(w) \in Nat \ {0}
           /\ ~IsIdle(w) => Cadence(w) = ProbeInterval
  BY WatchConstants DEF Cadence

-----------------------------------------------------------------------------
(* The inductive invariant. *)

\* A watch that is not excused is on the fast cadence; a wake-up it still owes
\* the loop, and a sleep that is overdue, are of the instant of the last packet.
InUse ==
    ~excused => /\ ~IsIdle(watch) /\ timer.period = ProbeInterval
                /\ rewake => heard = 0
                /\ timer.slept <= ProbeInterval \/ heard = 0

\* Probes go out at the rounds of the loop.
ProbesPaced == watch.probed >= MinOf(timer.slept, IdleProbeInterval)

\* The silence the watch sees is not longer than the sample before the last
\* packet justifies.
Earned ==
    /\ dead \/ watch.margin = 0
    /\ watch.silence <= Horizon
    /\ IF rx.frames THEN timer.slept <= heard + credit \/ Horizon <= heard
                    ELSE watch.silence <= heard + credit
    /\ VerdictIsEarned

\* Every round since the first one after the last packet has counted a strike.
Struck ==
    \/ watch.unanswered >= Strikes
    \/ heard < timer.slept + ProbeInterval * (watch.unanswered + 1)

\* The last round found the verdict not due yet.
NotDueYet ==
    \E rtt \in Rtts : heard < timer.slept + MaxOf(DeadAfter(rtt), ProbeInterval * (Strikes + 1))

\* The last round left the path its grace.
InGrace ==
    /\ watch.unanswered >= Strikes
    /\ \E rtt \in Rtts : heard < timer.slept + DetectionBudget(rtt) + DatagramGrace
    /\ watch.grace < DatagramGrace =>
          \E rtt \in Rtts : heard < DetectionBudget(rtt) + watch.grace

\* What the last round found, in terms of the age of the last packet then, which
\* is heard - timer.slept.
Timely ==
    ~dead /\ ~excused /\ stalls = 0 =>
        /\ heard <= watch.silence
        /\ IF rx.frames THEN heard + credit <= timer.slept
           ELSE /\ timer.slept <= heard
                /\ Struck
                /\ IF watch.grace = Never THEN NotDueYet ELSE InGrace

WatchInv == WatchType /\ InUse /\ ProbesPaced /\ Earned /\ Timely

\* The bounds of the budget.
LEMMA BudgetTypes ==
    ASSUME NEW rtt \in Rtts
    PROVE  /\ MaxOf(DeadAfter(rtt), ProbeInterval * (Strikes + 1)) \in Nat \ {0}
           /\ DeadAfter(rtt) <= MaxOf(DeadAfter(rtt), ProbeInterval * (Strikes + 1))
           /\ ProbeInterval * (Strikes + 1) <= MaxOf(DeadAfter(rtt), ProbeInterval * (Strikes + 1))
           /\ MaxOf(DeadAfter(rtt), ProbeInterval * (Strikes + 1)) > 0
           /\ DetectionBudget(rtt) \in Nat /\ DetectionBudget(rtt) > 0
           /\ DetectionBudget(rtt) =
                 MaxOf(DeadAfter(rtt), ProbeInterval * (Strikes + 1)) + ProbeInterval
<1>1. DeadAfter(rtt) \in Nat
  BY DeadAfterNat
<1>2. PICK n \in Nat : n = ProbeInterval * (Strikes + 1) /\ n >= ProbeInterval
  <2>1. 1 \in Nat /\ Strikes + 1 \in Nat /\ 1 <= Strikes + 1 /\ ProbeInterval * 1 = ProbeInterval
    BY WatchConstants
  <2>2. ProbeInterval * (Strikes + 1) \in Nat
    BY <2>1, WatchConstants, IntervalTimes
  <2>3. ProbeInterval * 1 <= ProbeInterval * (Strikes + 1)
    BY <2>1, WatchConstants, IntervalTimesMonotone
  <2> QED
    BY <2>1, <2>2, <2>3
<1>3. ProbeInterval \in Nat \ {0}
  BY WatchConstants
<1> QED
  BY <1>1, <1>2, <1>3 DEF MaxOf, DetectionBudget

LEMMA InitWatch == WatchInit => WatchInv
<1> SUFFICES ASSUME WatchInit PROVE WatchInv
  OBVIOUS
<1>1. /\ watch = NewState /\ stalls = 0 /\ dead = FALSE /\ rx = Unmoved
      /\ timer = [slept |-> 0, period |-> ProbeInterval] /\ rewake = FALSE /\ woke = FALSE
      /\ running = TRUE /\ heard = 0 /\ credit = 0 /\ excused = FALSE
  BY DEF WatchInit
<1>2. WatchType
  BY <1>1, NewStateFacts, WatchConstants DEF WatchType, Unmoved, Counters, Sleeps
<1>3. InUse
  BY <1>1, NewStateFacts, WatchConstants DEF InUse, IsIdle
<1>4. ProbesPaced
  BY <1>1, NewStateFacts, WatchConstants DEF ProbesPaced, MinOf
<1>5. Earned
  BY <1>1, NewStateFacts, WatchConstants DEF Earned, VerdictIsEarned, Unmoved
<1>6. Timely
  <2>1. PICK rtt \in Rtts : TRUE
    BY WatchConstants
  <2>2. DeadAfter(rtt) \in Nat
    BY DeadAfterNat
  <2>3. MaxOf(DeadAfter(rtt), ProbeInterval * (Strikes + 1)) > 0
    BY BudgetTypes
  <2>4. ProbeInterval * (0 + 1) = ProbeInterval
    BY WatchConstants, IntervalTimes
  <2>5. Struck
    BY <1>1, <2>4, NewStateFacts, WatchConstants DEF Struck
  <2>6. NotDueYet
    <3>1. /\ MaxOf(DeadAfter(rtt), ProbeInterval * (Strikes + 1)) \in Nat
          /\ heard = 0 /\ timer.slept = 0
      BY <1>1, BudgetTypes
    <3>2. heard < timer.slept + MaxOf(DeadAfter(rtt), ProbeInterval * (Strikes + 1))
      BY <2>3, <3>1
    <3> QED
      BY <3>2 DEF NotDueYet
  <2> QED
    BY <1>1, <2>5, <2>6, NewStateFacts DEF Timely, Unmoved
<1> QED
  BY <1>2, <1>3, <1>4, <1>5, <1>6 DEF WatchInv

\* The types of what the invariant compares.
LEMMA WatchTypes ==
    ASSUME WatchType
    PROVE  /\ watch \in WatchStates /\ watch.silence \in Nat /\ watch.idle \in Nat
           /\ watch.probed \in Nat /\ watch.unanswered \in Nat /\ watch.margin \in Nat
           /\ watch.grace \in Nat \cup {Never}
           /\ timer \in Sleeps /\ timer.slept \in Nat /\ timer.period \in Nat \ {0}
           /\ rx \in Counters /\ heard \in Nat /\ credit \in Nat
  BY DEF WatchType, WatchStates, Sleeps

\* The clock.
LEMMA PassWatch ==
    ASSUME WatchInv, Pass
    PROVE  WatchInv'
<1>0. WatchType /\ InUse /\ ProbesPaced /\ Earned /\ Timely
  BY DEF WatchInv
<1>1. /\ ~dead /\ (running => ~Ready)
      /\ watch' = Aged(watch)
      /\ timer' = [timer EXCEPT !.slept = @ + 1]
      /\ heard' = Older(heard)
      /\ excused' = (excused \/ ~running \/ stalls > 0
                       \/ IsIdle(watch') \/ timer.period # ProbeInterval)
      /\ UNCHANGED <<stalls, dead, rx, rewake, woke, running, socket, credit>>
  BY DEF Pass, Aged
<1>2. /\ watch \in WatchStates /\ watch.silence \in Nat /\ watch.probed \in Nat
      /\ watch.unanswered \in Nat /\ watch.grace \in Nat \cup {Never}
      /\ timer \in Sleeps /\ timer.slept \in Nat /\ timer.period \in Nat \ {0}
      /\ heard \in Nat /\ credit \in Nat
  BY <1>0, WatchTypes
<1>3. timer' \in Sleeps /\ timer'.slept = timer.slept + 1 /\ timer'.period = timer.period
  BY <1>1, <1>2 DEF Sleeps
<1>4. heard' = MinOf(heard + 1, Horizon) /\ heard' \in Nat
  BY <1>1, <1>2, WatchConstants DEF Older, MinOf
<1>5. /\ watch' \in WatchStates /\ watch'.silence = MinOf(watch.silence + 1, Horizon)
      /\ watch'.probed = MinOf(watch.probed + 1, IdleProbeInterval)
      /\ watch'.unanswered = watch.unanswered /\ watch'.margin = watch.margin
      /\ watch'.grace = (IF watch.grace = Never THEN Never
                         ELSE MinOf(watch.grace + 1, DatagramGrace))
  BY <1>1, <1>2, AgedFacts
<1>6. WatchType'
  BY <1>0, <1>1, <1>3, <1>4, <1>5 DEF WatchType
<1>7. ASSUME ~excused'
      PROVE  /\ ~excused /\ running /\ stalls = 0 /\ ~IsIdle(watch') /\ timer.period = ProbeInterval
             /\ timer.slept < ProbeInterval /\ ~rewake
  <2>1. ~excused /\ running /\ ~(stalls > 0) /\ ~IsIdle(watch') /\ timer.period = ProbeInterval
    BY <1>1, <1>7
  <2>2. ~Ready
    BY <1>1, <2>1
  <2>3. stalls \in {0, 1}
    BY <1>0 DEF WatchType
  <2> QED
    BY <1>2, <2>1, <2>2, <2>3 DEF Ready
<1>8. InUse'
  BY <1>1, <1>2, <1>3, <1>7, WatchConstants DEF InUse
<1>9. ProbesPaced'
  BY <1>0, <1>2, <1>3, <1>5, WatchConstants DEF ProbesPaced, MinOf
<1>10. Earned'
  <2>1. dead' \/ watch'.margin = 0
    BY <1>0, <1>1, <1>5 DEF Earned
  <2>2. watch'.silence <= Horizon
    BY <1>2, <1>5, WatchConstants DEF MinOf
  <2>3. IF rx'.frames THEN timer'.slept <= heard' + credit' \/ Horizon <= heard'
                      ELSE watch'.silence <= heard' + credit'
    <3>1. CASE rx.frames
      BY <1>0, <1>1, <1>2, <1>3, <1>4, <3>1, WatchConstants DEF Earned, MinOf
    <3>2. CASE ~rx.frames
      BY <1>0, <1>1, <1>2, <1>4, <1>5, <3>2, WatchConstants DEF Earned, MinOf
    <3> QED
      BY <1>1, <3>1, <3>2
  <2>4. VerdictIsEarned'
    BY <1>1 DEF VerdictIsEarned
  <2> QED
    BY <2>1, <2>2, <2>3, <2>4 DEF Earned
<1>11. Timely'
  <2> SUFFICES ASSUME ~excused'
               PROVE  /\ heard' <= watch'.silence
                      /\ IF rx'.frames THEN heard' + credit' <= timer'.slept
                         ELSE /\ timer'.slept <= heard'
                              /\ Struck'
                              /\ IF watch'.grace = Never THEN NotDueYet' ELSE InGrace'
    BY DEF Timely
  <2>1. /\ heard <= watch.silence
        /\ IF rx.frames THEN heard + credit <= timer.slept
           ELSE /\ timer.slept <= heard
                /\ Struck
                /\ IF watch.grace = Never THEN NotDueYet ELSE InGrace
    BY <1>0, <1>1, <1>7 DEF Timely
  <2>2. heard' <= watch'.silence
    BY <1>2, <1>4, <1>5, <2>1, WatchConstants DEF MinOf
  <2>3. CASE rx.frames
    BY <1>1, <1>2, <1>3, <1>4, <2>1, <2>2, <2>3, WatchConstants DEF MinOf
  <2>4. CASE ~rx.frames
    <3>0. heard' <= heard + 1
      BY <1>2, <1>4, WatchConstants DEF MinOf
    <3>1. timer'.slept <= heard'
      BY <1>2, <1>3, <1>4, <1>7, <2>1, <2>4, WatchConstants DEF MinOf
    <3>2. Struck'
      <4>1. PICK n \in Nat : n = ProbeInterval * (watch.unanswered + 1)
        BY <1>2, WatchConstants, IntervalTimes
      <4>2. watch.unanswered >= Strikes \/ heard < timer.slept + n
        BY <2>1, <2>4, <4>1 DEF Struck
      <4>3. watch.unanswered >= Strikes \/ heard' < timer'.slept + n
        BY <1>2, <1>3, <1>4, <3>0, <4>2
      <4> QED
        BY <1>5, <4>1, <4>3 DEF Struck
    <3>3. CASE watch.grace = Never
      <4>1. PICK rtt \in Rtts :
              heard < timer.slept + MaxOf(DeadAfter(rtt), ProbeInterval * (Strikes + 1))
        BY <2>1, <2>4, <3>3 DEF NotDueYet
      <4>2. PICK n \in Nat : n = MaxOf(DeadAfter(rtt), ProbeInterval * (Strikes + 1))
        BY BudgetTypes
      <4>3. heard' < timer'.slept + n
        BY <1>2, <1>3, <1>4, <3>0, <4>1, <4>2
      <4>4. NotDueYet'
        BY <4>2, <4>3 DEF NotDueYet
      <4>5. watch'.grace = Never
        BY <1>5, <3>3
      <4> QED
        BY <1>1, <2>2, <2>4, <3>1, <3>2, <4>4, <4>5
    <3>4. CASE watch.grace # Never
      <4>0. InGrace /\ watch.grace \in Nat /\ DatagramGrace \in Nat
        BY <1>2, <2>1, <2>4, <3>4, GraceNat
      <4>1. watch'.grace = MinOf(watch.grace + 1, DatagramGrace) /\ watch'.grace \in Nat
        BY <1>5, <3>4, <4>0 DEF MinOf
      <4>2. watch'.grace # Never
        BY <4>1, WatchConstants
      <4>3. \E rtt \in Rtts : heard' < timer'.slept + DetectionBudget(rtt) + DatagramGrace
        <5>1. PICK rtt \in Rtts : heard < timer.slept + DetectionBudget(rtt) + DatagramGrace
          BY <4>0 DEF InGrace
        <5>2. DetectionBudget(rtt) \in Nat
          BY BudgetTypes
        <5> QED
          BY <1>2, <1>3, <1>4, <3>0, <4>0, <5>1, <5>2
      <4>4. ASSUME watch'.grace < DatagramGrace
            PROVE  \E rtt \in Rtts : heard' < DetectionBudget(rtt) + watch'.grace
        <5>1. watch.grace < DatagramGrace /\ watch'.grace = watch.grace + 1
          BY <4>0, <4>1, <4>4 DEF MinOf
        <5>2. PICK rtt \in Rtts : heard < DetectionBudget(rtt) + watch.grace
          BY <4>0, <5>1 DEF InGrace
        <5>3. DetectionBudget(rtt) \in Nat
          BY BudgetTypes
        <5> QED
          BY <1>2, <1>4, <3>0, <4>0, <5>1, <5>2, <5>3
      <4>5. watch'.unanswered >= Strikes
        BY <1>5, <4>0 DEF InGrace
      <4>6. InGrace'
        BY <4>3, <4>4, <4>5 DEF InGrace
      <4> QED
        BY <1>1, <2>2, <2>4, <3>1, <3>2, <4>2, <4>6
    <3> QED
      BY <3>3, <3>4
  <2> QED
    BY <2>3, <2>4
<1> QED
  BY <1>6, <1>8, <1>9, <1>10, <1>11 DEF WatchInv

\* Being scheduled or not is no part of the invariant.
LEMMA SchedulerWatch ==
    ASSUME WatchInv, Starve \/ Resume
    PROVE  WatchInv'
<1>1. /\ UNCHANGED <<watch, stalls, dead, rx, timer, rewake, woke, heard, credit, excused>>
      /\ running' \in BOOLEAN
  BY DEF Starve, Resume, loopVars, history
<1>2. WatchType'
  BY <1>1 DEF WatchInv, WatchType
<1>3. InUse' /\ ProbesPaced'
  BY <1>1 DEF WatchInv, InUse, ProbesPaced, IsIdle
<1>4. Earned'
  BY <1>1 DEF WatchInv, Earned, VerdictIsEarned, Lateness
<1>5. Timely'
  BY <1>1 DEF WatchInv, Timely, Struck, NotDueYet, InGrace
<1> QED
  BY <1>2, <1>3, <1>4, <1>5 DEF WatchInv

\* The transport reads a packet.
LEMMA ReceiveWatch ==
    ASSUME WatchInv, ~dead, NEW packet, Receive(packet), UNCHANGED <<stalls, dead, running, woke>>
    PROVE  WatchInv'
<1>0. WatchType /\ InUse /\ ProbesPaced /\ Earned /\ Timely
  BY DEF WatchInv
<1>1. /\ rx' = [datagrams |-> TRUE, frames |-> rx.frames \/ packet # "forged"]
      /\ watch' = IF packet = "message" /\ stalls = 0 THEN ObserveInbound(watch) ELSE watch
      /\ UNCHANGED <<timer, rewake, stalls, dead, running, woke>>
  BY DEF Receive
<1>2. /\ watch \in WatchStates /\ watch.silence \in Nat
      /\ timer \in Sleeps /\ timer.slept \in Nat /\ timer.period \in Nat \ {0}
      /\ heard \in Nat /\ credit \in Nat /\ rx \in Counters
  BY <1>0, WatchTypes
<1>3. rx' \in Counters /\ (rx'.frames <=> rx.frames \/ packet # "forged")
  BY <1>1, <1>2 DEF Counters
<1>4. woke' \in BOOLEAN
  BY <1>0, <1>1 DEF WatchType
<1>5. VerdictIsEarned'
  BY <1>1 DEF VerdictIsEarned
<1>6. CASE packet = "forged"
  <2>1. UNCHANGED <<watch, heard, credit, excused>> /\ (rx'.frames <=> rx.frames)
    BY <1>1, <1>3, <1>6 DEF Receive, history
  <2>2. WatchType'
    BY <1>0, <1>1, <1>3, <1>4, <2>1 DEF WatchType
  <2>3. InUse' /\ ProbesPaced'
    BY <1>0, <1>1, <2>1 DEF InUse, ProbesPaced, IsIdle
  <2>4. Earned'
    BY <1>0, <1>1, <1>5, <2>1 DEF Earned
  <2>5. Timely'
    BY <1>0, <1>1, <2>1 DEF Timely, Struck, NotDueYet, InGrace
  <2> QED
    BY <2>2, <2>3, <2>4, <2>5 DEF WatchInv
<1>7. CASE packet # "forged"
  <2>1. /\ heard' = 0 /\ credit' = timer.slept
        /\ excused' = (IsIdle(watch) \/ timer.period # ProbeInterval)
    BY <1>7 DEF Receive
  <2>2. rx'.frames
    BY <1>3, <1>7
  <2>3. /\ watch' \in WatchStates /\ watch'.idle = watch.idle /\ watch'.probed = watch.probed
        /\ watch'.margin = watch.margin /\ watch'.silence \in {0, watch.silence}
    BY <1>1, <1>2, ObserveInboundFacts
  <2>4. WatchType'
    BY <1>0, <1>1, <1>2, <1>3, <1>4, <2>1, <2>3 DEF WatchType
  <2>5. InUse' /\ ProbesPaced'
    BY <1>0, <1>1, <2>1, <2>3 DEF InUse, ProbesPaced, IsIdle
  <2>6. Earned'
    <3>1. dead' \/ watch'.margin = 0
      BY <1>0, <1>1, <2>3 DEF Earned
    <3>2. watch'.silence <= Horizon
      BY <1>0, <2>3, WatchConstants DEF Earned
    <3>3. timer'.slept <= heard' + credit'
      BY <1>1, <1>2, <2>1
    <3> QED
      BY <1>5, <2>2, <3>1, <3>2, <3>3 DEF Earned
  <2>7. Timely'
    <3>1. heard' <= watch'.silence
      BY <1>2, <2>1, <2>3
    <3>2. heard' + credit' <= timer'.slept
      BY <1>1, <1>2, <2>1
    <3> QED
      BY <2>2, <3>1, <3>2 DEF Timely
  <2> QED
    BY <2>4, <2>5, <2>6, <2>7 DEF WatchInv
<1> QED
  BY <1>6, <1>7

\* A packet that waits in the socket is no part of the invariant yet.
LEMMA ArriveWatch ==
    ASSUME WatchInv, NEW packet, Arrive(packet)
    PROVE  WatchInv'
<1>1. CASE running
  <2>1. Receive(packet) /\ ~dead /\ UNCHANGED <<stalls, dead, running, woke>>
    BY <1>1 DEF Arrive
  <2> QED
    BY <2>1, ReceiveWatch
<1>2. CASE ~running
  <2>1. UNCHANGED <<watch, stalls, dead, rx, timer, rewake, woke, running, heard, credit, excused>>
    BY <1>2 DEF Arrive, loopVars, history
  <2>2. WatchType'
    BY <2>1 DEF WatchInv, WatchType
  <2>3. InUse' /\ ProbesPaced'
    BY <2>1 DEF WatchInv, InUse, ProbesPaced, IsIdle
  <2>4. Earned'
    BY <2>1 DEF WatchInv, Earned, VerdictIsEarned, Lateness
  <2>5. Timely'
    BY <2>1 DEF WatchInv, Timely, Struck, NotDueYet, InGrace
  <2> QED
    BY <2>2, <2>3, <2>4, <2>5 DEF WatchInv
<1> QED
  BY <1>1, <1>2

LEMMA ReadSocketWatch ==
    ASSUME WatchInv, ReadSocket
    PROVE  WatchInv'
<1>1. PICK packet : packet = socket
  OBVIOUS
<1>2. Receive(packet) /\ ~dead /\ UNCHANGED <<stalls, dead, running, woke>>
  BY <1>1 DEF ReadSocket
<1> QED
  BY <1>2, ReceiveWatch

LEMMA ActivityWatch ==
    ASSUME WatchInv, Activity
    PROVE  WatchInv'
<1>0. WatchType /\ InUse /\ ProbesPaced /\ Earned /\ Timely
  BY DEF WatchInv
<1>1. /\ watch' = ObserveActivity(watch) /\ rewake' = (rewake \/ IsIdle(watch)) /\ ~dead
      /\ UNCHANGED <<stalls, dead, rx, timer, woke, running, heard, credit, excused>>
  BY DEF Activity, history
<1>2. watch \in WatchStates
  BY <1>0, WatchTypes
<1>3. /\ watch' \in WatchStates /\ watch'.silence = watch.silence
      /\ watch'.unanswered = watch.unanswered /\ watch'.grace = watch.grace
      /\ watch'.margin = watch.margin /\ watch'.idle = 0 /\ watch'.probed = watch.probed
  BY <1>1, <1>2, ActivityFacts
<1>4. WatchType'
  BY <1>0, <1>1, <1>3 DEF WatchType
<1>5. InUse' /\ ProbesPaced'
  <2>1. ~IsIdle(watch')
    BY <1>3, WatchConstants DEF IsIdle
  <2>2. ASSUME ~excused' PROVE rewake' = rewake
    BY <1>0, <1>1, <2>2 DEF InUse, WatchType
  <2>3. InUse'
    BY <1>0, <1>1, <2>1, <2>2 DEF InUse
  <2>4. ProbesPaced'
    BY <1>0, <1>1, <1>3 DEF ProbesPaced
  <2> QED
    BY <2>3, <2>4
<1>6. Earned'
  BY <1>0, <1>1, <1>3 DEF Earned, VerdictIsEarned
<1>7. Timely'
  BY <1>0, <1>1, <1>3 DEF Timely, Struck, NotDueYet, InGrace
<1> QED
  BY <1>4, <1>5, <1>6, <1>7 DEF WatchInv

LEMMA StallWatch ==
    ASSUME WatchInv, Stall
    PROVE  WatchInv'
<1>1. /\ stalls' = 1 /\ ~dead
      /\ UNCHANGED <<watch, dead, rx, timer, rewake, woke, running, heard, credit, excused>>
  BY DEF Stall, loopVars, history
<1>2. WatchType'
  BY <1>1 DEF WatchInv, WatchType
<1>3. InUse' /\ ProbesPaced'
  BY <1>1 DEF WatchInv, InUse, ProbesPaced, IsIdle
<1>4. Earned'
  BY <1>1 DEF WatchInv, Earned, VerdictIsEarned
<1>5. Timely'
  BY <1>1 DEF Timely
<1> QED
  BY <1>2, <1>3, <1>4, <1>5 DEF WatchInv

LEMMA UnstallWatch ==
    ASSUME WatchInv, Unstall
    PROVE  WatchInv'
<1>0. WatchType /\ ProbesPaced /\ Earned
  BY DEF WatchInv
<1>1. /\ stalls' = 0 /\ ~dead /\ watch' = RestartSilenceClock(watch) /\ excused' = TRUE
      /\ UNCHANGED <<dead, rx, timer, rewake, woke, running, heard, credit>>
  BY DEF Unstall, loopVars
<1>2. watch \in WatchStates /\ heard \in Nat /\ credit \in Nat
  BY <1>0, WatchTypes
<1>3. /\ watch' \in WatchStates /\ watch'.silence = 0 /\ watch'.margin = 0
      /\ watch'.probed = watch.probed
  BY <1>1, <1>2, RestartFacts
<1>4. WatchType'
  BY <1>0, <1>1, <1>3 DEF WatchType
<1>5. InUse' /\ ProbesPaced' /\ Timely'
  BY <1>0, <1>1, <1>3 DEF InUse, ProbesPaced, Timely
<1>6. Earned'
  BY <1>0, <1>1, <1>2, <1>3, WatchConstants DEF Earned, VerdictIsEarned
<1> QED
  BY <1>4, <1>5, <1>6 DEF WatchInv

\* A path that was dead and answers again is watched from scratch.
LEMMA ReviveWatch ==
    ASSUME WatchInv, Revive
    PROVE  WatchInv'
<1>0. WatchType
  BY DEF WatchInv
<1>1. /\ dead' = FALSE /\ watch' = NewState /\ rx' = Unmoved
      /\ timer' = [slept |-> 0, period |-> Cadence(NewState)]
      /\ woke' = FALSE /\ heard' = 0 /\ credit' = 0 /\ excused' = FALSE
      /\ UNCHANGED <<stalls, rewake, running>>
  BY DEF Revive, NextRound
<1>2. Cadence(NewState) = ProbeInterval
  BY NewStateFacts, CadenceFacts, WatchConstants DEF IsIdle
<1>3. WatchType'
  BY <1>0, <1>1, <1>2, NewStateFacts, WatchConstants DEF WatchType, Unmoved, Counters, Sleeps
<1>4. InUse'
  BY <1>1, <1>2, NewStateFacts, WatchConstants DEF InUse, IsIdle
<1>5. ProbesPaced'
  BY <1>1, NewStateFacts, WatchConstants DEF ProbesPaced, MinOf
<1>6. Earned'
  BY <1>1, NewStateFacts, WatchConstants DEF Earned, VerdictIsEarned, Unmoved
<1>7. Timely'
  <2>1. PICK rtt \in Rtts : TRUE
    BY WatchConstants
  <2>2. MaxOf(DeadAfter(rtt), ProbeInterval * (Strikes + 1)) > 0
    BY BudgetTypes
  <2>3. ProbeInterval * (0 + 1) = ProbeInterval
    BY WatchConstants, IntervalTimes
  <2>4. Struck'
    BY <1>1, <2>3, NewStateFacts, WatchConstants DEF Struck
  <2>5. NotDueYet'
    <3>1. /\ MaxOf(DeadAfter(rtt), ProbeInterval * (Strikes + 1)) \in Nat
          /\ heard' = 0 /\ timer'.slept = 0
      BY <1>1, BudgetTypes
    <3>2. heard' < timer'.slept + MaxOf(DeadAfter(rtt), ProbeInterval * (Strikes + 1))
      BY <2>2, <3>1
    <3> QED
      BY <3>2 DEF NotDueYet
  <2> QED
    BY <1>1, <2>4, <2>5, NewStateFacts DEF Timely, Unmoved
<1> QED
  BY <1>3, <1>4, <1>5, <1>6, <1>7 DEF WatchInv

\* What a sample leaves of the silence is earned, whether frames moved or not.
LEMMA SampledEarned ==
    ASSUME WatchType, Earned, NEW w \in WatchStates, w.silence <= watch.silence
    PROVE  Sampled(w).silence <= heard + credit /\ Sampled(w).silence <= Horizon
<1>1. /\ watch.silence \in Nat /\ timer \in Sleeps /\ timer.slept \in Nat /\ rx \in Counters
      /\ heard \in Nat /\ credit \in Nat /\ w.silence \in Nat /\ Horizon \in Nat
  BY WatchTypes, WatchConstants DEF WatchStates
<1>2. Sampled(w).silence = IF rx.frames THEN MinOf(w.silence, timer.slept) ELSE w.silence
  BY <1>1, SampledFacts
<1>3. /\ watch.silence <= Horizon
      /\ IF rx.frames THEN timer.slept <= heard + credit \/ Horizon <= heard
                      ELSE watch.silence <= heard + credit
  BY DEF Earned
<1>4. CASE rx.frames
  BY <1>1, <1>2, <1>3, <1>4 DEF MinOf
<1>5. CASE ~rx.frames
  BY <1>1, <1>2, <1>3, <1>5
<1> QED
  BY <1>4, <1>5

\* Back from idle: the round is cut short and judges nothing.
LEMMA RetimeWatch ==
    ASSUME WatchInv, Retime
    PROVE  WatchInv'
<1>0. WatchType /\ InUse /\ ProbesPaced /\ Earned /\ Timely
  BY DEF WatchInv
<1>1. /\ rewake /\ ~dead /\ rewake' = FALSE /\ watch' = Sampled(watch) /\ rx' = Unmoved
      /\ timer' = [slept |-> 0, period |-> Cadence(watch')]
      /\ UNCHANGED <<stalls, dead, woke, running, heard, credit, excused>>
  BY DEF Retime, NextRound, history
<1>2. /\ watch \in WatchStates /\ watch.silence \in Nat /\ watch.unanswered \in Nat
      /\ watch.grace \in Nat \cup {Never} /\ timer \in Sleeps /\ timer.slept \in Nat
      /\ rx \in Counters /\ heard \in Nat /\ credit \in Nat
  BY <1>0, WatchTypes
<1>3. /\ watch' \in WatchStates
      /\ watch'.silence = IF rx.frames THEN MinOf(watch.silence, timer.slept) ELSE watch.silence
      /\ watch'.unanswered = IF rx.frames THEN 0 ELSE watch.unanswered
      /\ watch'.grace = IF rx.frames THEN Never ELSE watch.grace
      /\ watch'.margin = watch.margin /\ watch'.idle = watch.idle
  BY <1>1, <1>2, SampledFacts
<1>4. rx' \in Counters /\ ~rx'.frames
  BY <1>1 DEF Unmoved, Counters
<1>5. timer' \in Sleeps /\ timer'.slept = 0 /\ timer'.period = Cadence(watch')
  BY <1>1, CadenceFacts DEF Sleeps
<1>6. WatchType'
  BY <1>0, <1>1, <1>3, <1>4, <1>5 DEF WatchType
<1>7. InUse'
  <2>1. ASSUME ~excused' PROVE ~IsIdle(watch')
    BY <1>0, <1>1, <1>3, <2>1 DEF InUse, IsIdle
  <2>2. ASSUME ~excused' PROVE timer'.period = ProbeInterval
    BY <1>5, <2>1, <2>2, CadenceFacts
  <2> QED
    BY <1>1, <1>5, <2>1, <2>2, WatchConstants DEF InUse
<1>8. ProbesPaced'
  BY <1>3, <1>5, WatchConstants DEF ProbesPaced, MinOf, WatchStates
<1>9. Earned'
  <2>1. watch'.silence <= heard + credit /\ watch'.silence <= Horizon
    BY <1>0, <1>1, <1>2, SampledEarned
  <2>2. dead' \/ watch'.margin = 0
    BY <1>0, <1>1, <1>3 DEF Earned
  <2>3. VerdictIsEarned'
    BY <1>1 DEF VerdictIsEarned
  <2> QED
    BY <1>1, <1>4, <2>1, <2>2, <2>3 DEF Earned
<1>10. Timely'
  <2> SUFFICES ASSUME ~excused', stalls' = 0
               PROVE  /\ heard' <= watch'.silence
                      /\ timer'.slept <= heard'
                      /\ Struck'
                      /\ IF watch'.grace = Never THEN NotDueYet' ELSE InGrace'
    BY <1>4 DEF Timely
  <2>1. heard' = 0
    BY <1>0, <1>1 DEF InUse
  <2>2. watch'.silence \in Nat /\ watch'.unanswered \in Nat /\ watch'.grace \in Nat \cup {Never}
    BY <1>3 DEF WatchStates
  <2>3. PICK n \in Nat : n = ProbeInterval * (watch'.unanswered + 1) /\ n > 0
    <3>1. ProbeInterval * watch'.unanswered \in Nat
          /\ ProbeInterval * (watch'.unanswered + 1) = ProbeInterval * watch'.unanswered + ProbeInterval
      BY <2>2, WatchConstants, IntervalTimes
    <3> QED
      BY <3>1, WatchConstants
  <2>4. Struck'
    BY <1>5, <2>1, <2>3 DEF Struck
  <2>5. PICK rtt \in Rtts : TRUE
    BY WatchConstants
  <2>6. PICK b \in Nat : b = MaxOf(DeadAfter(rtt), ProbeInterval * (Strikes + 1)) /\ b > 0
    BY BudgetTypes
  <2>7. NotDueYet'
    BY <1>5, <2>1, <2>6 DEF NotDueYet
  <2>8. ASSUME watch'.grace # Never PROVE InGrace'
    <3>1. ~rx.frames /\ watch'.grace = watch.grace /\ watch'.unanswered = watch.unanswered
      BY <1>3, <2>8
    <3>2. watch.unanswered >= Strikes
      BY <1>0, <1>1, <2>8, <3>1 DEF Timely, InGrace
    <3>3. DetectionBudget(rtt) \in Nat /\ DetectionBudget(rtt) > 0 /\ DatagramGrace \in Nat
      BY BudgetTypes, GraceNat
    <3>4. watch'.grace \in Nat
      BY <2>2, <2>8
    <3>5. heard' < timer'.slept + DetectionBudget(rtt) + DatagramGrace
      BY <1>5, <2>1, <3>3
    <3>6. heard' < DetectionBudget(rtt) + watch'.grace
      BY <2>1, <3>3, <3>4
    <3> QED
      BY <3>1, <3>2, <3>5, <3>6 DEF InGrace
  <2> QED
    BY <1>5, <2>1, <2>2, <2>4, <2>7, <2>8
<1> QED
  BY <1>6, <1>7, <1>8, <1>9, <1>10 DEF WatchInv

\* What a round has in hand when it comes to judge w: the silence of the last
\* packet, and either frames that end it or the strikes of the rounds before and
\* a probe of its own.
RoundOf(w) ==
    ~excused /\ stalls = 0 =>
        /\ heard <= w.silence
        /\ IF rx.frames
           THEN /\ w.unanswered = 0 /\ w.grace = Never
                /\ heard < ProbeInterval \/ Probes(w)
           ELSE /\ w.unanswered = watch.unanswered /\ w.grace = watch.grace
                /\ heard = 0 \/ (w.margin = 0 /\ Probes(w))

\* A round that does not rule the path dead has counted its strike, and found
\* that the verdict was not due or that a grace was left.
LEMMA RoundTimely ==
    ASSUME WatchType, InUse, Timely, ~dead, ~excused, stalls = 0, NEW rtt \in Rtts,
           NEW w \in WatchStates, RoundOf(w), ~Dies(w, rtt),
           watch' = Judged(w, rtt), heard' = heard, timer'.slept = 0
    PROVE  /\ heard' <= watch'.silence
           /\ Struck'
           /\ IF watch'.grace = Never THEN NotDueYet' ELSE InGrace'
<1>0. PICK p \in Nat : p = ProbeInterval /\ p # 0
  BY WatchConstants
<1>1. /\ w.silence \in Nat /\ w.unanswered \in Nat /\ w.margin \in Nat
      /\ w.grace \in Nat \cup {Never} /\ timer.slept \in Nat /\ heard \in Nat /\ credit \in Nat
      /\ watch.unanswered \in Nat /\ watch.grace \in Nat \cup {Never}
  BY WatchTypes DEF WatchStates
<1>2. /\ heard <= w.silence
      /\ IF rx.frames
         THEN w.unanswered = 0 /\ w.grace = Never /\ (heard < ProbeInterval \/ Probes(w))
         ELSE /\ w.unanswered = watch.unanswered /\ w.grace = watch.grace
              /\ heard = 0 \/ (w.margin = 0 /\ Probes(w))
  BY DEF RoundOf
<1>3. IF rx.frames THEN heard + credit <= timer.slept
      ELSE /\ timer.slept <= heard
           /\ Struck
           /\ IF watch.grace = Never THEN NotDueYet ELSE InGrace
  BY DEF Timely
<1>4. timer.slept <= p \/ heard = 0
  BY <1>0 DEF InUse
<1>5. /\ watch'.silence = w.silence
      /\ watch'.unanswered =
           (IF Probes(w) THEN MinOf(w.unanswered + 1, Strikes) ELSE w.unanswered)
      /\ watch'.grace = (IF Due(w, rtt) /\ w.grace = Never THEN 0 ELSE w.grace)
  BY JudgedFacts
<1>6. /\ watch'.unanswered \in Nat
      /\ w.unanswered >= Strikes => watch'.unanswered >= Strikes
  BY <1>1, <1>5, WatchConstants DEF MinOf
<1>7. PICK b \in Nat : b = MaxOf(DeadAfter(rtt), p * (Strikes + 1))
  BY <1>0, BudgetTypes
<1>8. DeadAfter(rtt) \in Nat /\ DeadAfter(rtt) <= b /\ p * (Strikes + 1) <= b
      /\ DetectionBudget(rtt) = b + p
  BY <1>0, <1>7, BudgetTypes, DeadAfterNat
<1>9. Strikes \in Nat \ {0} /\ DatagramGrace \in Nat /\ 0 # Never
  BY WatchConstants, GraceNat
<1>10. PICK n \in Nat : n = p * (watch'.unanswered + 1) /\ p <= n
  <2>1. p * watch'.unanswered \in Nat /\ p * (watch'.unanswered + 1) = p * watch'.unanswered + p
    BY <1>0, <1>6, IntervalTimes
  <2> QED
    BY <1>0, <2>1
<1>17. p < b
  <2>1. PICK a \in Nat : Strikes = a + 1
    <3>1. Strikes - 1 \in Nat /\ Strikes = (Strikes - 1) + 1
      BY <1>9
    <3> QED
      BY <3>1
  <2>2. p * Strikes = p * a + p /\ p * a \in Nat
    BY <1>0, <2>1, IntervalTimes
  <2>3. p * (Strikes + 1) = p * Strikes + p
    BY <1>0, <1>9, IntervalTimes
  <2> QED
    BY <1>0, <1>8, <2>2, <2>3
<1>11. ASSUME heard < b PROVE NotDueYet'
  BY <1>0, <1>1, <1>7, <1>11 DEF NotDueYet
<1>12. ASSUME heard < n PROVE Struck'
  BY <1>0, <1>1, <1>10, <1>12 DEF Struck
<1>13. ASSUME w.unanswered >= Strikes, NEW r \in Rtts, NEW g \in Nat, watch'.grace = g,
              heard < DetectionBudget(r) + g, g <= DatagramGrace
       PROVE  InGrace'
  <2>1. DetectionBudget(r) \in Nat
    BY BudgetTypes
  <2>2. heard' < timer'.slept + DetectionBudget(r) + DatagramGrace
    BY <1>1, <1>9, <1>13, <2>1
  <2>3. heard' < DetectionBudget(r) + watch'.grace
    BY <1>13
  <2> QED
    BY <1>6, <1>13, <2>2, <2>3 DEF InGrace
<1>14. CASE rx.frames
  <2>1. heard <= p
    BY <1>1, <1>3, <1>4, <1>14
  <2>2. ~Due(w, rtt)
    BY <1>2, <1>9, <1>14 DEF Due
  <2>3. watch'.grace = Never
    BY <1>2, <1>5, <1>14, <2>2
  <2>4. heard < b
    BY <1>0, <1>1, <1>17, <2>1
  <2>5. heard < n
    <3>1. CASE heard < p
      BY <1>0, <1>1, <1>10, <3>1
    <3>2. CASE Probes(w)
      <4>1. watch'.unanswered = 1
        BY <1>2, <1>5, <1>9, <1>14, <3>2 DEF MinOf
      <4>2. p * (1 + 1) = p + p
        BY <1>0
      <4> QED
        BY <1>0, <1>1, <1>10, <2>1, <4>1, <4>2
    <3> QED
      BY <1>0, <1>2, <1>14, <3>1, <3>2
  <2> QED
    BY <1>2, <1>5, <1>11, <1>12, <2>3, <2>4, <2>5
<1>15. CASE ~rx.frames /\ heard = 0
  <2>1. heard < b /\ heard < n
    BY <1>0, <1>10, <1>15, <1>17
  <2>2. ASSUME watch'.grace # Never PROVE InGrace'
    <3>1. CASE Due(w, rtt) /\ w.grace = Never
      <4>1. w.unanswered >= Strikes /\ watch'.grace = 0
        BY <1>5, <3>1 DEF Due
      <4>2. heard < DetectionBudget(rtt) + 0
        BY <1>0, <1>8, <1>15
      <4> QED
        BY <1>9, <1>13, <4>1, <4>2
    <3>2. CASE ~(Due(w, rtt) /\ w.grace = Never)
      <4>1. watch'.grace = w.grace /\ w.grace = watch.grace /\ w.unanswered = watch.unanswered
        BY <1>2, <1>5, <1>15, <3>2
      <4>2. watch'.grace \in Nat
        BY <1>1, <2>2, <4>1
      <4>3. watch'.unanswered >= Strikes
        BY <1>3, <1>6, <1>15, <2>2, <4>1 DEF InGrace
      <4>4. heard' < timer'.slept + DetectionBudget(rtt) + DatagramGrace
        BY <1>0, <1>8, <1>9, <1>15
      <4>5. heard' < DetectionBudget(rtt) + watch'.grace
        BY <1>0, <1>8, <1>15, <4>2
      <4> QED
        BY <4>3, <4>4, <4>5 DEF InGrace
    <3> QED
      BY <3>1, <3>2
  <2> QED
    BY <1>2, <1>5, <1>11, <1>12, <2>1, <2>2
<1>16. CASE ~rx.frames /\ heard # 0
  <2>1. /\ w.unanswered = watch.unanswered /\ w.grace = watch.grace /\ w.margin = 0 /\ Probes(w)
        /\ timer.slept <= p
    BY <1>2, <1>4, <1>16
  <2>2. watch'.unanswered = MinOf(w.unanswered + 1, Strikes)
    BY <1>5, <2>1
  <2>3. PICK m \in Nat : m = p * (w.unanswered + 1)
    BY <1>0, <1>1, IntervalTimes
  <2>4. w.unanswered >= Strikes \/ heard < timer.slept + m
    BY <1>0, <1>3, <1>16, <2>1, <2>3 DEF Struck
  <2>5. w.unanswered >= Strikes \/ heard < m + p
    BY <1>0, <1>1, <2>1, <2>4
  <2>6. p * ((w.unanswered + 1) + 1) = m + p
    BY <1>0, <1>1, <2>3, IntervalTimes
  <2>7. Struck'
    <3>1. CASE watch'.unanswered >= Strikes
      BY <3>1 DEF Struck
    <3>2. CASE ~(watch'.unanswered >= Strikes)
      <4>1. watch'.unanswered = w.unanswered + 1 /\ ~(w.unanswered >= Strikes)
        BY <1>1, <1>9, <2>2, <3>2 DEF MinOf
      <4>2. n = m + p
        BY <1>10, <2>6, <4>1
      <4> QED
        BY <1>12, <2>5, <4>1, <4>2
    <3> QED
      BY <3>1, <3>2
  <2>8. CASE w.grace = Never /\ ~Due(w, rtt)
    <3>1. watch'.grace = Never
      BY <1>5, <2>8
    <3>2. CASE w.unanswered >= Strikes
      <4>1. ~(w.silence >= DeadAfter(rtt) + w.margin)
        BY <2>8, <3>2 DEF Due
      <4>2. heard < b
        BY <1>1, <1>2, <1>8, <2>1, <4>1
      <4> QED
        BY <1>2, <1>5, <1>11, <2>7, <3>1, <4>2
    <3>3. CASE ~(w.unanswered >= Strikes)
      <4>1. (w.unanswered + 1) + 1 <= Strikes + 1
        BY <1>1, <1>9, <3>3
      <4>2. p * ((w.unanswered + 1) + 1) <= p * (Strikes + 1)
        <5>1. PICK i \in Nat : i = (w.unanswered + 1) + 1
          BY <1>1
        <5>2. PICK j \in Nat : j = Strikes + 1
          BY <1>9
        <5> QED
          BY <1>0, <4>1, <5>1, <5>2, IntervalTimesMonotone
      <4>3. PICK q \in Nat : q = p * (Strikes + 1)
        BY <1>0, <1>9, IntervalTimes
      <4>4. heard < b
        BY <1>0, <1>1, <1>8, <2>5, <2>6, <3>3, <4>2, <4>3
      <4> QED
        BY <1>2, <1>5, <1>11, <2>7, <3>1, <4>4
    <3> QED
      BY <3>2, <3>3
  <2>9. CASE w.grace = Never /\ Due(w, rtt)
    <3>1. w.unanswered >= Strikes /\ watch'.grace = 0
      BY <1>5, <2>9 DEF Due
    <3>2. PICK r \in Rtts : heard < timer.slept + MaxOf(DeadAfter(r), p * (Strikes + 1))
      BY <1>0, <1>3, <1>16, <2>1, <2>9 DEF NotDueYet
    <3>3. PICK c \in Nat : c = MaxOf(DeadAfter(r), p * (Strikes + 1)) /\ DetectionBudget(r) = c + p
      BY <1>0, BudgetTypes
    <3>4. heard < DetectionBudget(r) + 0
      BY <1>0, <1>1, <2>1, <3>2, <3>3
    <3>5. InGrace'
      BY <1>9, <1>13, <3>1, <3>4
    <3> QED
      BY <1>2, <1>5, <1>9, <2>7, <3>1, <3>5
  <2>10. CASE w.grace # Never
    <3>1. watch'.grace = w.grace /\ w.grace \in Nat
      BY <1>1, <1>5, <2>10
    <3>2. InGrace
      BY <1>3, <1>16, <2>1, <2>10
    <3>3. w.unanswered >= Strikes
      BY <2>1, <3>2 DEF InGrace
    <3>4. CASE ~Due(w, rtt)
      <4>1. ~(w.silence >= DeadAfter(rtt) + w.margin)
        BY <3>3, <3>4 DEF Due
      <4>2. heard < DetectionBudget(rtt)
        BY <1>0, <1>1, <1>2, <1>8, <2>1, <4>1
      <4>3. DetectionBudget(rtt) \in Nat
        BY BudgetTypes
      <4>4. heard' < timer'.slept + DetectionBudget(rtt) + DatagramGrace
        BY <1>1, <1>9, <4>2, <4>3
      <4>5. heard' < DetectionBudget(rtt) + watch'.grace
        BY <1>1, <3>1, <4>2, <4>3
      <4>6. InGrace'
        BY <1>6, <3>3, <4>4, <4>5 DEF InGrace
      <4> QED
        BY <1>2, <1>5, <2>7, <2>10, <3>1, <4>6
    <3>5. CASE Due(w, rtt)
      <4>1. w.grace < DatagramGrace
        BY <1>9, <2>10, <3>1, <3>5 DEF Dies
      <4>2. PICK r \in Rtts : heard < DetectionBudget(r) + w.grace
        BY <2>1, <3>2, <4>1 DEF InGrace
      <4>3. InGrace'
        BY <1>9, <1>13, <3>1, <3>3, <4>1, <4>2
      <4> QED
        BY <1>2, <1>5, <2>7, <2>10, <3>1, <4>3
    <3> QED
      BY <3>4, <3>5
  <2> QED
    BY <2>8, <2>9, <2>10
<1> QED
  BY <1>14, <1>15, <1>16

\* Every round of the loop that judges, whatever began it.
LEMMA JudgeWatch ==
    ASSUME WatchInv, ~dead, NEW rtt \in Rtts, NEW w \in WatchStates,
           w.silence <= heard + credit, w.silence <= Horizon,
           w.idle \in {0, watch.idle}, w.probed = watch.probed, RoundOf(w),
           stalls = 0 /\ Dies(w, rtt) =>
               heard + credit >= DeadAfter(rtt) + (IF woke' THEN 0 ELSE 2 * Lateness),
           Judge(w, rtt), woke' \in BOOLEAN,
           UNCHANGED <<stalls, rewake, running, heard, credit, excused>>
    PROVE  WatchInv'
<1>0. WatchType /\ InUse /\ ProbesPaced /\ Earned /\ Timely
  BY DEF WatchInv
<1>1. /\ dead' = (stalls = 0 /\ Dies(w, rtt))
      /\ watch' = IF stalls > 0 THEN RestartSilenceClock(w)
                  ELSE IF stalls = 0 /\ Dies(w, rtt) THEN w ELSE Judged(w, rtt)
      /\ IF stalls = 0 /\ Dies(w, rtt) THEN UNCHANGED <<rx, timer>> ELSE NextRound(watch')
  BY DEF Judge
<1>2. /\ stalls \in {0, 1} /\ timer \in Sleeps /\ timer.slept \in Nat /\ rx \in Counters
      /\ heard \in Nat /\ credit \in Nat /\ w.silence \in Nat /\ w.idle \in Nat
  BY <1>0, WatchTypes DEF WatchType, WatchStates
<1>3. ASSUME ~excused PROVE ~IsIdle(w)
  BY <1>0, <1>3, WatchConstants DEF InUse, IsIdle
<1>4. CASE stalls = 0 /\ Dies(w, rtt)
  <2>0. ~(stalls > 0)
    BY <1>4
  <2>1. dead' = TRUE /\ watch' = w /\ UNCHANGED <<rx, timer>>
    BY <1>1, <1>4, <2>0, Zenon
  <2>2. WatchType'
    BY <1>0, <2>1 DEF WatchType
  <2>3. InUse'
    BY <1>0, <1>3, <2>1 DEF InUse
  <2>4. ProbesPaced'
    BY <1>0, <2>1 DEF ProbesPaced
  <2>5. VerdictIsEarned'
    <3>1. Lateness' = Lateness
      BY <2>1 DEF Lateness
    <3>2. heard + credit >= DeadAfter(rtt) + (IF woke' THEN 0 ELSE 2 * Lateness')
      BY <1>4, <3>1
    <3> QED
      BY <3>2 DEF VerdictIsEarned
  <2>6. Earned'
    BY <1>0, <2>1, <2>5 DEF Earned
  <2>7. Timely'
    BY <2>1 DEF Timely
  <2> QED
    BY <2>2, <2>3, <2>4, <2>6, <2>7 DEF WatchInv
<1>5. CASE ~(stalls = 0 /\ Dies(w, rtt))
  <2>1. /\ dead' = FALSE /\ NextRound(watch')
        /\ watch' = IF stalls > 0 THEN RestartSilenceClock(w) ELSE Judged(w, rtt)
    BY <1>1, <1>5
  <2>2. /\ watch' \in WatchStates /\ watch'.idle = w.idle /\ watch'.margin = 0
        /\ watch'.silence \in {0, w.silence}
    BY <2>1, RestartFacts, JudgedFacts
  <2>3. rx' \in Counters /\ ~rx'.frames
    BY <2>1 DEF NextRound, Unmoved, Counters
  <2>4. timer' \in Sleeps /\ timer'.slept = 0 /\ timer'.period = Cadence(watch')
    BY <2>1, CadenceFacts DEF NextRound, Sleeps
  <2>5. WatchType'
    BY <1>0, <2>1, <2>2, <2>3, <2>4 DEF WatchType
  <2>6. InUse'
    <3>1. ASSUME ~excused' PROVE ~IsIdle(watch')
      BY <1>3, <2>2, <3>1 DEF IsIdle
    <3>2. ASSUME ~excused' PROVE timer'.period = ProbeInterval
      BY <2>4, <3>1, <3>2, CadenceFacts
    <3> QED
      BY <1>0, <2>4, <3>1, <3>2, WatchConstants DEF InUse
  <2>7. ProbesPaced'
    BY <2>2, <2>4, WatchConstants DEF ProbesPaced, MinOf, WatchStates
  <2>8. Earned'
    <3>1. watch'.silence <= Horizon /\ watch'.silence <= heard + credit
      BY <1>2, <2>2, WatchConstants
    <3>2. VerdictIsEarned'
      BY <2>1 DEF VerdictIsEarned
    <3> QED
      BY <2>2, <2>3, <3>1, <3>2 DEF Earned
  <2>9. Timely'
    <3> SUFFICES ASSUME ~excused', stalls' = 0
                 PROVE  /\ heard' <= watch'.silence
                        /\ timer'.slept <= heard'
                        /\ Struck'
                        /\ IF watch'.grace = Never THEN NotDueYet' ELSE InGrace'
      BY <2>3 DEF Timely
    <3>0. stalls = 0 /\ ~excused
      OBVIOUS
    <3>1. watch' = Judged(w, rtt) /\ ~Dies(w, rtt)
      <4>1. ~(stalls > 0)
        BY <3>0
      <4> QED
        BY <1>5, <2>1, <3>0, <4>1, Zenon
    <3>2. timer'.slept <= heard'
      BY <1>2, <2>4
    <3> QED
      BY <1>0, <2>4, <3>0, <3>1, <3>2, RoundTimely
  <2> QED
    BY <2>5, <2>6, <2>7, <2>8, <2>9 DEF WatchInv
<1> QED
  BY <1>4, <1>5

\* The timer arm: a tick that is late by a self-delay asks for it twice.
LEMMA TimerFiresWatch ==
    ASSUME WatchInv, NEW rtt \in Rtts, TimerFires(rtt)
    PROVE  WatchInv'
<1>0. WatchType /\ InUse /\ ProbesPaced /\ Earned /\ Timely
  BY DEF WatchInv
<1>1. /\ ~dead /\ timer.slept >= timer.period
      /\ UNCHANGED <<stalls, rewake, woke, running, heard, credit, excused>>
  BY DEF TimerFires, history
<1>2. /\ watch \in WatchStates /\ watch.silence \in Nat /\ watch.margin = 0 /\ watch.probed \in Nat
      /\ timer \in Sleeps /\ timer.slept \in Nat /\ timer.period \in Nat \ {0} /\ rx \in Counters
      /\ heard \in Nat /\ credit \in Nat /\ woke \in BOOLEAN
  BY <1>0, <1>1, WatchTypes DEF Earned, WatchType
<1>3. PICK slept \in Nat : slept = timer.slept
  BY <1>2
<1>4. PICK period \in Nat \ {0} : period = timer.period
  BY <1>2
<1>5. PICK late \in Nat : late = Monus(slept, period)
  BY <1>3, <1>4, MonusFacts
<1>6. PICK v \in WatchStates : v = ObserveTick(watch, slept, period)
  BY <1>2, TickFacts
<1>7. /\ late < ProbeInterval => v = watch
      /\ ~(late < ProbeInterval) => v.silence = Monus(watch.silence, late) /\ v.margin = late
      /\ v.unanswered = watch.unanswered /\ v.grace = watch.grace /\ v.idle = watch.idle
      /\ v.probed = watch.probed
  <2>1. /\ IF Monus(slept, period) < ProbeInterval
              THEN ObserveTick(watch, slept, period) = watch
              ELSE /\ ObserveTick(watch, slept, period).silence =
                        Monus(watch.silence, Monus(slept, period))
                   /\ ObserveTick(watch, slept, period).margin = Monus(slept, period)
        /\ ObserveTick(watch, slept, period).unanswered = watch.unanswered
        /\ ObserveTick(watch, slept, period).grace = watch.grace
        /\ ObserveTick(watch, slept, period).idle = watch.idle
        /\ ObserveTick(watch, slept, period).probed = watch.probed
    <3>1. watch \in WatchStates /\ slept \in Nat /\ period \in Nat
      BY <1>2
    <3> QED
      BY <3>1, TickFacts, ZenonT(30)
  <2> QED
    BY <1>5, <1>6, <2>1, Zenon
<1>8. PICK w \in WatchStates : w = Sampled(v)
  BY <1>2, SampledFacts
<1>9. /\ w.silence = IF rx.frames THEN MinOf(v.silence, slept) ELSE v.silence
      /\ w.unanswered = IF rx.frames THEN 0 ELSE v.unanswered
      /\ w.grace = IF rx.frames THEN Never ELSE v.grace
      /\ w.margin = v.margin /\ w.idle = v.idle /\ w.probed = v.probed
  BY <1>2, <1>3, <1>8, SampledFacts
<1>10. v.silence <= watch.silence /\ v.silence \in Nat
  <2>1. CASE late < ProbeInterval
    BY <1>2, <1>7, <2>1
  <2>2. CASE ~(late < ProbeInterval)
    <3>1. Monus(watch.silence, late) \in Nat /\ Monus(watch.silence, late) <= watch.silence
      BY <1>2, MonusFacts
    <3> QED
      BY <1>7, <2>2, <3>1
  <2> QED
    BY <2>1, <2>2
<1>11. w.silence <= heard + credit /\ w.silence <= Horizon
  BY <1>0, <1>8, <1>10, SampledEarned
<1>12. Judge(w, rtt)
  BY <1>3, <1>4, <1>6, <1>8 DEF TimerFires
<1>13. Dies(w, rtt) => heard + credit >= DeadAfter(rtt) + (IF woke' THEN 0 ELSE 2 * Lateness)
  <2> SUFFICES ASSUME Dies(w, rtt)
               PROVE  heard + credit >= DeadAfter(rtt) + (IF woke' THEN 0 ELSE 2 * Lateness)
    OBVIOUS
  <2>1. w.unanswered >= Strikes /\ w.silence >= DeadAfter(rtt) + w.margin
    BY DEF Dies, Due
  <2>2. ~rx.frames
    BY <1>9, <2>1, WatchConstants
  <2>3. v.silence >= DeadAfter(rtt) + v.margin /\ watch.silence <= heard + credit
    BY <1>0, <1>9, <2>1, <2>2 DEF Earned
  <2>4. DeadAfter(rtt) \in Nat /\ ProbeInterval \in Nat \ {0}
    BY DeadAfterNat, WatchConstants
  <2>5. Lateness = IF late >= ProbeInterval THEN late ELSE 0
    BY <1>3, <1>4, <1>5 DEF Lateness, SelfDelayThreshold
  <2>6. CASE late < ProbeInterval
    <3>1. Lateness = 0 /\ v = watch
      BY <1>5, <1>7, <2>4, <2>5, <2>6
    <3> QED
      BY <1>2, <2>3, <2>4, <3>1
  <2>7. CASE ~(late < ProbeInterval)
    <3>1. Lateness = late /\ v.silence = Monus(watch.silence, late) /\ v.margin = late
      BY <1>5, <1>7, <2>4, <2>5, <2>7
    <3>2. Monus(watch.silence, late) >= DeadAfter(rtt) + late /\ late > 0
      BY <1>5, <2>3, <2>4, <2>7, <3>1
    <3>3. watch.silence >= DeadAfter(rtt) + 2 * late
      BY <1>2, <1>5, <2>4, <3>2 DEF Monus
    <3> QED
      BY <1>2, <1>5, <2>3, <2>4, <3>1, <3>3
  <2> QED
    BY <2>6, <2>7
<1>14. RoundOf(w)
  <2> SUFFICES ASSUME ~excused, stalls = 0
               PROVE  /\ heard <= w.silence
                      /\ IF rx.frames
                         THEN /\ w.unanswered = 0 /\ w.grace = Never
                              /\ heard < ProbeInterval \/ Probes(w)
                         ELSE /\ w.unanswered = watch.unanswered /\ w.grace = watch.grace
                              /\ heard = 0 \/ (w.margin = 0 /\ Probes(w))
    BY DEF RoundOf
  <2>1. /\ ~IsIdle(watch) /\ period = ProbeInterval
        /\ slept <= ProbeInterval \/ heard = 0
    BY <1>0, <1>3, <1>4 DEF InUse
  <2>2. /\ heard <= watch.silence
        /\ IF rx.frames THEN heard + credit <= slept ELSE slept <= heard
    BY <1>0, <1>1, <1>3 DEF Timely
  <2>3. CASE heard = 0
    BY <1>2, <1>7, <1>9, <2>3, WatchConstants DEF WatchStates
  <2>4. CASE heard # 0
    <3>1. slept = ProbeInterval
      BY <1>1, <1>3, <1>4, <2>1, <2>4, WatchConstants
    <3>2. v = watch
      BY <1>3, <1>5, <1>7, <2>1, <3>1, MonusFacts, WatchConstants
    <3>3. heard <= w.silence
      BY <1>2, <1>3, <1>9, <2>2, <3>2 DEF MinOf
    <3>4. ASSUME ~(rx.frames /\ heard < ProbeInterval) PROVE Probes(w)
      <4>0. heard >= ProbeInterval
        BY <1>2, <2>2, <3>1, <3>4, WatchConstants
      <4>1. w.silence >= ProbeInterval
        BY <1>2, <3>3, <4>0, WatchConstants DEF WatchStates
      <4>2. w.probed >= ProbeInterval
        BY <1>0, <1>2, <1>3, <1>9, <3>1, <3>2, WatchConstants DEF ProbesPaced, MinOf
      <4>3. Cadence(w) = ProbeInterval
        BY <1>9, <2>1, <3>2, CadenceFacts DEF IsIdle
      <4> QED
        BY <4>1, <4>2, <4>3 DEF Probes
    <3> QED
      BY <1>2, <1>9, <3>2, <3>3, <3>4
  <2> QED
    BY <2>3, <2>4
<1> QED
  BY <1>1, <1>2, <1>7, <1>9, <1>11, <1>12, <1>13, <1>14, JudgeWatch

\* The wake arm: the probe is forced, and no tick was late.
LEMMA WakesWatch ==
    ASSUME WatchInv, NEW rtt \in Rtts, Wakes(rtt)
    PROVE  WatchInv'
<1>0. WatchType /\ InUse /\ ProbesPaced /\ Earned /\ Timely
  BY DEF WatchInv
<1>1. /\ ~dead /\ woke' = dead'
      /\ UNCHANGED <<stalls, rewake, running, heard, credit, excused>>
  BY DEF Wakes, history
<1>2. /\ watch \in WatchStates /\ watch.silence \in Nat /\ watch.margin = 0
      /\ timer \in Sleeps /\ timer.slept \in Nat /\ rx \in Counters
      /\ heard \in Nat /\ credit \in Nat
  BY <1>0, <1>1, WatchTypes DEF Earned
<1>3. PICK v \in WatchStates : v = ObserveWake(watch)
  BY <1>2, WakeFacts
<1>4. /\ v.silence = watch.silence /\ v.unanswered = watch.unanswered /\ v.grace = watch.grace
      /\ v.margin = 0 /\ v.idle = 0 /\ v.probed = watch.probed /\ v.probeNow = TRUE
  BY <1>2, <1>3, WakeFacts
<1>5. PICK w \in WatchStates : w = Sampled(v)
  BY <1>2, SampledFacts
<1>6. /\ w.silence = IF rx.frames THEN MinOf(v.silence, timer.slept) ELSE v.silence
      /\ w.unanswered = IF rx.frames THEN 0 ELSE v.unanswered
      /\ w.grace = IF rx.frames THEN Never ELSE v.grace
      /\ w.margin = v.margin /\ w.idle = v.idle /\ w.probed = v.probed
      /\ w.probeNow = v.probeNow
  BY <1>2, <1>5, SampledFacts
<1>7. w.silence <= heard + credit /\ w.silence <= Horizon
  BY <1>0, <1>2, <1>4, <1>5, SampledEarned
<1>8. Judge(w, rtt)
  BY <1>3, <1>5 DEF Wakes
<1>12. dead' = (stalls = 0 /\ Dies(w, rtt))
  BY <1>8 DEF Judge
<1>9. stalls = 0 /\ Dies(w, rtt) =>
         heard + credit >= DeadAfter(rtt) + (IF woke' THEN 0 ELSE 2 * Lateness)
  <2> SUFFICES ASSUME stalls = 0, Dies(w, rtt)
               PROVE  heard + credit >= DeadAfter(rtt) + 0
    BY <1>1, <1>12, Zenon
  <2>1. w.silence >= DeadAfter(rtt) + w.margin /\ w.margin = 0
    BY <1>4, <1>6 DEF Dies, Due
  <2>2. w.silence \in Nat
    BY DEF WatchStates
  <2> QED
    BY <1>2, <1>7, <2>1, <2>2, DeadAfterNat
<1>10. RoundOf(w)
  <2>1. Probes(w)
    BY <1>4, <1>6 DEF Probes
  <2>2. ASSUME ~excused, stalls = 0
        PROVE  heard <= watch.silence /\ (rx.frames => heard <= timer.slept)
    BY <1>0, <1>1, <1>2, <2>2 DEF Timely
  <2>3. ASSUME ~excused, stalls = 0 PROVE heard <= w.silence
    BY <1>2, <1>4, <1>6, <2>2, <2>3 DEF MinOf
  <2> QED
    BY <1>4, <1>6, <2>1, <2>3 DEF RoundOf
<1>11. woke' \in BOOLEAN
  BY <1>1, <1>12
<1> QED
  BY <1>1, <1>4, <1>6, <1>7, <1>8, <1>9, <1>10, <1>11, JudgeWatch

LEMMA NextWatch == WatchInv /\ [WatchNext]_watchVars => WatchInv'
<1> SUFFICES ASSUME WatchInv, [WatchNext]_watchVars PROVE WatchInv'
  OBVIOUS
<1>1. CASE Pass
  BY <1>1, PassWatch
<1>2. CASE Starve \/ Resume
  BY <1>2, SchedulerWatch
<1>3. CASE \E i \in DOMAIN Packets : Arrive(Packets[i])
  <2>1. PICK i \in DOMAIN Packets : Arrive(Packets[i])
    BY <1>3
  <2> QED
    BY <2>1, ArriveWatch
<1>4. CASE ReadSocket
  BY <1>4, ReadSocketWatch
<1>5. CASE Activity
  BY <1>5, ActivityWatch
<1>6. CASE Stall
  BY <1>6, StallWatch
<1>7. CASE Unstall
  BY <1>7, UnstallWatch
<1>8. CASE Loop
  <2>1. PICK rtt \in Rtts : TimerFires(rtt) \/ Wakes(rtt)
    BY <1>8 DEF Loop
  <2> QED
    BY <2>1, TimerFiresWatch, WakesWatch
<1>9. CASE Retime
  BY <1>9, RetimeWatch
<1>10. CASE Revive
  BY <1>10, ReviveWatch
<1>11. CASE UNCHANGED watchVars
  <2>1. UNCHANGED <<watch, stalls, dead, rx, timer, rewake, woke, running, heard, credit, excused>>
    BY <1>11 DEF watchVars, loopVars, history
  <2>2. WatchType'
    BY <2>1 DEF WatchInv, WatchType
  <2>3. InUse' /\ ProbesPaced'
    BY <2>1 DEF WatchInv, InUse, ProbesPaced, IsIdle
  <2>4. Earned'
    BY <2>1 DEF WatchInv, Earned, VerdictIsEarned, Lateness
  <2>5. Timely'
    BY <2>1 DEF WatchInv, Timely, Struck, NotDueYet, InGrace
  <2> QED
    BY <2>2, <2>3, <2>4, <2>5 DEF WatchInv
<1> QED
  BY <1>1, <1>2, <1>3, <1>4, <1>5, <1>6, <1>7, <1>8, <1>9, <1>10, <1>11 DEF WatchNext

\* The invariant of the watchdog's loop (watch_path_with_wake with PathState): the
\* strikes keep count of the rounds since the last packet, the silence PathState
\* sees is never longer than its packets justify nor, in a path in use, shorter
\* than the truth, and each round found the verdict not due or a grace left.
THEOREM WatchInvariant == WatchSpec => []WatchInv
<1>1. WatchInit => WatchInv
  BY InitWatch
<1>2. WatchInv /\ [WatchNext]_watchVars => WatchInv'
  BY NextWatch
<1> QED
  BY <1>1, <1>2, PTL DEF WatchSpec

\* verdict() never blames the path for this process's own delay: the last packet
\* is dead_after old when it rules, and older by twice a late tick's delay, unless
\* it is the wake arm that rules.
THEOREM VerdictsAreEarned == WatchSpec => []VerdictIsEarned
<1>1. WatchInv => VerdictIsEarned
  BY DEF WatchInv, Earned
<1> QED
  BY <1>1, WatchInvariant, PTL

\* What the invariant says of the age of the last packet.
LEMMA TimelyDetects == WatchInv => DetectedInTime
<1> SUFFICES ASSUME WatchInv, ~dead, ~excused, ~(stalls > 0)
             PROVE  \E rtt \in Rtts : heard < DetectionBudget(rtt) + GraceBudget
  BY DEF DetectedInTime
<1>1. /\ WatchType /\ stalls = 0
      /\ timer.slept \in Nat /\ heard \in Nat /\ credit \in Nat /\ watch.grace \in Nat \cup {Never}
  BY WatchTypes DEF WatchInv, WatchType
<1>2. timer.slept <= ProbeInterval \/ heard = 0
  BY DEF WatchInv, InUse
<1>3. IF rx.frames THEN heard + credit <= timer.slept
      ELSE IF watch.grace = Never THEN NotDueYet ELSE InGrace
  BY <1>1 DEF WatchInv, Timely
<1>4. GraceBudget \in Nat /\ (watch.grace # Never => GraceBudget = DatagramGrace + ProbeInterval)
  BY GraceNat, WatchConstants DEF GraceBudget
<1>5. ProbeInterval \in Nat /\ DatagramGrace \in Nat
  BY WatchConstants, GraceNat
<1>6. CASE rx.frames \/ heard = 0
  <2>1. PICK rtt \in Rtts : TRUE
    BY WatchConstants
  <2>2. PICK b \in Nat : b = MaxOf(DeadAfter(rtt), ProbeInterval * (Strikes + 1)) /\ b > 0
                           /\ DetectionBudget(rtt) = b + ProbeInterval
    BY BudgetTypes
  <2>3. heard <= ProbeInterval
    BY <1>1, <1>2, <1>3, <1>5, <1>6
  <2> QED
    BY <1>1, <1>4, <1>5, <2>2, <2>3
<1>7. CASE ~rx.frames /\ heard # 0 /\ watch.grace = Never
  <2>1. PICK rtt \in Rtts :
          heard < timer.slept + MaxOf(DeadAfter(rtt), ProbeInterval * (Strikes + 1))
    BY <1>3, <1>7 DEF NotDueYet
  <2>2. PICK b \in Nat : b = MaxOf(DeadAfter(rtt), ProbeInterval * (Strikes + 1))
                           /\ DetectionBudget(rtt) = b + ProbeInterval
    BY BudgetTypes
  <2> QED
    BY <1>1, <1>2, <1>4, <1>5, <1>7, <2>1, <2>2
<1>8. CASE ~rx.frames /\ heard # 0 /\ watch.grace # Never
  <2>1. PICK rtt \in Rtts : heard < timer.slept + DetectionBudget(rtt) + DatagramGrace
    BY <1>3, <1>8 DEF InGrace
  <2>2. DetectionBudget(rtt) \in Nat
    BY BudgetTypes
  <2> QED
    BY <1>1, <1>2, <1>4, <1>5, <1>8, <2>1, <2>2
<1> QED
  BY <1>6, <1>7, <1>8

\* A silent path in use is ruled dead within the budget, whatever unauthenticated
\* datagrams arrive and however many wakes of the machine fall in the silence: for
\* every interval, number of strikes, RTT and delay, where the run fixes small
\* ones.  The budget is the bound of docs/design/protocol.md:396 and less than one
\* probe interval more, less than two with a grace.
THEOREM SilenceIsDetected == WatchSpec => []DetectedInTime
  BY TimelyDetects, WatchInvariant, PTL

\* The ceiling the protocol gives for a path without hints: probe_interval x
\* strikes + dead_after.
DocumentedCeiling ==
    \/ dead \/ excused \/ stalls > 0 \/ watch.grace # Never
    \/ \E rtt \in Rtts : heard <= ProbeInterval * Strikes + DeadAfter(rtt)

\* The documented ceiling holds where dead_after is at least two probe intervals,
\* as in the defaults of attach and of reverse; validate accepts less.
THEOREM CeilingIsKept ==
    ASSUME 2 * ProbeInterval <= MinDeadAfter
    PROVE  WatchSpec => []DocumentedCeiling
<1>1. WatchInv => DocumentedCeiling
  <2> SUFFICES ASSUME WatchInv, ~dead, ~excused, ~(stalls > 0), watch.grace = Never
               PROVE  \E rtt \in Rtts : heard <= ProbeInterval * Strikes + DeadAfter(rtt)
    BY DEF DocumentedCeiling
  <2>1. PICK rtt \in Rtts : heard < DetectionBudget(rtt) + GraceBudget
    BY TimelyDetects DEF DetectedInTime
  <2>2. GraceBudget = 0 /\ heard \in Nat
    BY DEF GraceBudget, WatchInv, WatchType
  <2>3. PICK n \in Nat : n = ProbeInterval * Strikes
    BY WatchConstants, IntervalTimes
  <2>4. ProbeInterval * (Strikes + 1) = n + ProbeInterval /\ ProbeInterval <= n
    <3>1. PICK i \in Nat : Strikes = i + 1
      <4>1. Strikes - 1 \in Nat /\ Strikes = (Strikes - 1) + 1
        BY WatchConstants
      <4> QED
        BY <4>1
    <3>2. n = ProbeInterval * i + ProbeInterval /\ ProbeInterval * i \in Nat
      BY <2>3, <3>1, IntervalTimes, WatchConstants
    <3>3. ProbeInterval * (Strikes + 1) = n + ProbeInterval
      BY <2>3, IntervalTimes, WatchConstants
    <3> QED
      BY <3>2, <3>3, WatchConstants
  <2>5. MinDeadAfter <= DeadAfter(rtt) /\ DeadAfter(rtt) \in Nat
    <3>1. rtt \in Nat /\ RttMultiple \in Nat /\ MinDeadAfter \in Nat
      BY WatchConstants
    <3>2. PICK m \in Nat : m = rtt * RttMultiple
      BY <3>1
    <3> QED
      BY <3>1, <3>2 DEF DeadAfter, MaxOf
  <2>6. DetectionBudget(rtt) <= n + DeadAfter(rtt) /\ DetectionBudget(rtt) \in Nat
    <3>1. PICK d \in Nat : d = DeadAfter(rtt)
      BY <2>5
    <3>2. DetectionBudget(rtt) = MaxOf(d, n + ProbeInterval) + ProbeInterval
      BY <2>4, <3>1 DEF DetectionBudget
    <3> QED
      BY <2>4, <2>5, <3>1, <3>2, WatchConstants DEF MaxOf
  <2>7. heard <= n + DeadAfter(rtt)
    BY <2>1, <2>2, <2>5, <2>6
  <2> QED
    BY <2>3, <2>7
<1> QED
  BY <1>1, WatchInvariant, PTL
=============================================================================
