----------------------------- MODULE ReplayRing -----------------------------
(***************************************************************************)
(* The replay ring of a session (broker/ring.rs): the in-memory log of PTY *)
(* output and control events that every attached consumer reads with a     *)
(* cursor of its own and that is trimmed to a byte budget.                 *)
(*                                                                         *)
(* A byte is its offset in the session's output stream: byte k is the k-th *)
(* one pushed, so a chunk is its start offset and its length.  `push',     *)
(* `push_control' and `read' run under the ring's mutex; each iteration of *)
(* their loops is a step of its own here and `phase' says which loop holds *)
(* the mutex ("free": nobody does).                                        *)
(***************************************************************************)
EXTENDS Integers, SequencesExt, FiniteSetsExt

CONSTANTS
    Budgets,       \* budgets a ring may be created with
    ChunkDivisor,  \* RING_CHUNK_DIVISOR
    ChunkMax,      \* RING_CHUNK_MAX
    CtlCost,       \* CONTROL_ENTRY_COST
    Consumers,     \* the readers of the ring
    ReadSizes,     \* the max_bytes a reader may pass; the callers never pass 0
    MaxPush,       \* bound: bytes in one push
    MaxEnd,        \* bound: bytes pushed over the ring's life
    MaxCtls        \* bound: control events over the ring's life

ASSUME RingConstants ==
    /\ Budgets \subseteq Nat
    /\ ChunkDivisor \in Nat \ {0}
    /\ ChunkMax \in Nat \ {0}
    /\ CtlCost \in Nat \ {0}
    /\ ReadSizes \subseteq Nat \ {0}
    /\ MaxPush \in Nat /\ MaxEnd \in Nat /\ MaxCtls \in Nat

VARIABLES
    budget,    \* fixed by `new'
    entries,   \* the deque: chunks and control entries, oldest first
    retained,  \* what the entries cost, kept incrementally
    end,       \* offset after the newest byte
    nextCtl,   \* id of the next control entry
    lost,      \* lost_ctl: the newest control force-evicted at available_from
    phase,     \* the loop that holds the mutex
    rest,      \* bytes of the push in progress still to append
    rd,        \* locals of the read in progress
    cursor,    \* each consumer's cursor
    ctlAt,     \* history: offset at which control i was pushed
    out        \* history: what the last finished read returned

ringVars == <<budget, entries, retained, end, nextCtl, lost, ctlAt>>
vars == <<ringVars, phase, rest, rd, cursor, out>>

Out(start, len) == [kind |-> "out", pos |-> start, n |-> len]
Ctl(seq, id) == [kind |-> "ctl", pos |-> seq, n |-> id]
Entry == [kind : {"out", "ctl"}, pos : Nat, n : Nat \ {0}]

\* The offset the stream has reached after an entry.
EntryEnd(e) == IF e.kind = "out" THEN e.pos + e.n ELSE e.pos
Cost(e) == IF e.kind = "out" THEN e.n ELSE CtlCost

NoLoss == [seq |-> 0, id |-> 0]
Cursors == [after : Nat, ctl : Nat]
FromOffset(a) == [after |-> a, ctl |-> 0]

Outputs == {i \in DOMAIN entries : entries[i].kind = "out"}
AvailableFrom == IF Outputs = {} THEN end ELSE entries[Min(Outputs)].pos

AtLeastOne(n) == IF n = 0 THEN 1 ELSE n
Lesser(a, b) == IF a <= b THEN a ELSE b
PieceMax == Lesser(AtLeastOne(budget \div ChunkDivisor), ChunkMax)

NoRead == [i |-> 0]
NoOut == [by |-> "nobody"]

-----------------------------------------------------------------------------
Init ==
    /\ budget \in {AtLeastOne(b) : b \in Budgets}
    /\ entries = <<>>
    /\ retained = 0
    /\ end = 0
    /\ nextCtl = 1
    /\ lost = NoLoss
    /\ phase = "free"
    /\ rest = 0
    /\ rd = NoRead
    /\ cursor = [c \in Consumers |-> FromOffset(0)]
    /\ ctlAt = <<>>
    /\ out = NoOut

-----------------------------------------------------------------------------
(* push and push_control *)

Push(n) ==
    /\ phase = "free"
    /\ end + n <= MaxEnd
    /\ rest' = n
    /\ phase' = "append"
    /\ UNCHANGED <<ringVars, rd, cursor, out>>

HasRoom == /\ entries # <<>>
           /\ entries[Len(entries)].kind = "out"
           /\ entries[Len(entries)].n < PieceMax

Coalesce(n) == [entries EXCEPT ![Len(entries)] = Out(@.pos, @.n + n)]

\* One iteration of push: append_output and the counters it moves.
AppendOutput ==
    LET take == Lesser(rest, IF HasRoom THEN PieceMax - entries[Len(entries)].n
                                        ELSE PieceMax)
    IN  /\ phase = "append"
        /\ entries' = IF HasRoom THEN Coalesce(take)
                                 ELSE Append(entries, Out(end, take))
        /\ retained' = retained + take
        /\ end' = end + take
        /\ rest' = rest - take
        /\ phase' = "evict"
        /\ UNCHANGED <<budget, nextCtl, lost, ctlAt, rd, cursor, out>>

PushControl ==
    /\ phase = "free"
    /\ nextCtl <= MaxCtls
    /\ nextCtl' = nextCtl + 1
    /\ entries' = Append(entries, Ctl(end, nextCtl))
    /\ retained' = retained + CtlCost
    /\ ctlAt' = Append(ctlAt, end)
    /\ phase' = "evict"
    /\ UNCHANGED <<budget, end, lost, rest, rd, cursor, out>>

-----------------------------------------------------------------------------
(* evict *)

OverBudget == retained > budget /\ Len(entries) > 1

\* The oldest chunk may go unless it is the newest entry.
Evictable == Outputs # {} /\ Min(Outputs) < Len(entries)

EvictOutput ==
    /\ phase = "evict" /\ OverBudget /\ Evictable
    /\ entries' = RemoveAt(entries, Min(Outputs))
    /\ retained' = retained - Cost(entries[Min(Outputs)])
    /\ phase' = "trim"
    /\ UNCHANGED <<budget, end, nextCtl, lost, ctlAt, rest, rd, cursor, out>>

\* Mutant: the force-evicted control is not taken off the counter.
EvictControlKeepsCost ==
    /\ phase = "evict" /\ OverBudget /\ ~Evictable
    /\ entries' = Tail(entries)
    /\ lost' = [seq |-> entries[1].pos, id |-> entries[1].n]
    /\ phase' = "trim"
    /\ UNCHANGED <<budget, retained, end, nextCtl, ctlAt, rest, rd, cursor, out>>

\* No evictable chunk: the front entry goes, and a control is recorded as lost.
EvictControl ==
    /\ phase = "evict" /\ OverBudget /\ ~Evictable
    /\ entries' = Tail(entries)
    /\ IF entries[1].kind = "ctl"
         THEN /\ retained' = retained - CtlCost
              /\ lost' = [seq |-> entries[1].pos, id |-> entries[1].n]
         ELSE UNCHANGED <<retained, lost>>
    /\ phase' = "trim"
    /\ UNCHANGED <<budget, end, nextCtl, ctlAt, rest, rd, cursor, out>>

StaleFront == /\ entries # <<>>
              /\ entries[1].kind = "ctl"
              /\ entries[1].pos < AvailableFrom

\* Controls strictly behind the oldest retained chunk are dropped.
TrimControl ==
    /\ phase = "trim" /\ StaleFront
    /\ entries' = Tail(entries)
    /\ retained' = retained - CtlCost
    /\ UNCHANGED <<budget, end, nextCtl, lost, ctlAt, phase, rest, rd, cursor, out>>

\* Mutant: evict goes on without dropping the controls behind the oldest chunk.
TrimDoneAtOnce ==
    /\ phase = "trim"
    /\ phase' = "evict"
    /\ UNCHANGED <<ringVars, rest, rd, cursor, out>>

TrimDone ==
    /\ phase = "trim" /\ ~StaleFront
    /\ phase' = "evict"
    /\ UNCHANGED <<ringVars, rest, rd, cursor, out>>

EvictDone ==
    /\ phase = "evict" /\ ~OverBudget
    /\ phase' = IF rest > 0 THEN "append" ELSE "free"
    /\ UNCHANGED <<ringVars, rest, rd, cursor, out>>

-----------------------------------------------------------------------------
(* read *)

\* A consumer starts over at an offset (Cursor::from_offset); past the end of
\* the ring `read' refuses it and it keeps the cursor it had.
Reopen(c, a) ==
    /\ phase = "free"
    /\ cursor' = [cursor EXCEPT ![c] = IF a > end THEN @ ELSE FromOffset(a)]
    /\ out' = IF a > end THEN [by |-> c, error |-> "CursorBeyondEnd"] ELSE NoOut
    /\ UNCHANGED <<ringVars, phase, rest, rd>>

\* Mutant: the read starts at the cursor even when that offset is evicted.
BeginReadNoResync(c, m) ==
    LET after == cursor[c].after
        owed == cursor[c].ctl < lost.id /\ after <= lost.seq
    IN  /\ phase = "free"
        /\ after <= end
        /\ rd' = [by |-> c, i |-> 1, start |-> after, from |-> after,
                  remaining |-> m, ctl |-> IF owed THEN lost.id ELSE cursor[c].ctl,
                  gap |-> after < AvailableFrom \/ owed, events |-> <<>>]
        /\ phase' = "read"
        /\ UNCHANGED <<ringVars, rest, cursor, out>>

\* The prologue: resync behind available_from, then past force-evicted controls.
BeginRead(c, m) ==
    LET after == cursor[c].after
        behind == after < AvailableFrom
        from == IF behind THEN AvailableFrom ELSE after
        owed == cursor[c].ctl < lost.id /\ from <= lost.seq
    IN  /\ phase = "free"
        /\ after <= end
        /\ rd' = [by |-> c, i |-> 1, start |-> from, from |-> from,
                  remaining |-> m, ctl |-> IF owed THEN lost.id ELSE cursor[c].ctl,
                  gap |-> behind \/ owed, events |-> <<>>]
        /\ phase' = "read"
        /\ UNCHANGED <<ringVars, rest, cursor, out>>

Stop == Len(entries) + 1

ReadChunk ==
    LET e == entries[rd.i]
        seen == EntryEnd(e) <= rd.from
        skip == rd.from - e.pos
        take == Lesser(e.n - skip, rd.remaining)
    IN  /\ phase = "read" /\ rd.i <= Len(entries) /\ e.kind = "out"
        /\ rd' = IF seen THEN [rd EXCEPT !.i = @ + 1]
                 ELSE IF rd.remaining = 0 THEN [rd EXCEPT !.i = Stop]
                 ELSE [rd EXCEPT
                         !.from = @ + take,
                         !.remaining = @ - take,
                         !.events = Append(@, Out(rd.from, take)),
                         !.i = IF take < e.n - skip THEN Stop ELSE @ + 1]
        /\ UNCHANGED <<ringVars, phase, rest, cursor, out>>

\* Mutant: a control at the cursor's offset counts as seen without being delivered.
ReadCtlSkipsAtStart ==
    LET e == entries[rd.i]
    IN  /\ phase = "read" /\ rd.i <= Len(entries) /\ e.kind = "ctl"
        /\ rd' = IF e.pos <= rd.start
                   THEN [rd EXCEPT !.ctl = IF @ < e.n THEN e.n ELSE @, !.i = @ + 1]
                 ELSE IF e.pos > rd.from THEN [rd EXCEPT !.i = Stop]
                 ELSE IF e.n <= rd.ctl THEN [rd EXCEPT !.i = @ + 1]
                 ELSE [rd EXCEPT !.ctl = e.n, !.events = Append(@, e), !.i = @ + 1]
        /\ UNCHANGED <<ringVars, phase, rest, cursor, out>>

ReadCtl ==
    LET e == entries[rd.i]
    IN  /\ phase = "read" /\ rd.i <= Len(entries) /\ e.kind = "ctl"
        /\ rd' = IF e.pos < rd.start
                   THEN [rd EXCEPT !.ctl = IF @ < e.n THEN e.n ELSE @, !.i = @ + 1]
                 ELSE IF e.pos > rd.from THEN [rd EXCEPT !.i = Stop]
                 ELSE IF e.n <= rd.ctl THEN [rd EXCEPT !.i = @ + 1]
                 ELSE [rd EXCEPT !.ctl = e.n, !.events = Append(@, e), !.i = @ + 1]
        /\ UNCHANGED <<ringVars, phase, rest, cursor, out>>

EndRead ==
    /\ phase = "read" /\ rd.i > Len(entries)
    /\ cursor' = [cursor EXCEPT ![rd.by] = [after |-> rd.from, ctl |-> rd.ctl]]
    /\ out' = [by |-> rd.by, gap |-> rd.gap, events |-> rd.events]
    /\ rd' = NoRead
    /\ phase' = "free"
    /\ UNCHANGED <<ringVars, rest>>

-----------------------------------------------------------------------------
Next ==
    \/ \E n \in 1..MaxPush : Push(n)
    \/ AppendOutput
    \/ PushControl
    \/ EvictOutput
    \/ EvictControl
    \/ TrimControl
    \/ TrimDone
    \/ EvictDone
    \/ \E c \in Consumers, a \in 0..MaxEnd : Reopen(c, a)
    \/ \E c \in Consumers, m \in ReadSizes : BeginRead(c, m)
    \/ ReadChunk
    \/ ReadCtl
    \/ EndRead

Spec == Init /\ [][Next]_vars
-----------------------------------------------------------------------------
(* Safety *)

Phases == {"free", "append", "evict", "trim", "read"}
Reads == [by : Consumers, i : Nat \ {0}, start : Nat, from : Nat, remaining : Nat,
          ctl : Nat, gap : BOOLEAN, events : Seq(Entry)]

\* The shape of the state between any two steps of any operation.
TypeOK ==
    /\ budget \in Nat \ {0}
    /\ entries \in Seq(Entry)
    /\ retained \in Int
    /\ end \in Nat
    /\ nextCtl \in Nat \ {0}
    /\ lost \in [seq : Nat, id : Nat]
    /\ phase \in Phases
    /\ rest \in Nat
    /\ phase = "append" => rest > 0
    /\ IF phase = "read" THEN rd \in Reads ELSE rd = NoRead
    /\ cursor \in [Consumers -> Cursors]
    /\ ctlAt \in Seq(Nat)

\* Entries are positioned in order and none reaches past the end.
Ordered ==
    /\ \A i, j \in DOMAIN entries : i < j => EntryEnd(entries[i]) <= entries[j].pos
    /\ \A i \in DOMAIN entries : EntryEnd(entries[i]) <= end

\* Consecutive entries touch: no byte between two of them, or between the
\* newest and the end, is missing.  While evict is trimming, a run of controls
\* at the front may be behind the rest.
Contiguous ==
    /\ \A i \in DOMAIN entries : i < Len(entries) =>
          \/ EntryEnd(entries[i]) = entries[i + 1].pos
          \/ /\ phase = "trim"
             /\ entries[i].pos < entries[i + 1].pos
             /\ \A k \in 1..i : entries[k].kind = "ctl"
    /\ entries # <<>> => EntryEnd(entries[Len(entries)]) = end

\* Control ids increase along the ring and every issued id is below nextCtl.
CtlOrder ==
    /\ \A i, j \in DOMAIN entries :
          i < j /\ entries[i].kind = "ctl" /\ entries[j].kind = "ctl"
             => entries[i].n < entries[j].n
    /\ \A i \in DOMAIN entries : entries[i].kind = "ctl" => entries[i].n < nextCtl

\* The ring is one contiguous, ordered suffix of the stream whatever mix of
\* pushes, coalescing and evictions built it (the comments of evict and read
\* rely on it: "entries are contiguous").
RingShape == Ordered /\ Contiguous /\ CtlOrder

\* What the entries of a deque cost together.
CostOf(s) ==
    LET upTo[i \in 0..Len(s)] == IF i = 0 THEN 0 ELSE upTo[i - 1] + Cost(s[i])
    IN  upTo[Len(s)]

\* The incremental counter is what the entries cost, and once a push has
\* returned the ring is within its budget, unless its only entry is the one
\* just appended.
BudgetRespected ==
    /\ retained = CostOf(entries)
    /\ phase = "free" => retained <= budget \/ Len(entries) = 1

\* The read loop never meets a chunk that starts after what it has delivered:
\* `from - start' is an unsigned subtraction ("from >= start here").
ReadNeverSkips ==
    phase = "read" /\ rd.i <= Len(entries) =>
        LET e == entries[rd.i]
        IN  e.kind = "out" /\ EntryEnd(e) > rd.from /\ rd.remaining > 0 => rd.from >= e.pos

\* No cursor the ring hands out is past its end or ahead of its controls, so
\* CursorBeyondEnd answers only an offset the caller made up.
CursorsValid ==
    /\ \A c \in Consumers : cursor[c].after <= end /\ cursor[c].ctl < nextCtl
    /\ lost.id < nextCtl

\* Where the read in progress stands: the next entry starts at or before what
\* has been delivered, and nothing past the end has been.
ReadPosition ==
    phase = "read" =>
        /\ rd.from <= end /\ rd.ctl < nextCtl
        /\ rd.i <= Len(entries) => entries[rd.i].pos <= rd.from

\* The inductive invariant of the proofs.
IInv == TypeOK /\ RingShape /\ CursorsValid /\ ReadPosition

-----------------------------------------------------------------------------
(* The ring implements the log *)

\* How many controls a cursor has passed, by id or by position.
Passed(after, ctl) == Max({ctl} \cup {i \in DOMAIN ctlAt : ctlAt[i] < after})

\* How many items of the log precede a cursor: the bytes before its offset and
\* the controls it has passed.
LogIndex(after, ctl) == after + Passed(after, ctl)

ByteItem(k) == <<"byte", k>>
CtlItem(i) == <<"ctl", i>>

\* Control i follows ctlAt[i] bytes and i - 1 controls.
WholeLog ==
    [k \in 1..(end + Len(ctlAt)) |->
        LET before == {i \in DOMAIN ctlAt : ctlAt[i] + i < k}
            here == {i \in DOMAIN ctlAt : ctlAt[i] + i = k}
        IN  IF here # {} THEN CtlItem(Max(here)) ELSE ByteItem(k - Cardinality(before))]

Items(e) == IF e.kind = "ctl" THEN <<CtlItem(e.n)>>
                              ELSE [k \in 1..e.n |-> ByteItem(e.pos + k)]

ItemsOf(events) ==
    LET upTo[i \in 0..Len(events)] == IF i = 0 THEN <<>> ELSE upTo[i - 1] \o Items(events[i])
    IN  upTo[Len(events)]

Log == INSTANCE OutputLog WITH
    Readers <- Consumers,
    log <- WholeLog,
    floor <- LogIndex(AvailableFrom, lost.id),
    at <- [c \in Consumers |-> LogIndex(cursor[c].after, cursor[c].ctl)],
    got <- IF "events" \in DOMAIN out
             THEN [by |-> out.by, gap |-> out.gap, items |-> ItemsOf(out.events)]
             ELSE out

\* Every reader gets every byte and every control event once and in order, or a
\* Gap exactly when something it was owed has been evicted, and an empty answer
\* only when there is nothing new (the contract in ring.rs's ReadOut and evict).
ImplementsLog == Log!Spec
=============================================================================
