------------------------------ MODULE Reattach ------------------------------
(***************************************************************************)
(* Typed input across a break of the path (protocol.md section 10-5): the  *)
(* client's retransmit buffer (client/reconnect.rs, PendingInput) and its  *)
(* recovery (ops/session/recovery.rs), the host's input axes and writer    *)
(* lease (broker/session.rs, broker/lease.rs) and the pump that reads a    *)
(* leg's stream (session_stream.rs).                                       *)
(*                                                                         *)
(* A leg is one attach and its data stream; it is named by the input axis  *)
(* the host minted for it.  A typed byte is its place in the order of      *)
(* typing.  A frame carries bytes and the offset after them.  The          *)
(* connection of an old leg stays open until the new leg works, so frames  *)
(* it holds may still arrive meanwhile.  So may the header of its stream,  *)
(* which is what makes the host hand over the lease.  Broker has the       *)
(* credential that a recovery redeems; here every redemption wins.         *)
(***************************************************************************)
EXTENDS Naturals, Sequences, FiniteSets

CONSTANTS
    MaxBytes,    \* bound: bytes typed
    MaxLegs,     \* bound: attaches, the opening one included
    MaxAttempts, \* RecoveryConfig.attempts
    MaxAxes,     \* MAX_INPUT_AXES
    UnackedMax   \* UNACKED_INPUT_MAX

ASSUME ReattachConstants ==
    /\ MaxBytes \in Nat /\ MaxLegs \in Nat \ {0}
    /\ MaxAttempts \in Nat \ {0} /\ UnackedMax \in Nat \ {0}
    /\ MaxAxes \in Nat /\ MaxAxes > MaxAttempts   \* 32 and 3

Legs == 1 .. MaxLegs
Other == 0   \* another writer, on an axis of its own

VARIABLES
    typed,     \* bytes taken from the frontend
    client,    \* drive_attach: its step, its leg, the leg being built
    pending,   \* PendingInput: acked, sent, buf
    alive,     \* the legs whose stream is open
    pumping,   \* the leg's input pump takes commands
    wire,      \* frames on each leg's stream, in order
    copies,    \* datagram copies of frames, per leg: late, lost or reordered
    acks,      \* InputAxis of each leg: the offset of its ticket, or acked last
    applied,   \* Meta.applied_input: the axes remembered
    nextAxis,  \* Meta.next_input_stream
    credAxis,  \* the axis named by the resume credential
    lease,     \* Meta.lease: the leg that holds it, Other, or none (MaxLegs + 1)
    ran,       \* the bytes handed to the child, each with the leg it came on
    refused,   \* history: bytes discarded because their leg was not the writer
    turn,      \* the turn in which each leg took the lease; 0: its header is unread
    takes      \* how often the lease was taken by a leg

hostVars == <<applied, lease, ran, refused, turn, takes>>
clientVars == <<typed, client, pending, pumping>>
vars == <<clientVars, alive, wire, copies, acks, hostVars, nextAxis, credAxis>>

NoOne == MaxLegs + 1

\* session.open's attach is up: leg 1 on the first axis, holding the lease.
Init ==
    /\ typed = 0
    /\ client = [at |-> "up", leg |-> 1, new |-> 1, from |-> 0]
    /\ pending = [acked |-> 0, sent |-> 0, buf |-> <<>>]
    /\ pumping = TRUE
    /\ alive = {1}
    /\ wire = [l \in Legs |-> <<>>]
    /\ copies = [l \in Legs |-> {}]
    /\ acks = [l \in Legs |-> 0]
    /\ applied = [l \in {1} |-> 0]
    /\ nextAxis = 2
    /\ credAxis = 1
    /\ lease = 1
    /\ ran = <<>>
    /\ refused = {}
    /\ turn = [l \in Legs |-> IF l = 1 THEN 1 ELSE 0]
    /\ takes = 1

-----------------------------------------------------------------------------
(* PendingInput *)

\* Mutant: an ack releases everything sent, not what the host acknowledged.
AckedAll(p, seq) == [acked |-> p.sent, sent |-> p.sent, buf |-> <<>>]

\* ack: release what the host has.
Acked(p, seq) ==
    LET to == IF seq < p.sent THEN seq ELSE p.sent IN
    IF to <= p.acked THEN p
    ELSE [p EXCEPT !.acked = to, !.buf = SubSeq(@, to - p.acked + 1, Len(@))]

\* Mutant: the whole buffer is released, not only what the host applied.
RebasedAll(p, from) == [acked |-> from, sent |-> from, buf |-> <<>>]

\* rebase: rewind to what the host applied.  Its error is from < p.acked.
Rebased(p, from) ==
    IF from >= p.sent THEN [acked |-> from, sent |-> from, buf |-> <<>>]
    ELSE [p EXCEPT !.acked = from, !.buf = SubSeq(@, from - p.acked + 1, Len(@))]

-----------------------------------------------------------------------------
(* The client *)

Frame(data, seq) == [data |-> data, seq |-> seq]

\* AttachWriter::send_input: the stream frame and its datagram copy.
Send(l, f) ==
    IF l \in alive
      THEN /\ wire' = [wire EXCEPT ![l] = Append(@, f)]
           /\ copies' = [copies EXCEPT ![l] = @ \union {f}]
      ELSE UNCHANGED <<wire, copies>>

\* The leg's pumps run until a recovery stops them to build another leg.
PumpRuns ==
    /\ pumping
    /\ client.at = "up" \/ (client.at = "dead" /\ client.new = client.leg)

\* pump_attach_input takes a byte: recorded in pending before it is written,
\* and refused, with the end of this leg's pump, when the buffer is full.
Type ==
    /\ PumpRuns
    /\ IF Len(pending.buf) + 1 > UnackedMax
         THEN /\ pumping' = FALSE
              /\ UNCHANGED <<typed, pending, wire, copies>>
         ELSE /\ typed < MaxBytes
              /\ typed' = typed + 1
              /\ pending' = [pending EXCEPT !.sent = @ + 1, !.buf = Append(@, typed + 1)]
              /\ Send(client.leg, Frame(<<typed + 1>>, pending.sent + 1))
              /\ UNCHANGED pumping
    /\ UNCHANGED <<client, alive, acks, hostVars, nextAxis, credAxis>>

\* read_leg: an InputAck on the leg being read.
ReadAck ==
    /\ client.at = "up" /\ client.leg \in alive
    /\ acks[client.leg] > pending.acked
    /\ pending' = Acked(pending, acks[client.leg])
    /\ UNCHANGED <<typed, client, pumping, alive, wire, copies, acks, hostVars, nextAxis, credAxis>>

\* One more attach is possible within the bound.
CanRetry == nextAxis <= MaxLegs

\* One more attempt of this recovery: the model's last attempt succeeds.
CanFail == CanRetry /\ nextAxis - client.leg <= MaxAttempts

\* The watchdog gives the path up, or the stream breaks: no leg is read.
PathDies ==
    /\ client.at = "up"
    /\ CanRetry
    /\ client' = [client EXCEPT !.at = "dead"]
    /\ UNCHANGED <<typed, pending, pumping, alive, wire, copies, acks, hostVars, nextAxis, credAxis>>

\* recover: on the first attempt the old connection answers a probe after all
\* (Recovered::Migrated).
Migrate ==
    /\ client.at = "dead"
    /\ client.new = client.leg /\ client.leg \in alive
    /\ client' = [client EXCEPT !.at = "up"]
    /\ UNCHANGED <<typed, pending, pumping, alive, wire, copies, acks, hostVars, nextAxis, credAxis>>

\* prune_input_axes: the oldest axes go first.
Pruned(axes) ==
    LET kept == {l \in DOMAIN axes :
                    Cardinality({k \in DOMAIN axes : k > l}) < MaxAxes}
    IN  [l \in kept |-> axes[l]]

\* An axis nobody minted, or one pruned, starts from zero.
AppliedOn(l) == IF l \in DOMAIN applied THEN applied[l] ELSE 0

\* Mutant: every attach starts an axis of its own at zero.
SeedAtZero == 0

\* What seed_input_stream starts the new axis at: the offset of the axis it forks.
SeedOffset == AppliedOn(credAxis)

\* Set one axis, minting it if it is not there.
SetAxis(l, n) == [k \in DOMAIN applied \union {l} |-> IF k = l THEN n ELSE applied[k]]

\* handle_session_attach for a redemption that wins: reserve_input_stream,
\* rotate_resume (which records the new axis) and seed_input_stream; the ticket
\* names its offset.  The reply reaches the client, which stores the new token.
Redeem ==
    LET l == nextAxis IN
    /\ client.at = "dead"
    /\ CanRetry
    /\ nextAxis' = l + 1
    /\ credAxis' = l
    /\ applied' = Pruned(SetAxis(l, SeedOffset))
    /\ acks' = [acks EXCEPT ![l] = SeedOffset]
    /\ client' = [client EXCEPT !.at = "seeded", !.new = l, !.from = SeedOffset]
    /\ UNCHANGED <<typed, pending, pumping, alive, wire, copies, lease, ran, refused,
                   turn, takes>>

\* open_attach_stream: the stream's header, with the ticket, is on its way, and
\* the client does not wait for the host.
OpenStream ==
    /\ client.at = "seeded"
    /\ alive' = alive \union {client.new}
    /\ client' = [client EXCEPT !.at = "opened"]
    /\ UNCHANGED <<typed, pending, pumping, wire, copies, acks, hostVars, nextAxis, credAxis>>

\* The attempt fails after the redemption; recover_attach tries again.
AttemptFails ==
    /\ client.at \in {"seeded", "opened"}
    /\ CanFail
    /\ client' = [client EXCEPT !.at = "dead"]
    /\ UNCHANGED <<typed, pending, pumping, alive, wire, copies, acks, hostVars, nextAxis, credAxis>>

\* Mutant: the buffer is rebased and its tail is not sent again.
ResendNothing ==
    /\ client.at = "opened"
    /\ client.from >= pending.acked
    /\ pending' = Rebased(pending, client.from)
    /\ client' = [client EXCEPT !.at = "up", !.leg = client.new]
    /\ pumping' = TRUE
    /\ UNCHANGED <<typed, alive, wire, copies, acks, hostVars, nextAxis, credAxis>>

\* The end of reattach: rebase, retransmit the tail, and the new leg is the leg;
\* an offset below the oldest byte held is InputUnrecoverable.
Resend ==
    LET p == Rebased(pending, client.from) IN
    /\ client.at = "opened"
    /\ IF client.from < pending.acked
         THEN /\ client' = [client EXCEPT !.at = "failed"]
              /\ UNCHANGED <<pending, pumping, wire, copies>>
         ELSE /\ pending' = p
              /\ client' = [client EXCEPT !.at = "up", !.leg = client.new]
              /\ pumping' = TRUE
              /\ IF p.buf = <<>> THEN UNCHANGED <<wire, copies>>
                 ELSE Send(client.new, Frame(p.buf, p.sent))
    /\ UNCHANGED <<typed, alive, acks, hostVars, nextAxis, credAxis>>

\* The client can do without leg l: the last one the bound allows stays.
Expendable(l) ==
    \/ client.at = "up" /\ (CanRetry \/ l # client.leg)
    \/ client.at \in {"dead", "seeded", "opened"} /\ (CanFail \/ l # client.new)

\* A connection ends, closed as superseded or broken: its header and frames are
\* gone and purge_connection, behind every handler of it, releases its lease.
ConnectionEnds(l) ==
    /\ l \in alive \/ lease = l
    /\ Expendable(l)
    /\ alive' = alive \ {l}
    /\ wire' = [wire EXCEPT ![l] = <<>>]
    /\ copies' = [copies EXCEPT ![l] = {}]
    /\ lease' = IF lease = l THEN NoOne ELSE lease
    /\ UNCHANGED <<clientVars, acks, applied, ran, refused, turn, takes, nextAxis, credAxis>>

-----------------------------------------------------------------------------
(* The host *)

\* handle_data_stream: the header of leg l arrives, however late.  Its single-use
\* ticket is redeemed and the leg takes the lease from whoever holds it.
TakeLease(l) ==
    /\ l \in alive /\ turn[l] = 0
    /\ lease' = l
    /\ takes' = takes + 1
    /\ turn' = [turn EXCEPT ![l] = takes + 1]
    /\ UNCHANGED <<clientVars, alive, wire, copies, acks, applied, ran, refused,
                   nextAxis, credAxis>>

Bytes(l, data) == [i \in 1 .. Len(data) |-> [leg |-> l, byte |-> data[i]]]
Elements(data) == {data[i] : i \in 1 .. Len(data)}

\* Mutant: a demoted leg's input is written all the same.
WriteWithoutLease(l, f) ==
    LET start == f.seq - Len(f.data)
        skip == AppliedOn(l) - start
    IN  /\ applied' = SetAxis(l, IF skip >= Len(f.data) THEN AppliedOn(l) ELSE f.seq)
        /\ ran' = ran \o Bytes(l, SubSeq(f.data, skip + 1, Len(f.data)))
        /\ UNCHANGED refused

\* enqueue_write of a numbered chunk that leaves no gap: refused without the lease
\* (and its own axis moves on), trimmed of what was applied.
Write(l, f) ==
    LET start == f.seq - Len(f.data)
        skip == AppliedOn(l) - start
    IN  IF lease # l
          THEN /\ applied' = Pruned(SetAxis(l, IF f.seq > AppliedOn(l) THEN f.seq
                                                                       ELSE AppliedOn(l)))
               /\ refused' = refused \union Elements(f.data)
               /\ UNCHANGED ran
          ELSE /\ IF skip >= Len(f.data) THEN UNCHANGED <<applied, ran>>
                  ELSE /\ applied' = SetAxis(l, f.seq)
                       /\ ran' = ran \o Bytes(l, SubSeq(f.data, skip + 1, Len(f.data)))
               /\ UNCHANGED refused

\* The child stopped reading and its input queue is full (WriteError::Backpressure):
\* nothing is written, and the stream of leg l ends on a connection that stays.
Backpressure(l) ==
    /\ l \in alive /\ wire[l] # <<>> /\ lease = l
    /\ Expendable(l)
    /\ alive' = alive \ {l}
    /\ wire' = [wire EXCEPT ![l] = <<>>]
    /\ copies' = [copies EXCEPT ![l] = {}]
    /\ UNCHANGED <<clientVars, acks, hostVars, nextAxis, credAxis>>

Start(f) == f.seq - Len(f.data)

\* The copies that are not behind offset n; one that is does nothing when it comes.
Ahead(fs, n) == {f \in fs : Start(f) >= n}

\* WriteError::InputGap: bytes the axis never saw would be skipped.
Gap(l, f) == lease = l /\ Start(f) > AppliedOn(l)

\* input_pump reads a frame behind the header of leg l's stream, writes it and
\* acks what the session answers, or the frame's own end when it was refused.  A
\* frame that would skip bytes ends the stream instead.
StreamInput(l) ==
    LET f == Head(wire[l]) IN
    /\ l \in alive /\ turn[l] # 0 /\ wire[l] # <<>>
    /\ IF Start(f) > acks[l] \/ Gap(l, f)
         THEN /\ alive' = alive \ {l}
              /\ wire' = [wire EXCEPT ![l] = <<>>]
              /\ copies' = [copies EXCEPT ![l] = {}]
              /\ client' = [client EXCEPT !.at = IF @ = "up" /\ client.leg = l THEN "failed" ELSE @]
              /\ UNCHANGED <<acks, applied, ran, refused>>
         ELSE /\ Write(l, f)
              /\ wire' = [wire EXCEPT ![l] = Tail(@)]
              /\ acks' = [acks EXCEPT ![l] = IF lease = l THEN applied'[l]
                                             ELSE IF f.seq > @ THEN f.seq ELSE @]
              /\ copies' = [copies EXCEPT ![l] = Ahead(@, acks'[l])]
              /\ UNCHANGED <<client, alive>>
    /\ UNCHANGED <<typed, pending, pumping, lease, turn, takes, nextAxis, credAxis>>

\* apply_input_copy: a datagram copy counts only if it continues what was acked,
\* and moves the ack only if it was written.
DatagramInput(l, f) ==
    /\ l \in alive /\ turn[l] # 0 /\ f \in copies[l]
    /\ IF Start(f) = acks[l] /\ ~Gap(l, f)
         THEN /\ Write(l, f)
              /\ acks' = [acks EXCEPT ![l] = IF lease = l THEN applied'[l] ELSE @]
         ELSE UNCHANGED <<applied, ran, refused, acks>>
    /\ copies' = [copies EXCEPT ![l] = Ahead(@ \ {f}, acks'[l])]
    /\ UNCHANGED <<clientVars, alive, wire, lease, turn, takes, nextAxis, credAxis>>

\* Another attach, with an axis of its own, steals the lease.
Steal ==
    /\ lease # Other
    /\ CanRetry
    /\ lease' = Other
    /\ UNCHANGED <<clientVars, alive, wire, copies, acks, applied, ran, refused, turn, takes,
                   nextAxis, credAxis>>

ClientStep ==
    \/ Type \/ ReadAck \/ PathDies \/ Migrate \/ Redeem \/ OpenStream
    \/ AttemptFails \/ Resend

HostStep ==
    \/ \E l \in Legs : TakeLease(l) \/ StreamInput(l) \/ Backpressure(l) \/ ConnectionEnds(l)
    \/ \E l \in Legs : \E f \in copies[l] : DatagramInput(l, f)
    \/ Steal

Next == ClientStep \/ HostStep

Spec == Init /\ [][Next]_vars

-----------------------------------------------------------------------------
(* Properties *)

Ran == {ran[i].byte : i \in 1 .. Len(ran)}

\* The child sees no byte before the ones typed earlier, except bytes the host
\* refused because another writer held the lease: no recovery leaves a hole.
NoByteSkipped ==
    \A i \in 1 .. Len(ran) : \A b \in 1 .. ran[i].byte - 1 :
        b \in refused \/ \E j \in 1 .. i - 1 : ran[j].byte = b

\* What the client has let go of was run or deliberately refused, whichever leg
\* it went out on.
ReleasedIsDone == \A b \in 1 .. pending.acked : b \in Ran \union refused

\* A recovery never finds the host behind the client's buffer, and the stream of
\* the leg in use never skips input: neither the pruning of axes nor a refused
\* write nor a late header loses the offset a redemption forks from.
NeverUnrecoverable == client.at # "failed"

\* Input reaches the child in the turns in which the host handed the lease over:
\* a leg that lost it to another leg is silent from then on, whatever its stream
\* and its datagrams still hold.  The turns are those of the headers' arrival,
\* not of the recoveries.  Each leg's input arrives in order and once, as long as
\* its axis is among the MAX_INPUT_AXES that are remembered.
WritersTakeTurns ==
    \A i, j \in 1 .. Len(ran) : i < j =>
        \/ turn[ran[i].leg] < turn[ran[j].leg]
        \/ /\ ran[i].leg = ran[j].leg
           /\ ran[i].byte < ran[j].byte \/ ran[i].leg + MaxAxes < nextAxis

\* Once the leg in use has delivered what it holds, everything typed was run or
\* deliberately refused: no recovery forgets to retransmit.
QuietMeansDone ==
    client.at = "up" /\ client.leg \in alive /\ wire[client.leg] = <<>>
      => 1 .. typed \subseteq Ran \union refused

\* recovery.rs: "the tail it never saw is retransmitted -- and nothing it *did*
\* see is sent twice"; session.rs write_at: "input is neither lost nor applied
\* twice".
InputAppliedOnce ==
    \A i, j \in 1 .. Len(ran) : ran[i].byte = ran[j].byte => i = j
=============================================================================
