# TLA+ verification of qsh

qsh is a remote shell over QUIC (Rust, `src/crates/`). A session - a child on a PTY, its
output and the right to type into it - belongs to a broker on the host and outlives the
connection that opened it: a client whose path breaks redeems a *resume token*, gets a
new data stream, is replayed the output it missed and retransmits the input the host
never saw. What can go wrong lives there: several tasks, several locks, two peers and a
network that breaks in the middle of everything. This project models that core first.

## 1. The system

| Component | State | Operations | Interacts with |
|---|---|---|---|
| Replay ring (`broker/ring.rs`) | entries (output chunks and control events), byte budget, end offset, the newest control lost | `push`, `push_control`, `evict`, `read` | owned by a session, under its ring lock; written by the output pump and the actor, read by any number of pulls |
| Session actor (`broker/session.rs`) | `ActorState`, `Meta` (state, lease, input axes, attach count, TTL base), child | select loop over commands, exit, end of output, escalation timer; `signal`, `write_at`, `close`, `pull`, `attach_guard` | output pump task, PTY source, callers through a channel |
| Session sources (`pty/`) | the child process | read, write, signal, wait | actor and pump |
| Session broker (`broker/mod.rs`) | registry, in-flight slots, draining flag | `reserve_slot`, `open`, `close`, `close_all`, `reap_once`, `get` | actors, resume registry; called by server handlers, the reaper task and the drain |
| Resume credentials (`broker/resume.rs`) | one entry per session: token hash, peer, expiry, input axis | `issue`, `verify`, `rotate`, `forget`, `sync_expiry` | broker, `session.attach` |
| Writer lease (`broker/lease.rs`) | the holder | take, steal, release, check | actor, server data streams |
| Server session handlers (`server/sessions.rs`, `server/tunnels.rs`) | tickets, drain flag | `session.open`, `session.attach`, `session.close`, data stream, drain | broker, resume, lease, ACL, audit |
| Session data stream (`session_stream.rs`) | the offset acked per leg | input pump, output pump, screen pump, datagram copies | broker, client |
| Client recovery (`client/reconnect.rs`, `ops/session/`) | `PendingInput`, output cursor, the leg, the attempt | type, ack, migrate, redeem, reopen, retransmit | server handlers, token store, path watchdog |
| Client token custody (`resume.rs`, `ops/session.rs`) | `resume.json` and its lock file, shared by every qsh process of the user | `put`, `forget`, `renew`, `take_for` | open, attach, recovery, close |
| Path watchdog (`client/pathwatch.rs`) | ages of the last signs of life, unanswered probes, self-delay margin | observe, probe, verdict, stall | recovery, reverse registrations |
| Reverse registry and tables (`reverse/registry.rs`, `reverse/listen/`) | a row per name with a generation, tombstones, connection and hub tables | admit, roll back, publish, drive, mark stale, sweep | control hub, recovery |
| Control hub (`reverse/listen/hub.rs`, `localctl/mux.rs`) | conduits and inboxes, requests in flight, subscriptions, forwards, arrivals, claims | register, request, answer, event, forward, claim, die | local daemon, the target at the far end |
| Reverse attach recovery, reverse target (`ops/session/reconnect.rs`, `reverse/target/`) | the generation last seen | wait for a newer registration; dial again | registry |
| Quotas, admission (`quota.rs`, `admission.rs`) | counters, rate sketch | acquire, release, decide | every handler |
| Tunnels (`tunnel/`) | stall ledger, supervisor | splice, account, evict, retry | connection, control hub |
| Local control daemon (`localctl/daemon.rs`) | one task per CLI | control conduit, local streams, listings | control hub, command line |
| Trust and pairing, ACL, audit, configuration, wire codec, transport, link adaptation, screen sync, exec and copy, TUI | - | - | see `PROJECT.json`, "components" |

Hard behaviours, and what makes each component correct:

- *ring*: eviction mixes output and controls; a reader's cursor may name something
  evicted. Correct: one contiguous suffix of the stream, within its budget, every reader
  gets every item once and in order or is told of a gap.
- *actor*: exit, end of output, close, escalation and a sleeping pull in any order.
  Correct: exit after the last byte and before closed, a close always ends, no lost wake-up.
- *broker and credentials*: checks and uses of a registry in different critical sections;
  a reaper that acts on a snapshot; a drain racing opens. Correct: caps hold, nothing
  survives a drain, a token has one winner, abandoned sessions and credentials go away.
- *reattach*: frames of an old connection arriving during a recovery, datagram copies,
  failed attempts, pruned axes, a stolen lease. Correct: no byte of input skipped,
  forgotten, reordered or run twice.
- *token custody*: the host kills a token as it mints the next, and processes that share
  one file crash, lose answers and race. Correct: the live token stays on the machine, in
  one place, and is never overwritten by an older one.
- *reverse registrations*: three tables with three locks, tied by a generation. Correct:
  they agree on the newest registration, and nothing of an old one stays.
- *control hub*: CLIs come and go between a request and its answer; parked claims, full
  inboxes, death of the connection. Correct: no forward without owner, no stream to the
  wrong CLI, no lost wake-up, budgets exact.
- *path watchdog*: silence of the path against silence of this process. Correct: a dead
  path is found in time, a live one is not blamed for a process that was not scheduled.
- *stall ledger*: one window for every stream, consumers that stop, a report that comes
  once and before its cause can be seen. Correct: stuck streams leave a window for the
  shell, slow ones are spared, no report is missed.

`PROJECT.json` lists under "hazards" each place in the code where one of these can fail.

## 2. Modules

    OutputLog  <-- ReplayRing <-- MCReplayRing
                       ^--- ReplayRingProofs (TLAPS)
    SessionActor <-- MCSessionActor
       ^--- SessionActorProofs (TLAPS)
    Broker       <-- MCBroker
       ^--- BrokerProofs (TLAPS)
    Reattach     <-- MCReattach
       ^--- ReattachProofs (TLAPS)
    TokenCustody <-- MCTokenCustody
       ^--- TokenCustodyProofs (TLAPS)
    ReverseListen <-- MCReverseListen
       ^--- ReverseListenProofs (TLAPS)
    ControlHub   <-- MCControlHub
       ^--- ControlHubProofs (TLAPS)
    PathWatch    <-- MCPathWatch
       ^--- ReattachProofs (TLAPS, second part)
    StallLedger  <-- MCStallLedger
       ^--- StallLedgerProofs (TLAPS)

The modules meet where the code does: the credential that Broker issues and rotates is
the token TokenCustody keeps; the drive loop whose end ReverseListen records is the one
that tells ControlHub of the death; PathWatch gives the verdict that starts a recovery in
Reattach and ends a drive loop in ReverseListen; the streams StallLedger watches are those
a claim of ControlHub hands over.

### ReplayRing, OutputLog

`entries` is the `VecDeque`: a record is an output chunk (start, length) or a control
event (position, id). `retained`, `end`, `nextCtl`, `lost` are the ring's fields; `ctlAt`
is history (where each control was placed). An action is one iteration of a loop of the
code, so invariants are also checked in the middle of `push`, `evict` and `read`:
`phase`, `rest` and `rd` hold the locals. `Push`/`AppendOutput` are `push` (split in
pieces, coalescing with the last chunk), `PushControl` is `push_control`,
`EvictOutput`/`EvictControl`/`EvictDone` the eviction loop with its choice of victim,
`TrimControl`/`TrimDone` its clean-up of controls left behind, `BeginRead`, `ReadChunk`,
`ReadCtl`, `EndRead` the read. `Reopen` is a consumer starting again at an offset of its
choice, also one past the end.

`OutputLog` is what readers are promised: a log that grows at its end and is forgotten
from its front, and readers that get a contiguous run or a gap. `ReplayRing` refines it
(`ImplementsLog`): the log is the interleaving of all bytes and controls ever pushed, its
floor is what eviction has taken, a reader's place is its cursor. A cursor has two parts,
so its place needs `Passed`: the controls it is past by their id, or by their position
behind its offset. `ItemsOf` turns the events of an answer back into items of the log. A
read allows at least one byte: the handler of `session.read` turns 0 into its cap.

### SessionActor

One session, its actor task (`actor`, `ActorState`), output pump task (`pump`), child, two
closers and one puller. Each step is what a task does between two awaits or two locks, so
the pump can have read a chunk, or appended it and not yet notified, when the actor
aborts it. The child may die at any time, ignore signals and leave its output open. Time
is abstract: the armed escalation timer may fire at any moment. The four steps of the
finalisation (abort, mark closed, append Closed, answer the closers) are separate.

### Broker

Registry, slots, credentials, the reaper, the drain and the handlers, one action per
critical section. `registry[s]` is what the broker reads of a session's `Meta`; a handler
is `task[h]` with its step, session, presented token and ticket's end; a token is its
generation. `reaper` holds the snapshot `reap_once` decided on; between `Decide`,
`RemoveExpired`, `SyncExpiry` and the closes any other task may run. `asked[s]` are the
callers awaiting a close, who forget the credential after it. Time is a counter: `Advance`
is enabled only when no task can run and no wait is over (`Quiet`), so only the waits the
code has take time.

### Reattach

Input across breaks of the path. Client: `pending` is `PendingInput`; `client` the step of
a recovery; `pumping` the leg's input pump. Network: `wire` per leg in order, `copies` the
lossy, unordered datagram copies; the connection of a dead leg keeps delivering until the
new leg is up (`ConnectionEnds`). Host: `applied` the input axes with their bound,
`credAxis` the axis a redemption forks, `lease`, `acks` the offset each leg's pump acked,
`ran` what the child got. `Redeem` is `session.attach` (mint an axis, seed it with the
offset of the one it forks, prune), `OpenStream` the client opening the data stream, which
does not wait for the host, `TakeLease` the host reading the stream's header, redeeming its
ticket and handing over the lease, `Resend` the rebase and retransmission, `Migrate` a
recovery that keeps the leg. A header arrives when it does: frames of the leg wait behind
it, a datagram before it is lost, and the header of an earlier leg may arrive after that of
a later one. `turn` and `takes` record the order of arrival. A header that is refused, because its
ticket lapsed or the session denies it, is `ConnectionEnds` of that leg. The effect of a
datagram copy that is behind its axis is nothing, so such copies are dropped at once
(`Ahead`).

### TokenCustody

Several processes of one user, one machine. `disk` is `resume.json` (the token of each
session), `lock` the lock file, `proc[p]` what a process is doing and, during a rewrite,
the document it read. A rewrite is two steps under the lock (`ReadDocument`,
`WriteDocument`), the rename that replaces the file is atomic, and `take_for` reads
without the lock, as the code does. The host's side is `current`: `Redeem` kills a token
and mints the next in one step. Faults are actions: `Crash`, `LinkFails` (the request may
still arrive: `RedeemZombie`), `WriteFails`, `Expire`. A session whose token a fault
befell is recorded in `harmed`, so that `Custody` can speak of all the others.

### ReverseListen

`entries` and `lastGeneration` are the registry, `conns` and `hubs` the two tables, `reg[c]`
the task of connection `c` with the step it is at. A step is one section under one lock:
`Decide` (admission), `Reply`, `RollbackTarget` and `Rollback` (two locks, two steps),
`Publish`, `PublishHub`, `EndDrive`, `RemoveConn`, `RemoveHub`, `MarkStale`,
`SweepExpired`. Which peer may use which name is the constant relation `MayUse`.

### ControlHub

One hub, its multiplexer, the conduit tasks and the claims; one action per section under
the hub's lock, and what follows the unlock is an action of its own (`UnregisterDoomed`
after a full inbox, `SweepDead` after `mark_dead`'s snapshot). `wire` is what the target
was asked; it may answer anything, in any order. `claim[k]` goes through look-up, permit,
enabled waiter, parked, granted, as `claim_tcp_accepted` does.

### PathWatch

Time is discrete and instants are kept as ages, capped at `Horizon`. `watch` is
`PathState`, `rx` and `timer` the loop's locals, `stalls` the guards. `Pass` is the clock:
while the process is scheduled, a timer that is due fires first; while it is not
(`Starve`), time passes and packets wait in `socket`, and the timer may then fire before
they are read. A packet may be a message, a bare authenticated packet or one that does
not authenticate. `Revive` is a migration that answered.

`DetectionBudget` is the time to a verdict that the code's own rounds add up to: the
verdict is due once the path is silent for `dead_after` and `Strikes` probes, each a round
apart, went unanswered, and it is given at the next round. `GraceBudget` is what one grace
adds to it, with a round more when a wake moves the rounds. With the defaults that is
1250 ms for an attach and 4500 ms for a registration, 2250 ms and 5500 ms with a grace.
The protocol document promises less; see the end of section 3. `Wakes` is the wake arm. Any
number of wakes may fall in one silence, at any instants, where the detector of `wake.rs`
reports at most one in a `WAKE_TICK`.

### StallLedger

`tracks`, `rose` and `unseen` are `LedgerState` (the two counts of `DATA_BLOCKED` kept as
whether one is above the other), `entered` and `evicted` the fields of a `StreamTrack`.
`pump[s]` is where the receiving direction of a splice is: `Read`, `EnterWrite` and
`LeaveWrite` are the steps of `pump_probed` and `write_probed`, on other threads than the
evaluation, whose `decide` and signalling are two critical sections (`Decide`, `Signal`).
The ledger lives as long as a watch holds it, and a new one knows nothing of an older
report. `held` and `other` are the connection's receive window, which quinn keeps; it is
modelled from what the code says of it: stopping a stream returns its unread bytes, and a
peer without credit reports once. Time does not pass while a stream that was signalled
has not stopped or a pump is between a read and its write: none of them awaits.
`FILE_DATA` transfers register in the same ledger and enter and leave their writes in the
same way, so a stream of the model stands for either.

### Left out of the modelled parts

Resize, the host's screen emulator, unnumbered writes (`session.write`), the peer bound
to a token (another peer's token changes nothing), ACL and audit, `no_steal`. In Reattach
the session keeps running, every redemption wins (Broker has the losing ones), and the
last leg the bound allows is not made to fail (`CanRetry`, `CanFail`, `Expendable`),
because a recovery that ran out of attempts gives up by design. In Broker a drain that
reaches `DRAIN_TIMEOUT` ends the process, so no time passes after it. TokenCustody leaves
out the salvage of a damaged file, ReverseListen the pruning of tombstones beyond 10000
names, ControlHub listings and the permits of outgoing TCP connects, PathWatch the arm
for a connection the transport itself closed, which declares the path dead unjudged, and
StallLedger the sending direction, the traffic hook and the bulk governor.

## 3. Runs

Bounds are constants named in each module.

| Run | Checks | Bounds, and why they are enough |
|---|---|---|
| `replay_ring` | `RingShape`, `BudgetRespected` (the counter is the cost of the entries; within budget after each push), `ReadNeverSkips`, `ImplementsLog` | budgets 0, 3, 5, 8, pieces of at most 2 bytes, pushes up to 3, controls costing 2, 6 bytes and 3 controls, reads of 1 and 3 bytes, one consumer: chunks coalesce, fill, split a read, controls outlive and are outlived by the output around them, one push evicts several entries. Consumers share nothing but the ring, so one is as good as many. Deadlock is checked. |
| `session_actor` | `ExitIsFinal`, `ClosersResolveAfterClosed`, `CloseCompletes`, `PullSeesAppends` | two closers (one begins, one joins or finds it closed), one chunk, one signal call, first signals HUP, TERM, KILL. The order of entries depends on the last chunk only. |
| `broker` | `QuotaHeld`, `DrainLeavesNothing`, `AttachCountExact`, `ReapedInTime`, `LapseIsShort`, `NoStrayCredential`, `OneWinnerPerToken` | one session and one slot, two handlers, two principals, 8 units of time with tick 2, TTL 4, retention 1, tickets 2, a close 1, three generations: two opens race for the slot with the reaper and the drain, then the whole life of the session up to and past the reaper period that follows its TTL. Credentials of different sessions do not interact; every property is proved for any number of sessions and handlers and any times (section 4). |
| `reattach` | `NoByteSkipped`, `ReleasedIsDone`, `NeverUnrecoverable`, `WritersTakeTurns`, `QuietMeansDone` | two bytes, four legs, two attempts per recovery, three axes, a buffer of two: a recovery of a recovery that failed, with the axes full and the buffer full, and headers that arrive in any order. Proved for any numbers (section 4). |
| `token_custody` | `Custody`, `OneHeir`, `NeverRewound` | two processes, two sessions, four tokens: a rewrite for one session between the read and the write of another, a redemption of a redemption, a crash at every step. |
| `reverse_listen` | `GenerationsUnique`, `OpenIsPublished`, `NewestIsListed`, `NewestIsBacked`, `ClosedIsForgotten` | one name, two peers, three connections: an admission, one that replaces it and one that replaces or outlives that, in any order of locks. Names do not interact. |
| `control_hub` | `ForwardsHaveOwners`, `NoMisdelivery`, `NoLostWakeup`, `LongPollBudget`, `ClaimPoolExact`, `DeadIsHeard`, `MuxBooksAgree` | two conduits, one session, forward and claim, two requests, inbox of one, budgets of one (tunnels two): an answer later than its conduit, a forward_id that changes hands under a parked claim, an inbox that overflows, a conduit that registers while the hub dies. |
| `path_watch` | `DetectedInTime`, `VerdictIsEarned` | intervals 1 and 2, dead after 2, two strikes, RTTs 1 and 3, ticks up to 2 late, ages up to 8: with RTT 1 the strikes come after `dead_after`, with RTT 3 they may come before it, and the ages go beyond every threshold and budget. With an interval of 1 a packet comes at the instant of a round, never between two; intervals of 2 to 4 were run once without starvation, stalls and idling, and reach the bound (end of this section). Proved for any numbers (section 4). |
| `stall_ledger` | `StuckWithinLimit`, `RiseIsHeard`, `SlowIsSpared` | three streams over a window of three stream windows (so two may stall), stall age 2, interval 1, memory 4, clock up to 6: all three stuck at once, a report before and after the stall and before the memory ends, a chosen stream that drains or ends before its signal, a ledger that dies and is started again. |

`CHECK_DEADLOCK FALSE` is set where the system may stop: a session that is closed, and the
bounded numbers of bytes, legs, units, generations, connections, tokens and requests.

Fairness. SessionActor: the runtime polls runnable tasks, an armed timer fires, and
`select!`, which polls its branches in random order, does not starve a ready command.
Nothing is assumed of the child, of its output or of the callers. ReverseListen: a task
that can take its next lock does, the drive loop of a connection that was closed ends,
and the sweeper runs; nothing is assumed of open connections or of who registers. The
other specifications have no fairness and state no liveness; `ReapedInTime`,
`DetectedInTime` and the other time bounds are safety properties over the clock.

### Where the code and its comments disagree

Three runs show a state that a comment of the code excludes. `PROJECT.json` quotes each.

- `input_twice`: a frame of the old leg applied between the seeding of the new axis and
  the taking of the lease is retransmitted on the new axis and runs twice. A leg whose
  header arrives late does the same to what a newer leg has run. It is always another leg
  that repeats: `NoByteSkipped`, `ReleasedIsDone` and `WritersTakeTurns` hold with it.
- `phantom_host`: a rollback decides what to restore under the lock of the connection
  table and restores it under the lock of the registry. If that connection ends in
  between, its row comes back live with no task to mark it stale. `NewestIsBacked` bounds
  it: only a row older than the newest admission can be a phantom.
- `refusal_forgets`: a process refused with an old token forgets the session's entry, in
  which another process has put the successor meanwhile; the session is lost to this
  machine. `Custody` holds for every session this did not befall.

Seen while modelling, without a run of their own:

- `pump.abort()` is not joined, so a chunk already read can be appended after `Closed`,
  "always the last entry" (`broker/ring.rs:116`).
- `escalate` signals the group of a leader that has been reaped when something else holds
  the terminal; `pty/posix.rs:604` says the broker gates signals.
- A token verifies between `mark_closed` and `forget`, so the SESSION_NOT_FOUND that
  `server/sessions.rs:903` calls unreachable is reached. The client is told the truth.
- The reaper writes the deadlines of its snapshot over the credential of a session
  attached since; `LapseIsShort` bounds the lapse to one period.
- Two admissions of a name that both fail, one over the other, free the name although the
  first connection is alive: the second rollback finds that the row it replaced is not the
  one published.
- `decide` stops the oldest stalled stream for the peer's report and forgets the report
  ("Whatever rise there was has now been answered", `tunnel/stall.rs:465`). That stream may
  hold no window; the peer stays without credit, does not report again (`stall.rs:104`),
  and a younger stuck stream keeps its share. `RiseIsHeard` says what is left: a stream is
  chosen in time, though not always one that helps.
- A drain stops waiting after DRAIN_TIMEOUT, which a long `close_grace` exceeds, while
  sessions are still closing; `DrainLeavesNothing` speaks of a drain that ended.
- `deliver_response` does not ring `tunnel_notify` when the answer closes a forward, as
  `unregister_conduit` and `admin_close_forward` do: a claim parked on it waits out its
  budget.
- The client does not wait for the host to read a stream's header (`client/mod.rs:316`), and
  the host hands the lease to whichever header it reads last (`broker/lease.rs:133`). So the
  header of an attempt that was given up can take the lease back from the leg in use, whose
  input is then refused and acked; when the old connection closes, the lease is nobody's,
  and the attach that is up stays read-only. `WritersTakeTurns` says what is left: the leg
  that lost the lease does not write again.
- An axis that `prune_input_axes` drops while its leg still holds the lease starts again at
  zero: what that stream still holds runs again, or ends it as a gap. With 32 axes and three
  attempts this needs many recoveries within the life of one old connection, and it is never
  the leg in use (`NeverUnrecoverable`).
- A leg whose un-acked buffer is full ends its input pump, and a recovery that ends in a
  migration keeps the leg without starting one (`ops/session/drive.rs`); the comment in
  `ops/session/pump.rs` says that a recovery spawns a fresh pump.
- On the idle cadence a frame is credited to the previous sample, up to an idle interval
  earlier; the datagram of the last authenticated packet counts as a hint of its own; the
  wake arm judges without the discount for lateness. `VerdictIsEarned` states the exact
  bound that is left: the lateness counts twice when the timer arm gives the verdict, and
  not at all when the wake arm does, whatever woke the loop before.
- The ceiling P×S+D of the detection time, which `docs/design/protocol.md` gives and the
  check of `[recovery]` rests on, assumes that D is at least 2P, as in the defaults. The
  configuration accepts P ≤ D < 2P, where the last strike comes at P×(S+1) and the round
  that rules one P later, up to 2P−D beyond the ceiling (`CeilingIsKept` proves the rest).
- `docs/design/protocol.md:395` gives 1750 ms as the default of P×S+D+`datagram_grace` for
  an attach; that is P×S+D alone, the sum is 2500 ms. The 5750 ms of a registration are
  right.
- `docs/design/protocol.md:396` bounds the time from the last frame to the verdict by
  max((S+1)×P, D), plus one `datagram_grace`. The code needs up to P more, up to 2P with a
  grace: a packet read just after a round leaves the next round without a probe, so that
  the last strike comes at (S+1)×P less an instant after it and the round that rules one P
  later (with the defaults just under 5P, where the document says 4P); and a wake during the grace
  moves the rounds once more. `DetectedInTime` therefore states the bound that holds, which is
  strictly less than P, or 2P, above that of the document. TLC refutes the document's own
  bound: with P = D = 2 and S = 2 the last packet is 7 old and the path not ruled dead, where
  the document says 6; with P from 2 to 4 the age comes within one instant of the bound of
  `DetectedInTime`, within two during a grace. (The document says `min_dead_after`; with
  a long RTT it is `dead_after`.)

## 4. Proofs

Eight modules hold the proofs. Each rests on inductive invariants made of named parts, from
which the theorems about the properties of the runs follow; TLC checked the parts on small
instances before they were proved.

### ReplayRingProofs

For every budget, chunk size, control cost, set of consumers and bound, from
`RingConstants` alone: `RingTypeCorrect`, `RingKeepsShape`, `ReadNeverUnderflows`,
`CursorsStayValid`, `BudgetIsRespected` (`BudgetRespected`) and `RingImplementsLog`
(`ImplementsLog`). The inductive invariant of the first four is
`IInv == TypeOK /\ RingShape /\ CursorsValid /\ ReadPosition`.

- `RingShape` is not inductive alone: eviction of an output chunk leaves controls behind
  it that no longer touch what follows; `Contiguous` therefore lets a run of controls at
  the front be behind while `phase = "trim"`, and `TrimDone` needs that exactly this run
  is what the trimming loop removes.
- `ReadNeverSkips` needs `ReadPosition`: the next entry of the loop starts at or before
  what was delivered. A read starts at an offset at or after the first output
  (the resynchronisation), and `Contiguous` carries it from one entry to the next.
- `ReadPosition` needs `CursorsValid` where a read starts.
- `BudgetRespected` adds up the deque. `CostOf` is a recursive function, unique by its own
  equation; what an append, a removal in the middle or a longer last chunk does to the sum
  holds at every index, because there can be no least index where it does not. With
  `MinOfNats` that argument needs no induction rule. `WithinBudget` says the same of the
  time of a read, in which nothing is pushed.

`RingImplementsLog` is the refinement, step by step: an append or a pushed control is a
`Write`, an eviction a `Forget`, `Reopen` a `Seek` or a `Refuse`, the end of a read a
`Read`, and every other step leaves the log as it is. It needs two more invariants, which
`RingPlaced` proves on top of `IInv`:

- `Placed` ties the ring to the history: retained controls stand where they were pushed
  and are newer than the last one lost (`EntriesPlaced`), which itself stood at or before
  the oldest byte kept (`LostPlaced`); a cursor is not behind a control it has seen
  (`CursorsPlaced`); and a control is retained, or behind the oldest byte kept, or recorded
  as lost (`NoneForgotten`). The last is why one record of the newest lost control is
  enough, although the ring forgets controls in two ways: trimming one that is strictly
  behind the oldest chunk changes no reader's gap, because the gap of the bytes covers it.
- `Reading` is the loop invariant of `read`: what was gathered is the run of the log from
  where the answer starts (`Delivered`), every entry before the index was passed by its
  bytes and its id (`Behind`), bytes are taken from the start of an entry after the first
  (`Flush`), and a loop that has gathered nothing has allowance left (`NothingSkipped`).
  So a read that ends empty-handed has met every entry, and is up to date. This uses that a
  read allows at least one byte.
- That a run of bytes lies between two controls of the log is counting: `WholeLog` finds
  the byte at an index by the number of controls before it (`LogByte`), and since controls
  are sorted, those are an initial interval.

### SessionActorProofs

For any closers, first signals and amount of output, from `ActorConstants`:
`ExitComesLast` (`ExitIsFinal`), `CloseMeansClosed` (`ClosersResolveAfterClosed`) and
`PullIsWoken`, the safety half of `PullSeesAppends`. The inductive invariant is
`ActorInv /\ PullInv`.

- `ExitIsFinal` needs `Drained`: the exit is appended only when the pump has ended on its
  own, and a pump that ended appends no more. A pump that was *aborted* may still append,
  which is why output can follow `Closed` and never the exit.
- A position in the log is tied to the place of the actor (`ExitInLog`, `ClosedInLog`), so
  that a second append of either is impossible, not merely unseen; a closer is answered
  only when the actor is gone (`Resolution`).
- `PullInv`: a pull registers before it reads, so when it sleeps unwoken, it misses at most
  the one chunk that was pushed and not yet announced. A pull that read before it
  registered would have no such bound.

### BrokerProofs

For every number of sessions, handlers and principals, every cap and every time, from
`BrokerConstants` (finite sets, natural numbers; the tick, the TTL, the retention, the
ticket's life and the longest close are not zero; of these only `resume_ttl` and
`close_grace_ms` can be configured, and a configured zero is left out): `CapsHold` (`QuotaHeld`), `DrainIsComplete` (`DrainLeavesNothing`),
`TokenHasOneWinner` (`OneWinnerPerToken`), `AttachesCounted` (`AttachCountExact`),
`ReaperIsTimely` (`ReapedInTime`), `LapsesAreShort` (`LapseIsShort`), `StraysAreDropped`
(`NoStrayCredential`). The inductive invariant of the first three is
`BrokerInv == Typed /\ Slots /\ Quotas /\ Drained /\ Tokens`; `AttachCountExact` is
inductive on top of it, and the times rest on `InTime` on top of both.

- `QuotaHeld` bounds live sessions alone; what is preserved is the sum of live sessions
  and reservations, in total and per principal (`Quotas`). An insert turns one slot into
  one session of the same opener, which needs `Slots`: a handler between `reserve_slot`
  and its insert holds exactly one slot.
- `DrainLeavesNothing` needs `Drained`: while the drain waits, its snapshot holds every
  live session. It is kept because the insert is refused under the same lock that took
  the snapshot, and a session leaves the snapshot only when it is live no more.
- `OneWinnerPerToken` needs `Tokens`: the generation of every winner is behind the stored
  one; a session that was never opened has no token and nobody working on it; the handler
  that has inserted a session and not yet issued its credential is alone with it - without
  this, the credential stored after a close has forgotten the session could restart the
  generations under an older winner.

- The times need to know when the reaper last looked. `InTime` says that there is a moment
  T, that of the reaper's last `Decide`, for which `Timed(T)` holds: the clock is at most a
  period past T (`PassTimes`: a pass waits for its closes, at most `CloseMax`, and sleeps a
  tick); what the pass at T left alone was not due at T (`Reaps`, `Lapses`, `Strays`); and
  what it doomed is being closed. T is not a variable of the model: only `Decide` moves it,
  to the present. `Creds` and `Calls` relate credentials to sessions: a closed session has a
  credential only in the unit of time of its close, or a late one stored after the close had
  forgotten it.
- The proof of `NoStrayCredential` found that its first form, a bound of one period after
  the credential's end, holds only if the retention and a period are no longer than the
  TTL: a late credential may lapse while its session is still readable, and it is dropped
  only after the session. The property now says both cases; under the constants of the
  run, as under the code's defaults, the second adds nothing.

Steps fall in two kinds: those of one handler, treated one by one, and background steps
(actors, reaper, drain, clock), which open no session and issue no token (`Background`).

### ReattachProofs

For any number of bytes, legs, attempts and axes and any buffer, from `ReattachConstants`
(one axis more than a recovery has attempts: 32 and 3 in the code): `NoHoleInInput`
(`NoByteSkipped`), `ReleasesAreDone` (`ReleasedIsDone`), `RecoveryNeverStuck`
(`NeverUnrecoverable`), `InputTakesTurns` (`WritersTakeTurns`), `DrainedIsDone`
(`QuietMeansDone`). The inductive invariant `ReattachInv`:

- `Buffered`, `Frames`: the buffer and every frame, late ones too, hold the bytes their
  offsets say, whichever leg they went out on: a new axis continues the old one's numbers.
- `Chained`: the frames of a stream follow on from what it acked, with no hole, and those of
  the leg in use get to the last byte typed. Hence a stream never shows a gap, and one
  that is drained has acked everything.
- `Attempts`, `Axes`: the legs since the one in use are at most the attempts of a recovery,
  so that `prune_input_axes` keeps their axes (`Kept`, the newest `MaxAxes`) - this is where
  the assumption is used - and none of those axes is behind what the client released.
- `AllDone`: every byte up to an offset that was applied or acked, on any leg, was run or
  refused. It is what makes an offset meaningful across legs: a redemption forks only the
  number.
- `Leased`, `Ordered`: each leg takes the lease in a turn of its own, and a leg that holds
  it took the last one; what the child got comes from legs that had their turn, in the order
  of the turns, and on a leg whose axis is remembered up to that axis' offset. Nothing relates
  the turns to the order of the recoveries: headers arrive as they will.

`InputAppliedOnce` is not among them: `input_twice` shows how it fails. `WritersTakeTurns`
says that a leg repeats nothing of its own while its axis is remembered, and that two legs
never alternate.

The second part of the module is about PathWatch, for every interval, number of strikes,
RTT, delay and `Horizon`, from `WatchAssumption` (the idle interval is no shorter than the
active one; ages reach as far as one interval): `VerdictsAreEarned` (`VerdictIsEarned`),
`SilenceIsDetected` (`DetectedInTime`) and `CeilingIsKept`, that of the protocol document
where D is at least 2P. Ages stop at `Horizon`, so a theorem says something of the ages
below it; it holds for every `Horizon`, hence for ages of any size. The invariant
`WatchInv`:

- `Earned`: the silence that `PathState` sees is at most that since the sample before the
  last packet read. The discount of a late tick and its margin come on top.
- `Timely`: for a path in use that is neither excused nor dead, the silence seen is no
  shorter than the truth, every round since the first after the last packet counted a
  strike (`Struck`), and the last round found the verdict not due (`NotDueYet`) or left the
  path the rest of one grace (`InGrace`). Each is stated relative to the time slept since
  that round, so that the clock alone does not disturb it. A wake, however often, is a round
  that probes: it shortens the sleep and adds a strike, so `Struck` survives it.
- `InUse`, `ProbesPaced`: the watch is on its fast cadence, and probes go out at the rounds.
- The proof found that the budget in its first form, P×S+D, does not hold in general; nor
  does max((S+1)×P, D); see the end of section 3. The bounds of the invariant are strict.

### ReverseListenProofs

For any names, peers, connections and `MayUse`, from `ListenAssumption`:
`GenerationsAreUnique`, `OpenConnectionIsPublished`, `NewestKeepsItsRow`,
`NewestHasATask`, and the types. The inductive invariant adds to the properties what ties
the three tables together: a task's generation is covered by the tombstone (`Admitted`,
`Tombstones`) and is its own, also after the task has ended (`Apart`); a slot of a table is
held by a task of that name that has still to give it up (`ConnsHeld`, `HubsHeld`); a task
that lost its slot lost it to a later admission (`LostToNewer`); rows and the rows to be
restored are old (`EntriesOld`, `ReplacedOld`); the newest admission holds its row until
its task ends (`NewestHolds`, `NewestHub`). `NewestHolds` is what makes every
compare-by-generation safe: an older task cannot name the newest's row.

### TokenCustodyProofs

For any processes, sessions and number of tokens, from `CustodyAssumption`: `TokenIsKept`
(`Custody`), `TokenHasOneHeir` (`OneHeir`), `StoreNeverRewound` (`NeverRewound`), and the
types with the exclusion of the lock. The strengthening:

- `DocFresh`: under the lock, the document in memory is the one on disk but for what had
  expired. This is why a rewrite for one session cannot undo that for another.
- `HandIsCurrent`, `OneHand`, `HandIsNewest`: the token in hand is the host's, one process
  has it, and it is newer than anything on disk or on its way to the host. The last is
  why a put cannot go back, and needs `Bounded` (every token was minted) where a token is
  minted.
- `Unopened`, `ForgetsExcused`: nothing is known of a session before it is opened; an
  entry is forgotten after a fault or once the session is over. The drop that follows a
  refusal is excused by the fault it then is (`harmed`), see `refusal_forgets`.

### ControlHubProofs

For any conduits, sessions, forwards, claims and limits, from `HubAssumption`: `RegistryOwned`
(`ForwardsHaveOwners`), `ClaimsGetTheirOwn` (`NoMisdelivery`), `WakeupsArrive`
(`NoLostWakeup`), `BooksAgree` (`MuxBooksAgree`), `PollsBounded` (`LongPollBudget`),
`PoolExact` (`ClaimPoolExact`), `DeathReachesAll` (`DeadIsHeard`). The inductive invariant
`HubInv` adds to them:

- `Ids`: request ids are minted in order, so an id in flight names one request, and an open
  that asks for a seat names the conduit that asked. Without it a late answer could
  register a forward for a conduit that is gone.
- `Seats`: a seat is its owner's or nobody's, and the arrivals in its queue are the owner's.
  This is `NoMisdelivery` one step earlier, before the claim looks again.
- `Polls`: a poll at the target is one the hub still counts, whether its conduit is there or
  not. `Permits`: the pool's counts are the claims between permit and end.
- `Heard`: a conduit of a dead hub is in the sweep's snapshot, has been told or has lost its
  inbox; one that registers after the flag is told at once.

### StallLedgerProofs

For any windows, stall age, interval, number of streams and clock, from `LedgerAssumption`
(the connection window is at least two stream windows, as the code asserts; the memory is
no shorter than the interval): `LimitHolds` (`StuckWithinLimit`), `TheSlowAreSpared`
(`SlowIsSpared`), `RisesAreHeard` (`RiseIsHeard`). The strengthening:

- `OldestAreMany`: leaving out the oldest n of the stalled streams leaves all but n of
  them. The ranks of the rest inject into an interval, so no induction is needed.
- `Limited`: besides the stuck streams, those the last evaluation saw stalled and left
  alone are within the limit; when the clock moves, the first set falls into the second.
- `OnTime`: the evaluation is at most an interval away, and what it chose is gone before
  the clock moves. `Stamped`: a stamp is set exactly while its pump writes.
- `Remembered`: while a report is unanswered, it is unseen or remembered, and the
  evaluation that must act is not past. This needs the memory to outlast the interval.

### Only model-checked

Liveness (`CloseCompletes`, `PullSeesAppends`, `ClosedIsForgotten`): the prover has no
fairness and no ENABLED.

Everything else that a passing run checks - all invariants, the action properties and the
refinement - is also proved.

## 5. Not modelled, and the plan

The repository is large (about 147000 lines with its tests, benches and front ends); the
part that holds concurrent state is a small share of it. Not modelled because there is
little but I/O, data or presentation: the command line and the TUI, rendering and screen
drawing, exec and copy, policy evaluation, configuration and set-up, wire encoding, the
QUIC wrapper, diagnostics, link heuristics. The tests make up a good part of the rest.

Control that is not modelled yet, in the order of its interest:

1. The output side of a recovery (`OutputCursor` over a ring that evicts), the
   single-flight reattach task, the detach, the wait for a newer registration.
2. The supervisor's retry budget of the tunnels; quota permits.
3. Pairing: the single use of an invite, revocation of live connections.
