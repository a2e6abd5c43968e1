---------------------------- MODULE StallLedger ----------------------------
(***************************************************************************)
(* The ledger of stalled streams of one connection (tunnel/stall.rs), the  *)
(* receiving pumps that report to it (tunnel/splice.rs) and the            *)
(* connection's receive window, which the unread bytes of every stream     *)
(* hold until they are read or the stream is stopped.                      *)
(*                                                                         *)
(* Window is counted in units; the unit is the credit the transport        *)
(* announces at once, so a read of less than a unit frees none.  Streams   *)
(* are the ledger's ids, given in order and never reused.  Time is         *)
(* discrete: the evaluation fires when it is due, a pump does not pause    *)
(* between a read and the write after it, and a splice that was signalled  *)
(* stops at that instant.  The pumps run on other threads than the         *)
(* evaluation, so their steps fall between its decision and its signal.    *)
(*                                                                         *)
(* quinn is seen from the code: a stopped stream's unread bytes return to  *)
(* the window at once, and a peer without credit says so once.             *)
(***************************************************************************)
EXTENDS Integers, FiniteSets, FiniteSetsExt

CONSTANTS StreamWindow,       \* TUNNEL_STREAM_RECEIVE_WINDOW
          ConnectionWindow,   \* CONNECTION_RECEIVE_WINDOW
          StallAge, EvaluateInterval, DataBlockedMemory,
          MaxStreams,         \* bound on the streams that are ever watched
          MaxTime,            \* bound on the clock
          Never               \* no instant

ASSUME LedgerAssumption ==
    /\ {StreamWindow, StallAge, EvaluateInterval} \subseteq Nat \ {0}
    /\ ConnectionWindow \in Nat /\ ConnectionWindow >= 2 * StreamWindow
    /\ {MaxStreams, MaxTime} \subseteq Nat
    /\ DataBlockedMemory \in Nat /\ DataBlockedMemory >= EvaluateInterval
    /\ Never \notin Int

Streams == 1..MaxStreams
Times == 0..MaxTime

VARIABLES
    now,
    opened,     \* LedgerState.next_id: how many streams were ever watched
    tracks,     \* LedgerState.tracks: the ids of the live watches
    entered,    \* StreamTrack.write_entered of each stream
    evicted,    \* StreamTrack.evicted, with the permit of its notify
    pump,       \* where the receiving pump of each stream is
    held,       \* unread window units of each stream
    other,      \* unread window units of the streams that are not watched
    rose,       \* LedgerState.data_blocked_rose_at
    unseen,     \* peer_blocked_events is above LedgerState.last_data_blocked
    due,        \* when the evaluation fires next
    chosen,     \* the evictions decided and not yet signalled
    waiting,    \* history: since when the consumer has taken nothing of a chunk
    blocked     \* history: the report of a peer that still has no credit

pumps == <<entered, pump, waiting>>
window == <<held, other, blocked>>
ledger == <<rose, unseen, due, chosen>>
vars == <<now, opened, tracks, evicted, pumps, window, ledger>>

\* MAX_STALLED_STREAMS_PER_CONNECTION
MaxStalled == ConnectionWindow \div StreamWindow - 1

Phases == {"new", "read", "loaded", "write", "gone"}

\* No report, or when it came, the streams watched then and whether the ledger
\* has chosen one to stop since.
NotBlocked == [at |-> Never, watched |-> {}, answered |-> FALSE]

Init ==
    /\ now = 0 /\ opened = 0 /\ tracks = {} /\ other = 0
    /\ entered = [s \in Streams |-> Never]
    /\ evicted = [s \in Streams |-> FALSE]
    /\ pump = [s \in Streams |-> "new"]
    /\ held = [s \in Streams |-> 0]
    /\ waiting = [s \in Streams |-> Never]
    /\ rose = Never /\ unseen = FALSE /\ due = 0 /\ chosen = {}
    /\ blocked = NotBlocked

-----------------------------------------------------------------------------
(* The receive window.                                                     *)

HeldBy(S) == MapThenSumSet(LAMBDA s : held[s], S)

Free == ConnectionWindow - HeldBy(Streams) - other

\* Units come back to the window: a peer without credit has some again.
Credit(units) == blocked' = IF units > 0 THEN NotBlocked ELSE blocked

\* The peer sends on a watched stream.
Arrive(s) ==
    /\ s \in tracks
    /\ held[s] < StreamWindow /\ Free > 0
    /\ held' = [held EXCEPT ![s] = @ + 1]
    /\ UNCHANGED <<now, opened, tracks, evicted, pumps, other, blocked, ledger>>

\* The peer sends on a stream that is not watched (a session, a command), and
\* its consumer reads.
OtherArrive ==
    /\ Free > 0
    /\ other' = other + 1
    /\ UNCHANGED <<now, opened, tracks, evicted, pumps, held, blocked, ledger>>

OtherRead ==
    /\ other > 0
    /\ other' = other - 1
    /\ Credit(1)
    /\ UNCHANGED <<now, opened, tracks, evicted, pumps, held, ledger>>

\* The peer has bytes to send and no credit: its DATA_BLOCKED, once.
DataBlocked ==
    /\ Free = 0 /\ blocked = NotBlocked
    /\ blocked' = [at |-> now, watched |-> tracks, answered |-> FALSE]
    /\ unseen' = TRUE
    /\ UNCHANGED <<now, opened, tracks, evicted, pumps, held, other, rose, due, chosen>>

-----------------------------------------------------------------------------
(* A splice: pump_probed of its receiving direction, and its watch.        *)

\* The ledger exists while a watch or a running evaluation holds it.
LedgerAlive == tracks # {} \/ chosen # {}

\* StallWatch::on: for_connection, which starts the ledger when there is none,
\* and watch.
Watch ==
    /\ opened < MaxStreams
    /\ opened' = opened + 1
    /\ tracks' = tracks \union {opened + 1}
    /\ pump' = [pump EXCEPT ![opened + 1] = "read"]
    /\ IF LedgerAlive
       THEN UNCHANGED ledger
       ELSE /\ rose' = Never
            /\ unseen' = FALSE
            /\ due' = now + EvaluateInterval
            /\ UNCHANGED chosen
    /\ UNCHANGED <<now, evicted, entered, waiting, window>>

\* The pump takes a chunk off the stream: it has bytes to give to the consumer.
Read(s) ==
    /\ s \in tracks /\ pump[s] = "read"
    /\ \E units \in {0, 1} :
        /\ units <= held[s]
        /\ held' = [held EXCEPT ![s] = @ - units]
        /\ Credit(units)
    /\ pump' = [pump EXCEPT ![s] = "loaded"]
    /\ waiting' = [waiting EXCEPT ![s] = now]
    /\ UNCHANGED <<now, opened, tracks, evicted, entered, other, ledger>>

\* enter_write
EnterWrite(s) ==
    /\ s \in tracks /\ pump[s] = "loaded"
    /\ pump' = [pump EXCEPT ![s] = "write"]
    /\ entered' = [entered EXCEPT ![s] = now]
    /\ UNCHANGED <<now, opened, tracks, evicted, waiting, window, ledger>>

\* Mutant: only a write with a rest clears its stamp.
LeaveWriteStamped(s) ==
    /\ s \in tracks /\ pump[s] = "write"
    /\ \/ /\ pump' = [pump EXCEPT ![s] = "loaded"]
          /\ entered' = [entered EXCEPT ![s] = Never]
          /\ waiting' = [waiting EXCEPT ![s] = now]
       \/ /\ pump' = [pump EXCEPT ![s] = "read"]
          /\ waiting' = [waiting EXCEPT ![s] = Never]
          /\ UNCHANGED entered
    /\ UNCHANGED <<now, opened, tracks, evicted, window, ledger>>

\* leave_write after some bytes: with a rest the write is entered again,
\* otherwise the pump reads on.
LeaveWrite(s) ==
    /\ s \in tracks /\ pump[s] = "write"
    /\ entered' = [entered EXCEPT ![s] = Never]
    /\ \/ /\ pump' = [pump EXCEPT ![s] = "loaded"]
          /\ waiting' = [waiting EXCEPT ![s] = now]
       \/ /\ pump' = [pump EXCEPT ![s] = "read"]
          /\ waiting' = [waiting EXCEPT ![s] = Never]
    /\ UNCHANGED <<now, opened, tracks, evicted, window, ledger>>

\* The guard stops the stream, whose unread bytes return, and the watch is
\* dropped: its entry leaves the ledger.
Teardown(s) ==
    /\ pump' = [pump EXCEPT ![s] = "gone"]
    /\ held' = [held EXCEPT ![s] = 0]
    /\ Credit(held[s])
    /\ tracks' = tracks \ {s}
    /\ entered' = [entered EXCEPT ![s] = Never]
    /\ waiting' = [waiting EXCEPT ![s] = Never]
    /\ UNCHANGED <<now, opened, evicted, other, ledger>>

\* Both directions have ended, one has failed, or the task was aborted.
End(s) == s \in tracks /\ ~evicted[s] /\ Teardown(s)

\* watch.evicted() resolves.
Stop(s) == s \in tracks /\ evicted[s] /\ Teardown(s)

-----------------------------------------------------------------------------
(* The evaluation: evaluate_loop and tick.                                 *)

\* Not signalled yet, and inside one local write for StallAge.
Stalled == {s \in tracks : ~evicted[s] /\ entered[s] # Never /\ now - entered[s] >= StallAge}

\* The order of the sort: oldest stall first.
Older(s, t) == entered[s] < entered[t] \/ (entered[s] = entered[t] /\ s < t)

Oldest(n) == {s \in Stalled : Cardinality({t \in Stalled : Older(t, s)}) < n}

\* Mutant: one stream too few is stopped.
ChoiceShort(at) ==
    IF Cardinality(Stalled) > MaxStalled
    THEN Oldest(Cardinality(Stalled) - MaxStalled - 1)
    ELSE IF at # Never /\ now - at <= DataBlockedMemory THEN Oldest(1) ELSE {}

\* What decide returns when the remembered rise is at.
Choice(at) ==
    IF Cardinality(Stalled) > MaxStalled
    THEN Oldest(Cardinality(Stalled) - MaxStalled)
    ELSE IF at # Never /\ now - at <= DataBlockedMemory THEN Oldest(1) ELSE {}

\* Mutant: a rise counts only at the evaluation that sees it.
DecideForgetful ==
    /\ tracks # {} /\ chosen = {} /\ now = due
    /\ LET at == IF unseen THEN now ELSE Never
       IN /\ chosen' = Choice(at)
          /\ blocked' = [blocked EXCEPT !.answered =
                            @ \/ (blocked # NotBlocked /\ Choice(at) # {})]
    /\ rose' = Never
    /\ unseen' = FALSE
    /\ due' = now + EvaluateInterval
    /\ UNCHANGED <<now, opened, tracks, evicted, pumps, held, other>>

\* The round of the loop up to decide.
Decide ==
    /\ tracks # {} /\ chosen = {} /\ now = due
    /\ LET at == IF unseen THEN now ELSE rose
       IN /\ chosen' = Choice(at)
          /\ rose' = IF Choice(at) # {} THEN Never ELSE at
          /\ blocked' = [blocked EXCEPT !.answered =
                            @ \/ (blocked # NotBlocked /\ Choice(at) # {})]
    /\ unseen' = FALSE
    /\ due' = now + EvaluateInterval
    /\ UNCHANGED <<now, opened, tracks, evicted, pumps, held, other>>

\* The rest of tick: every chosen stream that is still there.
Signal ==
    /\ chosen # {}
    /\ evicted' = [s \in Streams |-> evicted[s] \/ s \in chosen \intersect tracks]
    /\ chosen' = {}
    /\ UNCHANGED <<now, opened, tracks, pumps, window, rose, unseen, due>>

Advance ==
    /\ now < MaxTime
    /\ tracks # {} => now < due
    /\ chosen = {}
    /\ \A s \in tracks : ~evicted[s] /\ pump[s] # "loaded"
    /\ now' = now + 1
    /\ UNCHANGED <<opened, tracks, evicted, pumps, window, ledger>>

Next ==
    \/ Watch \/ OtherArrive \/ OtherRead \/ DataBlocked
    \/ Decide \/ Signal \/ Advance
    \/ \E s \in Streams :
        Arrive(s) \/ Read(s) \/ EnterWrite(s) \/ LeaveWrite(s) \/ End(s) \/ Stop(s)

Spec == Init /\ [][Next]_vars

-----------------------------------------------------------------------------
(* Properties.                                                             *)

TypeOK ==
    /\ now \in Times /\ opened \in 0..MaxStreams /\ tracks \subseteq 1..opened
    /\ entered \in [Streams -> Times \union {Never}]
    /\ evicted \in [Streams -> BOOLEAN] /\ pump \in [Streams -> Phases]
    /\ held \in [Streams -> 0..StreamWindow] /\ other \in Nat
    /\ rose \in Times \union {Never} /\ unseen \in BOOLEAN
    /\ due \in 0..(MaxTime + EvaluateInterval)
    /\ chosen \subseteq 1..opened
    /\ waiting \in [Streams -> Times \union {Never}]
    /\ blocked \in [at : Times \union {Never}, watched : SUBSET Streams, answered : BOOLEAN]

\* Streams that have been inside one write for longer than the stall age and
\* an evaluation interval.
Stuck == {s \in tracks : entered[s] # Never /\ now - entered[s] > StallAge + EvaluateInterval}

(* No more than MAX_STALLED_STREAMS_PER_CONNECTION streams stay stuck,     *)
(* whatever opens, stalls, drains or ends between two evaluations and      *)
(* between a decision and its signal.                                      *)
StuckWithinLimit == Cardinality(Stuck) <= MaxStalled

(* The ledger decides to stop a stream only if its consumer has taken      *)
(* nothing for the stall age while bytes were waiting for it: a stream     *)
(* that is idle, or that drains however slowly, is spared (the stamps of   *)
(* enter_write and leave_write against decide).                            *)
SlowIsSpared ==
    [][\A s \in chosen' \ chosen :
        /\ pump[s] = "write"
        /\ waiting[s] # Never /\ now - waiting[s] >= StallAge]_vars

\* A stream was watched when the peer's report came and has been stuck since
\* early enough for an evaluation within DataBlockedMemory to see it.
StuckAtReport(s) ==
    /\ s \in tracks \intersect blocked.watched
    /\ entered[s] # Never
    /\ entered[s] + StallAge + EvaluateInterval <= blocked.at + DataBlockedMemory

\* The last instant at which the evaluation that must act may run.
AnswerBy(s) ==
    (IF entered[s] + StallAge > blocked.at THEN entered[s] + StallAge ELSE blocked.at)
    + EvaluateInterval

(* A peer that ran out of credit while a consumer was stuck, or was about  *)
(* to be, does not wait unheard: by the first evaluation at which the      *)
(* stream counts as stalled the ledger has chosen a stream to stop,        *)
(* although the count rose before that (data_blocked_rose_at and its       *)
(* memory).                                                                *)
RiseIsHeard ==
    \A s \in Streams :
        blocked # NotBlocked /\ StuckAtReport(s) /\ now > AnswerBy(s) => blocked.answered
=============================================================================
