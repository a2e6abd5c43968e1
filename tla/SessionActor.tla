---------------------------- MODULE SessionActor ----------------------------
(***************************************************************************)
(* The life of one session (broker/session.rs): the actor task and its     *)
(* select loop, the output pump task, the child it watches, the callers    *)
(* that close it and a reader that pulls its ring with a wait.             *)
(*                                                                         *)
(* The ring is the log of what was appended to it (ReplayRing shows what   *)
(* readers get of that log); a chunk of output is the item "out".  Time is *)
(* abstract: the escalation timer may fire whenever it is armed.  The      *)
(* child may ignore every signal, exit on its own and leave its output     *)
(* open after it died.                                                     *)
(***************************************************************************)
EXTENDS Naturals, Sequences, FiniteSets

CONSTANTS
    Closers,       \* callers of SessionHandle::close
    FirstSignals,  \* the first signals a closer may ask for
    MaxChunks,     \* bound: chunks of output the child writes
    MaxSignals     \* bound: SessionHandle::signal calls

ASSUME ActorConstants ==
    /\ FirstSignals \subseteq {"HUP", "INT", "TERM", "KILL"}
    /\ MaxChunks \in Nat /\ MaxSignals \in Nat

VARIABLES
    child,     \* the child process: "alive", "dead" (not reaped), "reaped"
    chunks,    \* output chunks written so far
    pump,      \* the pump task: "idle" (in read), "busy" (has a chunk),
               \* "pushed" (appended, not notified), "done"
    aborted,   \* the pump was told to abort
    eof,       \* the pump saw end of file and sent eof_tx
    log,       \* what was appended to the ring
    exiting, outputDone, exitAppended,  \* ActorState
    closing,   \* ActorState.closing
    actor,     \* the actor task: its loop, then the steps of its finalisation
    meta,      \* the shared Meta: state, closing, closed
    closer,    \* each closer: "idle", "sent", "joined", "resolved"
    signals,   \* history: the signals sent
    calls,     \* calls of SessionHandle::signal so far
    puller     \* a pull with an unlimited wait: step, items seen, woken

actorVars == <<exiting, outputDone, exitAppended, closing, actor>>
pumpVars == <<chunks, pump, eof>>
vars == <<child, pumpVars, aborted, log, actorVars, meta, closer, signals, calls, puller>>

NotClosing == [on |-> FALSE, next |-> "none", forced |-> FALSE]

Init ==
    /\ child = "alive"
    /\ chunks = 0 /\ pump = "idle" /\ aborted = FALSE /\ eof = FALSE
    /\ log = <<>>
    /\ exiting = FALSE /\ outputDone = FALSE /\ exitAppended = FALSE
    /\ closing = NotClosing
    /\ actor = "loop"
    /\ meta = [state |-> "running", closing |-> FALSE, closed |-> FALSE]
    /\ closer = [k \in Closers |-> "idle"]
    /\ signals = <<>>
    /\ calls = 0
    /\ puller = [at |-> "register", seen |-> 0, woken |-> FALSE]

\* Mutant: a waiter counts only once its wait has been polled (no enable()).
WakeOnlyAsleep == IF puller.at = "wait" THEN [puller EXCEPT !.woken = TRUE] ELSE puller

\* note_append: every registered waiter is woken (tokio Notify::notify_waiters).
Wake == IF puller.at = "register" THEN puller ELSE [puller EXCEPT !.woken = TRUE]

-----------------------------------------------------------------------------
(* The child *)

\* The child dies, on its own or of a signal; it is reaped by the actor's wait.
ChildDies ==
    /\ child = "alive"
    /\ child' = "dead"
    /\ UNCHANGED <<pumpVars, aborted, log, actorVars, meta, closer, signals, calls, puller>>

-----------------------------------------------------------------------------
(* The output pump task *)

\* output.read returned a chunk: the task runs on until its next await.
PumpRead ==
    /\ pump = "idle"
    /\ ~aborted
    /\ chunks < MaxChunks
    /\ pump' = "busy"
    /\ chunks' = chunks + 1
    /\ UNCHANGED <<child, aborted, eof, log, actorVars, meta, closer, signals, calls, puller>>

\* The append and the wake-up after it are two steps: a pull may read between.
PumpPush ==
    /\ pump = "busy"
    /\ log' = Append(log, "out")
    /\ pump' = "pushed"
    /\ UNCHANGED <<child, chunks, aborted, eof, actorVars, meta, closer, signals, calls, puller>>

PumpNotify ==
    /\ pump = "pushed"
    /\ pump' = "idle"
    /\ puller' = Wake
    /\ UNCHANGED <<child, chunks, aborted, eof, log, actorVars, meta, closer, signals, calls>>

\* End of file or a read error, at any time: the child may close its output
\* early, and something else may hold it open after the child died.
PumpEof ==
    /\ pump = "idle"
    /\ ~aborted
    /\ pump' = "done"
    /\ eof' = TRUE
    /\ UNCHANGED <<child, chunks, aborted, log, actorVars, meta, closer, signals, calls, puller>>

\* The abort takes effect at the task's await, never in the middle of a chunk.
PumpAborted ==
    /\ pump = "idle"
    /\ aborted
    /\ pump' = "done"
    /\ UNCHANGED <<child, chunks, aborted, eof, log, actorVars, meta, closer, signals, calls, puller>>

-----------------------------------------------------------------------------
(* The actor's loop *)

Running == actor = "loop"

\* Mutant: the exit entry does not wait for the output to drain.
ExitDueEarly == exiting /\ ~exitAppended

ExitDue == exiting /\ outputDone /\ ~exitAppended
CloseDue == closing.on /\ (exitAppended \/ closing.forced)

\* The select is reached only when the checks at the top of the loop are done.
Select == Running /\ ~ExitDue /\ ~CloseDue

AppendExit ==
    /\ Running /\ ExitDue
    /\ exitAppended' = TRUE
    /\ log' = Append(log, "exit")
    /\ puller' = Wake
    /\ meta' = [meta EXCEPT !.state = "exited"]
    /\ UNCHANGED <<child, pumpVars, aborted, exiting, outputDone, closing, actor, closer, signals, calls>>

BreakLoop ==
    /\ Running /\ ~ExitDue /\ CloseDue
    /\ actor' = "abort"
    /\ UNCHANGED <<child, pumpVars, aborted, log, exiting, outputDone, exitAppended, closing, meta,
                   closer, signals, calls, puller>>

SeeEof ==
    /\ Select
    /\ eof /\ ~outputDone
    /\ outputDone' = TRUE
    /\ UNCHANGED <<child, pumpVars, aborted, log, exiting, exitAppended, closing, actor, meta, closer,
                   signals, calls, puller>>

\* The wait future reaps the child inside the actor's own poll.
SeeExit ==
    /\ Select
    /\ child = "dead" /\ ~exiting
    /\ child' = "reaped"
    /\ exiting' = TRUE
    /\ UNCHANGED <<pumpVars, aborted, log, outputDone, exitAppended, closing, actor, meta, closer,
                   signals, calls, puller>>

Sent(sig) == Append(signals, sig)

\* Command::Signal; `exiting' counts as exited.
HandleSignal(sig) ==
    /\ Select
    /\ calls < MaxSignals
    /\ calls' = calls + 1
    /\ signals' = IF meta.state = "running" /\ ~meta.closing /\ ~exiting
                    THEN Sent(sig) ELSE signals
    /\ UNCHANGED <<child, pumpVars, aborted, log, actorVars, meta, closer, puller>>

StepAfter(sig) == CASE sig = "KILL" -> "none" [] sig = "TERM" -> "KILL" [] OTHER -> "TERM"

\* Command::Close: join the close in flight, or begin one.
HandleClose(k, sig) ==
    /\ Select
    /\ closer[k] = "sent"
    /\ closer' = [closer EXCEPT ![k] = "joined"]
    /\ IF closing.on
         THEN UNCHANGED <<closing, meta, signals>>
         ELSE LET exited == meta.state = "exited" \/ exiting
              IN  /\ meta' = [meta EXCEPT !.closing = TRUE]
                  /\ closing' = [on |-> TRUE, forced |-> FALSE,
                                 next |-> IF exited THEN "none" ELSE StepAfter(sig)]
                  /\ signals' = IF exited THEN signals ELSE Sent(sig)
    /\ UNCHANGED <<child, pumpVars, aborted, log, exiting, outputDone, exitAppended, actor, calls, puller>>

\* Mutant: nothing ends a close whose child survives the KILL.
EscalateNeverForces ==
    /\ Select
    /\ closing.on /\ closing.next # "none"
    /\ signals' = Sent(closing.next)
    /\ closing' = [closing EXCEPT !.next = IF @ = "KILL" THEN "none" ELSE "KILL"]
    /\ UNCHANGED <<child, pumpVars, aborted, log, exiting, outputDone, exitAppended, actor, meta, closer,
                   calls, puller>>

\* The escalation timer fired.
Escalate ==
    /\ Select
    /\ closing.on
    /\ IF closing.next # "none"
         THEN /\ signals' = Sent(closing.next)
              /\ closing' = [closing EXCEPT !.next = IF @ = "KILL" THEN "none" ELSE "KILL"]
         ELSE /\ closing' = [closing EXCEPT !.forced = TRUE]
              /\ UNCHANGED signals
    /\ UNCHANGED <<child, pumpVars, aborted, log, exiting, outputDone, exitAppended, actor, meta, closer,
                   calls, puller>>

-----------------------------------------------------------------------------
(* The actor's finalisation *)

AbortTasks ==
    /\ actor = "abort"
    /\ aborted' = TRUE
    /\ actor' = "mark"
    /\ UNCHANGED <<child, pumpVars, log, exiting, outputDone, exitAppended, closing, meta, closer,
                   signals, calls, puller>>

\* mark_closed: the metadata first, the entry after it.
MarkClosed ==
    /\ actor = "mark"
    /\ meta' = [meta EXCEPT !.closing = TRUE, !.closed = TRUE]
    /\ actor' = "append"
    /\ UNCHANGED <<child, pumpVars, aborted, log, exiting, outputDone, exitAppended, closing, closer,
                   signals, calls, puller>>

\* Mutant: the closers are answered before the entry is appended.
AppendClosedAfterAnswer ==
    /\ actor = "append"
    /\ closer' = [k \in Closers |-> IF closer[k] = "joined" THEN "resolved" ELSE closer[k]]
    /\ actor' = "answer"
    /\ UNCHANGED <<child, pumpVars, aborted, log, exiting, outputDone, exitAppended, closing, meta,
                   signals, calls, puller>>

AppendClosed ==
    /\ actor = "append"
    /\ log' = Append(log, "closed")
    /\ puller' = Wake
    /\ actor' = "answer"
    /\ UNCHANGED <<child, pumpVars, aborted, exiting, outputDone, exitAppended, closing, meta, closer,
                   signals, calls>>

\* The responders are answered; the inbox is dropped with the Close commands
\* still in it, which resolves their callers as well.
AnswerClosers ==
    /\ actor = "answer"
    /\ closer' = [k \in Closers |-> IF closer[k] \in {"sent", "joined"} THEN "resolved" ELSE closer[k]]
    /\ actor' = "gone"
    /\ UNCHANGED <<child, pumpVars, aborted, log, exiting, outputDone, exitAppended, closing, meta,
                   signals, calls, puller>>

-----------------------------------------------------------------------------
(* Callers *)

\* SessionHandle::close: the send fails, and the call returns, once the actor is gone.
SendClose(k) ==
    /\ closer[k] = "idle"
    /\ closer' = [closer EXCEPT ![k] = IF actor = "gone" THEN "resolved" ELSE "sent"]
    /\ UNCHANGED <<child, pumpVars, aborted, log, actorVars, meta, signals, calls, puller>>

\* pull: notified().enable() before the read.
PullRegister ==
    /\ puller.at = "register"
    /\ puller' = [puller EXCEPT !.at = "read", !.woken = FALSE]
    /\ UNCHANGED <<child, pumpVars, aborted, log, actorVars, meta, closer, signals, calls>>

PullRead ==
    /\ puller.at = "read"
    /\ puller' = IF Len(log) > puller.seen
                   THEN [puller EXCEPT !.at = "register", !.seen = Len(log)]
                   ELSE [puller EXCEPT !.at = "check"]
    /\ UNCHANGED <<child, pumpVars, aborted, log, actorVars, meta, closer, signals, calls>>

\* Nothing there and the deadline not reached: the pull goes to sleep.
PullSleep ==
    /\ puller.at = "check"
    /\ puller' = [puller EXCEPT !.at = "wait"]
    /\ UNCHANGED <<child, pumpVars, aborted, log, actorVars, meta, closer, signals, calls>>

PullWoken ==
    /\ puller.at = "wait" /\ puller.woken
    /\ puller' = [puller EXCEPT !.at = "register"]
    /\ UNCHANGED <<child, pumpVars, aborted, log, actorVars, meta, closer, signals, calls>>

-----------------------------------------------------------------------------
ActorStep ==
    \/ AppendExit \/ BreakLoop
    \/ SeeEof \/ SeeExit
    \/ \E k \in Closers, sig \in FirstSignals : HandleClose(k, sig)
    \/ Escalate
    \/ AbortTasks \/ MarkClosed \/ AppendClosed \/ AnswerClosers

PumpStep == PumpPush \/ PumpNotify \/ PumpAborted
PullStep == PullRegister \/ PullRead \/ PullSleep \/ PullWoken

Next ==
    \/ ChildDies
    \/ PumpRead \/ PumpEof \/ PumpStep
    \/ ActorStep
    \/ \E sig \in FirstSignals : HandleSignal(sig)
    \/ \E k \in Closers : SendClose(k)
    \/ PullStep

\* The runtime keeps polling runnable tasks, an armed timer fires and select!
\* does not starve a ready branch.  Nothing is assumed of the child or its
\* output: it may live, write and hold its output open forever.
Fairness ==
    /\ WF_vars(ActorStep)
    /\ WF_vars(Escalate)
    /\ \A k \in Closers, sig \in FirstSignals : WF_vars(HandleClose(k, sig))
    /\ WF_vars(PumpStep)
    /\ WF_vars(PullStep)

Spec == Init /\ [][Next]_vars /\ Fairness

-----------------------------------------------------------------------------
(* Safety *)

Positions(item) == {i \in DOMAIN log : log[i] = item}

\* `session.exit' is appended at most once, after the last byte of output and
\* before `session.closed' (the run loop's "output-before-exit").
ExitIsFinal ==
    /\ Cardinality(Positions("exit")) <= 1
    /\ Cardinality(Positions("closed")) <= 1
    /\ \A i \in Positions("exit") : \A j \in Positions("out") : j < i
    /\ \A i \in Positions("exit") : \A j \in Positions("closed") : i < j

\* Whoever called close, first or joining, returns only once `Closed' is in the
\* ring ("resolves once the Closed entry is in the ring").
ClosersResolveAfterClosed ==
    \A k \in Closers : closer[k] = "resolved" => Positions("closed") # {}

-----------------------------------------------------------------------------
(* Liveness *)

\* Every close returns, whatever the child does about the signals.
CloseCompletes ==
    \A k \in Closers : closer[k] = "sent" ~> closer[k] = "resolved"

\* A pull with an unlimited wait sees every append: no wake-up is lost.
PullSeesAppends ==
    \A n \in 1..(MaxChunks + 2) : Len(log) >= n ~> puller.seen >= n
=============================================================================
