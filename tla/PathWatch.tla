----------------------------- MODULE PathWatch -----------------------------
(***************************************************************************)
(* The path watchdog of an attach or of a reverse registration             *)
(* (client/pathwatch.rs): the judgment (PathState), its handle (PathWatch, *)
(* StallGuard), the transport's counters (RxLiveness) and the loop         *)
(* (watch_path_with_wake), with the wake events of client/wake.rs.         *)
(*                                                                         *)
(* Time is discrete.  An instant the code remembers is kept as its age, so *)
(* that a step of the clock adds one to every age; ages stop at Horizon,   *)
(* beyond every threshold.  While the process is scheduled a timer that is *)
(* due fires and a packet is read at the instant it arrives.  While it is  *)
(* not (Starve) the clock runs and packets wait in the socket, and when it *)
(* is again, the timer may fire before they are read.                      *)
(*                                                                         *)
(* One round of the loop is one step: what a pump observes between its     *)
(* calls it may as well have observed before them.                         *)
(***************************************************************************)
EXTENDS Naturals

CONSTANTS ProbeInterval, IdleProbeInterval, ActiveWindow, MinDeadAfter,
          RttMultiple, Strikes,   \* PathWatchConfig
          Rtts,                   \* the smoothed RTTs the transport may report
          MaxLate,                \* bound on how late a tick fires
          Horizon,                \* bound on ages
          Never                   \* the age of what has not happened

ASSUME WatchAssumption ==
    /\ {ProbeInterval, IdleProbeInterval, Strikes} \subseteq Nat \ {0}
    /\ {ActiveWindow, MinDeadAfter, RttMultiple, MaxLate} \subseteq Nat
    /\ ProbeInterval <= IdleProbeInterval
    /\ Rtts \subseteq Nat /\ Rtts # {}
    /\ Horizon \in Nat /\ ProbeInterval <= Horizon /\ Never \notin Nat

VARIABLES
    watch,      \* PathState
    stalls,     \* Inner.stalls
    dead,       \* Inner.dead
    rx,         \* RxLiveness: which counters have moved since the last sample
    timer,      \* the loop's sleep: how long so far, which is the age of the
                \* last sample too, and the period
    rewake,     \* the permit of Inner.wake
    running,    \* the process is scheduled
    socket,     \* the best of what has arrived and was not read
    woke,       \* history: the wake arm gave the verdict
    heard,      \* history: the age of the last authenticated packet read
    credit,     \* history: how long the loop had slept when it was read
    excused     \* history: since then the process was starved or a consumer
                \* stalled, or since then or just before the watch was idle

loopVars == <<rx, timer, rewake>>
history == <<heard, credit, excused>>
watchVars == <<watch, stalls, dead, loopVars, running, socket, woke, history>>

-----------------------------------------------------------------------------
(* PathWatchConfig and PathState.                                          *)

MaxOf(a, b) == IF a >= b THEN a ELSE b
MinOf(a, b) == IF a <= b THEN a ELSE b
Monus(a, b) == IF a >= b THEN a - b ELSE 0

Older(age) == IF age = Never THEN Never ELSE MinOf(age + 1, Horizon)

\* self_delay_threshold
SelfDelayThreshold == ProbeInterval

\* datagram_grace
DatagramGrace == ProbeInterval * Strikes

\* dead_after
DeadAfter(rtt) == MaxOf(MinDeadAfter, rtt * RttMultiple)

\* PathState::new.  No probe yet counts as one that is long past.
NewState == [silence |-> 0, idle |-> 0, probed |-> IdleProbeInterval, unanswered |-> 0,
             probeNow |-> FALSE, margin |-> 0, hint |-> Never, grace |-> Never]

\* observe_inbound, with the new cycle it begins.
ObserveInbound(w) ==
    [w EXCEPT !.silence = 0, !.unanswered = 0, !.hint = Never, !.grace = Never]

\* observe_inbound_since: never moves the silence clock back.
ObserveInboundSince(w, age) ==
    [w EXCEPT !.silence = MinOf(@, age), !.unanswered = 0, !.hint = Never, !.grace = Never]

\* observe_datagram at the present: a hint, which answers no probe.
ObserveDatagram(w) == [w EXCEPT !.hint = 0]

ObserveActivity(w) == [w EXCEPT !.idle = 0]

ObserveWake(w) == [w EXCEPT !.idle = 0, !.probeNow = TRUE]

\* Mutant: a late tick is discounted, and judged without the margin.
ObserveTickNoMargin(w, gap, expected) ==
    LET late == Monus(gap, expected)
    IN IF late < SelfDelayThreshold THEN w ELSE [w EXCEPT !.silence = Monus(@, late)]

\* observe_tick: a tick a whole probe interval late is this process's doing.
ObserveTick(w, gap, expected) ==
    LET late == Monus(gap, expected)
    IN IF late < SelfDelayThreshold
       THEN w
       ELSE [w EXCEPT !.silence = Monus(@, late), !.margin = late]

IsIdle(w) == w.idle > ActiveWindow

Cadence(w) == IF IsIdle(w) THEN IdleProbeInterval ELSE ProbeInterval

\* The death verdict is due: strikes and silence, past the margin of a late
\* tick.
Due(w, rtt) == w.unanswered >= Strikes /\ w.silence >= DeadAfter(rtt) + w.margin

\* A recent datagram buys one grace in a cycle.
Hinted(w) == w.hint # Never /\ w.hint <= DatagramGrace

\* Mutant: every recent datagram buys another grace.
DiesUnhinted(w, rtt) == Due(w, rtt) /\ ~Hinted(w)

Dies(w, rtt) ==
    Due(w, rtt) /\ IF w.grace = Never THEN ~Hinted(w) ELSE w.grace >= DatagramGrace

Probes(w) == w.probeNow \/ (w.silence >= Cadence(w) /\ w.probed >= Cadence(w))

\* verdict, when it does not rule the path dead.
Judged(w, rtt) ==
    [w EXCEPT !.margin = 0,
              !.grace = IF Due(w, rtt) /\ @ = Never THEN 0 ELSE @,
              !.probeNow = FALSE,
              !.probed = IF Probes(w) THEN 0 ELSE @,
              !.unanswered = IF Probes(w) THEN MinOf(@ + 1, Strikes) ELSE @]

\* restart_silence_clock
RestartSilenceClock(w) == [ObserveInbound(w) EXCEPT !.margin = 0]

\* What reaches the machine: a datagram that does not authenticate, an
\* acknowledgement or tunnel data that no pump sees, a control message.  Each
\* has the effects of the ones before it.
Packets == <<"forged", "bare", "message">>

Rank(packet) == IF packet = "none" THEN 0 ELSE CHOOSE i \in DOMAIN Packets : Packets[i] = packet

Better(p, q) == IF Rank(p) >= Rank(q) THEN p ELSE q

Unmoved == [frames |-> FALSE, datagrams |-> FALSE]

WatchInit ==
    /\ watch = NewState
    /\ stalls = 0
    /\ dead = FALSE
    /\ rx = Unmoved
    /\ timer = [slept |-> 0, period |-> ProbeInterval]
    /\ rewake = FALSE
    /\ woke = FALSE
    /\ running = TRUE
    /\ socket = "none"
    /\ heard = 0
    /\ credit = 0
    /\ excused = FALSE

-----------------------------------------------------------------------------
(* The clock, the scheduler, the network, the user.                        *)

\* Something is ready to run at this instant.
Ready == timer.slept >= timer.period \/ rewake \/ socket # "none"

\* The clock.
Pass ==
    /\ ~dead
    /\ running => ~Ready
    /\ timer.slept < timer.period + MaxLate
    /\ watch' = [watch EXCEPT !.silence = Older(@), !.idle = MinOf(@ + 1, ActiveWindow + 1),
                              !.probed = MinOf(@ + 1, IdleProbeInterval),
                              !.hint = IF @ = Never \/ @ > DatagramGrace THEN Never ELSE @ + 1,
                              !.grace = IF @ = Never THEN @ ELSE MinOf(@ + 1, DatagramGrace)]
    /\ timer' = [timer EXCEPT !.slept = @ + 1]
    /\ heard' = Older(heard)
    /\ excused' = (excused \/ ~running \/ stalls > 0
                    \/ IsIdle(watch') \/ timer.period # ProbeInterval)
    /\ UNCHANGED <<stalls, dead, rx, rewake, woke, running, socket, credit>>

\* The process is not scheduled, and is again.
Starve ==
    /\ ~dead /\ running
    /\ running' = FALSE
    /\ UNCHANGED <<watch, stalls, dead, loopVars, socket, woke, history>>

Resume ==
    /\ ~running
    /\ running' = TRUE
    /\ UNCHANGED <<watch, stalls, dead, loopVars, socket, woke, history>>

\* The transport reads: its counters move, and a pump that is not parked
\* observes its message (inbound).  One that is parked observes it when it goes
\* on, at the instant the guard restarts the clock.
Receive(packet) ==
    /\ rx' = [datagrams |-> TRUE, frames |-> rx.frames \/ packet # "forged"]
    /\ watch' = IF packet = "message" /\ stalls = 0 THEN ObserveInbound(watch) ELSE watch
    /\ IF packet = "forged"
       THEN UNCHANGED history
       ELSE /\ heard' = 0
            /\ credit' = timer.slept
            /\ excused' = (IsIdle(watch) \/ timer.period # ProbeInterval)
    /\ UNCHANGED <<timer, rewake>>

Arrive(packet) ==
    /\ ~dead
    /\ IF running
       THEN Receive(packet) /\ socket' = socket
       ELSE socket' = Better(packet, socket) /\ UNCHANGED <<watch, loopVars, history>>
    /\ UNCHANGED <<stalls, dead, running, woke>>

\* What came while the process was away.
ReadSocket ==
    /\ running /\ ~dead
    /\ socket # "none"
    /\ socket' = "none"
    /\ Receive(socket)
    /\ UNCHANGED <<stalls, dead, running, woke>>

\* activity: the user types; and the second half of traffic, a message that is
\* session traffic.  The end of an idle spell wakes the watchdog.
Activity ==
    /\ running /\ ~dead
    /\ watch' = ObserveActivity(watch)
    /\ rewake' = (rewake \/ IsIdle(watch))
    /\ UNCHANGED <<stalls, dead, rx, timer, woke, running, socket, history>>

\* stalled: a pump parks on the frontend's full queue.
Stall ==
    /\ running /\ ~dead
    /\ stalls = 0
    /\ stalls' = 1
    /\ UNCHANGED <<watch, dead, loopVars, running, socket, woke, history>>

\* StallGuard::drop
Unstall ==
    /\ running /\ ~dead
    /\ stalls = 1
    /\ stalls' = 0
    /\ watch' = RestartSilenceClock(watch)
    /\ excused' = TRUE
    /\ UNCHANGED <<dead, loopVars, running, socket, woke, heard, credit>>

-----------------------------------------------------------------------------
(* The loop.                                                               *)

\* RxLiveness::sample: frames are credited to the previous sample.
Sampled(w) ==
    LET credited == IF rx.frames THEN ObserveInboundSince(w, timer.slept) ELSE w
    IN IF rx.datagrams THEN ObserveDatagram(credited) ELSE credited

\* The next round samples afresh and sleeps from now, on the cadence of now.
NextRound(w) ==
    /\ rx' = Unmoved
    /\ timer' = [slept |-> 0, period |-> Cadence(w)]

\* PathWatch::verdict: while a consumer is stalled nothing is judged.  The loop
\* ends with the path.
Judge(w, rtt) ==
    LET dies == stalls = 0 /\ Dies(w, rtt)
    IN /\ dead' = dies
       /\ watch' = IF stalls > 0 THEN RestartSilenceClock(w)
                   ELSE IF dies THEN w ELSE Judged(w, rtt)
       /\ IF dies THEN UNCHANGED <<rx, timer>> ELSE NextRound(watch')

\* The timer arm.
TimerFires(rtt) ==
    /\ running /\ ~dead
    /\ timer.slept >= timer.period
    /\ Judge(Sampled(ObserveTick(watch, timer.slept, timer.period)), rtt)
    /\ UNCHANGED <<stalls, rewake, woke, running, socket, history>>

\* The wake arm: recorded, then judged at once.  Any number of wakes falls in one
\* silence, with no regard to the WAKE_TICK between them.
Wakes(rtt) ==
    /\ running /\ ~dead
    /\ Judge(Sampled(ObserveWake(watch)), rtt)
    /\ woke' = dead'
    /\ UNCHANGED <<stalls, rewake, running, socket, history>>

\* woken: back from idle, the sleep is timed again and nothing is judged.
Retime ==
    /\ running /\ ~dead
    /\ rewake
    /\ rewake' = FALSE
    /\ watch' = Sampled(watch)
    /\ NextRound(watch')
    /\ UNCHANGED <<stalls, dead, woke, running, socket, history>>

\* revive, with the loop that is spawned again: the connection migrated, and
\* answered on the new path.
Revive ==
    /\ running /\ dead
    /\ dead' = FALSE
    /\ watch' = NewState
    /\ NextRound(NewState)
    /\ woke' = FALSE
    /\ heard' = 0
    /\ credit' = 0
    /\ excused' = FALSE
    /\ UNCHANGED <<stalls, rewake, running, socket>>

-----------------------------------------------------------------------------
Loop == \E rtt \in Rtts : TimerFires(rtt) \/ Wakes(rtt)

WatchNext ==
    \/ Pass \/ Starve \/ Resume
    \/ \E i \in DOMAIN Packets : Arrive(Packets[i])
    \/ ReadSocket \/ Activity \/ Stall \/ Unstall
    \/ Loop \/ Retime \/ Revive

WatchSpec == WatchInit /\ [][WatchNext]_watchVars

-----------------------------------------------------------------------------
(* Properties.                                                             *)

\* How old the last packet may be when the verdict is due: less than a round past
\* both dead_after and the strikes.  docs/design/protocol.md:396 bounds this age
\* by the MaxOf alone.  The code needs the round more: a packet read just after a
\* round leaves the next one without a probe, and a round counts the probes of
\* the ones before it.
DetectionBudget(rtt) ==
    MaxOf(DeadAfter(rtt), ProbeInterval * (Strikes + 1)) + ProbeInterval

\* What one grace adds: itself, where protocol.md:396 ends, and a round more when
\* the wake of a machine that slept moves the rounds.
GraceBudget == IF watch.grace = Never THEN 0 ELSE DatagramGrace + ProbeInterval

\* A path in use that has gone silent is declared dead within the budget,
\* whatever unauthenticated datagrams still arrive and however many wakes fall in
\* the silence: a hint delays verdict() once in a cycle, never again and again,
\* and a wake that starts the sleep anew never costs a strike.  This bound is one
\* round, and with a grace two, above the documented one, and the code needs it:
\* it comes as near as one instant, with a grace two, to using it up.
\* Excused is a silence in which this process was not scheduled, the frontend was
\* stalled, or the watch was on its idle cadence.
DetectedInTime ==
    \/ dead \/ excused \/ stalls > 0
    \/ \E rtt \in Rtts : heard < DetectionBudget(rtt) + GraceBudget

\* By how much the tick in hand is late, when that is a self-delay.
Lateness == LET late == Monus(timer.slept, timer.period)
            IN IF late >= SelfDelayThreshold THEN late ELSE 0

\* A path is declared dead only if the last packet read is dead_after old,
\* counting from the sample before it, and when the tick that rules is late by a
\* self-delay, older by twice that: once what observe_tick takes off the
\* silence, once the margin it asks of this verdict.  So a starved process has
\* twice its delay in hand before it blames the path for what it has not read;
\* a verdict of the wake arm, which does not call observe_tick, has nothing.
VerdictIsEarned ==
    dead => \E rtt \in Rtts :
               heard + credit >= DeadAfter(rtt) + (IF woke THEN 0 ELSE 2 * Lateness)
=============================================================================
