------------------------------- MODULE Broker -------------------------------
(***************************************************************************)
(* The session broker (broker/mod.rs), its resume credentials              *)
(* (broker/resume.rs), and the server handlers that use both               *)
(* (server/sessions.rs, server/tunnels.rs): session.open, session.attach,  *)
(* session.close, the data stream that redeems a ticket, the reaper and    *)
(* the SIGTERM drain.                                                      *)
(*                                                                         *)
(* A session is what the broker sees of it: SessionActor has its life.     *)
(* Every step is one critical section of one lock.  Time is a count of     *)
(* coarse units: a task that can run does so before a unit passes (the     *)
(* guard of Advance), only the waits the code has (the reaper's tick, a    *)
(* close's escalation, a ticket's life, spawning a child) span units.      *)
(***************************************************************************)
EXTENDS Naturals, FiniteSets

CONSTANTS
    Sessions,      \* session ids, each generated once
    Handlers,      \* tasks that serve a session.open or a session.attach
    Principals,    \* the openers quotas are counted for
    MaxSessions,   \* [serve].max_sessions
    MaxPerPrincipal, \* [serve].max_sessions_per_principal
    ReaperTick,    \* REAPER_TICK
    Ttl,           \* [serve].resume_ttl
    Retention,     \* CLOSED_RETENTION
    TicketTtl,     \* TICKET_TTL
    CloseMax,      \* the longest close: three close_grace periods
    MaxTime,       \* bound: units of time
    MaxGen         \* bound: generations of one session's token

ASSUME BrokerConstants ==
    /\ {MaxSessions, MaxPerPrincipal, MaxTime, MaxGen} \subseteq Nat
    /\ {ReaperTick, Ttl, Retention, TicketTtl, CloseMax} \subseteq Nat \ {0}
    /\ IsFiniteSet(Sessions) /\ IsFiniteSet(Handlers)

\* Who waits for a close and forgets the credential after it.
Requesters == {"user", "reaper", "drain"}

VARIABLES
    now,       \* Clock::now
    registry,  \* Broker.registry: each session's Meta, as the broker reads it
    inFlight,  \* Broker.in_flight: the SessionSlots not yet released
    cred,      \* ResumeRegistry.entries: the Entry of each session, if any
    asked,     \* the requesters awaiting SessionHandle::close, per session
    reaper,    \* reap_once: its step, its snapshot and when it wakes
    drain,     \* Server::drain: its step and the sessions it waits for
    task       \* each handler: its step, session, presented token, ticket's end

vars == <<now, registry, inFlight, cred, asked, reaper, drain, task>>

None == "none"
NoSession == [st |-> "none", opener |-> None, attached |-> 0, base |-> 0,
              exited |-> FALSE, closeBy |-> 0, closedAt |-> 0]
NoDeadlines == [s \in {} |-> 0]
NoCred == [gen |-> 0, expires |-> 0, known |-> FALSE]
Idle == [at |-> "idle", s |-> None, gen |-> 0, until |-> 0]
Asleep(wake) == [at |-> "asleep", wake |-> wake, doomed |-> {}, expired |-> {},
                 deadline |-> NoDeadlines]

Init ==
    /\ now = 0
    /\ registry = [s \in Sessions |-> NoSession]
    /\ inFlight = {}
    /\ cred = [s \in Sessions |-> NoCred]
    /\ asked = [s \in Sessions |-> {}]
    /\ reaper = Asleep(ReaperTick)
    /\ drain = [at |-> "no", left |-> {}]
    /\ task = [h \in Handlers |-> Idle]

-----------------------------------------------------------------------------
(* What the registry and the credential store say of a session *)

\* closed_at is None: the session counts against the caps, and get finds it.
Live(s) == registry[s].st \in {"live", "closing"}
LiveSessions == {s \in Sessions : Live(s)}
Registered == {s \in Sessions : registry[s].st \in {"live", "closing", "closed"}}

\* Mutant: only a running child's session is reaped.
DoomedRunning(s) ==
    /\ registry[s].st = "live" /\ ~registry[s].exited
    /\ registry[s].attached = 0
    /\ now >= registry[s].base + Ttl

\* TtlWindow::reap_reason: past the TTL, unattached, no close accepted.
Doomed(s) ==
    /\ registry[s].st = "live"
    /\ registry[s].attached = 0
    /\ now >= registry[s].base + Ttl

\* TtlWindow::deadline.
Deadline(s) == (IF registry[s].attached > 0 THEN now ELSE registry[s].base) + Ttl

\* ResumeRegistry::verify of the token of generation gen.
Verifies(s, gen) == gen > 0 /\ cred[s].gen = gen /\ cred[s].expires > now

-----------------------------------------------------------------------------
(* session.open *)

\* Mutant: only live sessions count, not the opens still under way.
ReservableIgnoringFlight(p) ==
    /\ Cardinality(LiveSessions) < MaxSessions
    /\ Cardinality({s \in LiveSessions : registry[s].opener = p}) < MaxPerPrincipal

\* reserve_slot's two caps: live sessions plus in-flight reservations.
Reservable(p) ==
    /\ Cardinality(LiveSessions) + Cardinality(inFlight) < MaxSessions
    /\ Cardinality({s \in LiveSessions : registry[s].opener = p})
         + Cardinality({slot \in inFlight : slot.opener = p}) < MaxPerPrincipal

Slot(h) == {slot \in inFlight : slot.holder = h}

\* handle_session_open up to reserve_slot: the drain gate, then the caps.
ReserveSlot(h, p) ==
    /\ task[h].at = "idle"
    /\ drain.at = "no"
    /\ Reservable(p)
    /\ inFlight' = inFlight \union {[holder |-> h, opener |-> p]}
    /\ task' = [task EXCEPT ![h].at = "reserved"]
    /\ UNCHANGED <<now, registry, cred, asked, reaper, drain>>

\* factory.create or SessionActor::create fails: the slot drops.
SpawnFails(h) ==
    /\ task[h].at = "reserved"
    /\ inFlight' = inFlight \ Slot(h)
    /\ task' = [task EXCEPT ![h] = Idle]
    /\ UNCHANGED <<now, registry, cred, asked, reaper, drain>>

\* Mutant: the broker's own draining flag is not read under the registry lock.
InsertUnchecked(h, s) ==
    /\ task[h].at = "reserved"
    /\ registry[s].st = "none"
    /\ registry' = [registry EXCEPT ![s] =
           [NoSession EXCEPT !.st = "live", !.base = now,
                             !.opener = (CHOOSE slot \in Slot(h) : TRUE).opener]]
    /\ inFlight' = inFlight \ Slot(h)
    /\ task' = [task EXCEPT ![h] = [Idle EXCEPT !.at = "inserted", !.s = s]]
    /\ UNCHANGED <<now, cred, asked, reaper, drain>>

\* open_with_opener_reserved: under the registry lock, refuse while draining,
\* otherwise insert the session and consume the slot.
Insert(h, s) ==
    /\ task[h].at = "reserved"
    /\ registry[s].st = "none"
    /\ inFlight' = inFlight \ Slot(h)
    /\ IF drain.at \in {"closing", "done", "cut"}
         THEN /\ task' = [task EXCEPT ![h] = Idle]
              /\ UNCHANGED registry
         ELSE /\ registry' = [registry EXCEPT ![s] =
                     [NoSession EXCEPT !.st = "live", !.base = now,
                          !.opener = (CHOOSE slot \in Slot(h) : TRUE).opener]]
              /\ task' = [task EXCEPT ![h] = [Idle EXCEPT !.at = "inserted", !.s = s]]
    /\ UNCHANGED <<now, cred, asked, reaper, drain>>

\* The end of handle_session_open: issue_ticket, then issue_resume.
IssueResume(h) ==
    /\ task[h].at = "inserted"
    /\ cred' = [cred EXCEPT ![task[h].s] =
                    [gen |-> 1, expires |-> now + Ttl, known |-> TRUE]]
    /\ task' = [task EXCEPT ![h].at = "ticketed", ![h].until = now + TicketTtl]
    /\ UNCHANGED <<now, registry, inFlight, asked, reaper, drain>>

-----------------------------------------------------------------------------
(* session.attach *)

\* Step 1, verify_resume.  The token is one the client was given; another one
\* changes nothing.
VerifyResume(h, s) ==
    /\ task[h].at = "idle"
    /\ cred[s].known /\ cred[s].gen < MaxGen
    /\ Verifies(s, cred[s].gen)
    /\ task' = [task EXCEPT ![h] = [Idle EXCEPT !.at = "verified", !.s = s,
                                                !.gen = cred[s].gen]]
    /\ UNCHANGED <<now, registry, inFlight, cred, asked, reaper, drain>>

\* The drain gate, then get and reserve_input_stream, which find the session or
\* answer SESSION_NOT_FOUND.
LookUp(h) ==
    /\ task[h].at = "verified"
    /\ task' = [task EXCEPT ![h] =
           CASE drain.at # "no" -> Idle
             [] drain.at = "no" /\ Live(@.s) -> [@ EXCEPT !.at = "found"]
             [] OTHER -> [@ EXCEPT !.at = "missed"]]
    /\ UNCHANGED <<now, registry, inFlight, cred, asked, reaper, drain>>

\* Mutant: rotate trusts the verify of step 1 and does not check the token again.
RotateResumeUnchecked(h) ==
    /\ task[h].at = "found"
    /\ cred[task[h].s].gen \in 1 .. MaxGen - 1
    /\ cred' = [cred EXCEPT ![task[h].s] =
                    [gen |-> @.gen + 1, expires |-> now + Ttl, known |-> FALSE]]
    /\ task' = [task EXCEPT ![h].at = "rotated"]
    /\ UNCHANGED <<now, registry, inFlight, asked, reaper, drain>>

\* rotate_resume: verify again, and replace the token by the next generation.
RotateResume(h) ==
    LET s == task[h].s IN
    /\ task[h].at = "found"
    /\ IF Verifies(s, task[h].gen)
         THEN /\ cred' = [cred EXCEPT ![s] =
                     [gen |-> @.gen + 1, expires |-> now + Ttl, known |-> FALSE]]
              /\ task' = [task EXCEPT ![h].at = "rotated"]
         ELSE /\ task' = [task EXCEPT ![h] = Idle]
              /\ UNCHANGED cred
    /\ UNCHANGED <<now, registry, inFlight, asked, reaper, drain>>

\* seed_input_stream looks the session up once more; then the ticket and the
\* reply, which carries the new token.
SeedAndIssueTicket(h) ==
    LET s == task[h].s IN
    /\ task[h].at = "rotated"
    /\ IF Live(s)
         THEN /\ cred' = [cred EXCEPT ![s].known = (@ \/ cred[s].gen = task[h].gen + 1)]
              /\ task' = [task EXCEPT ![h].at = "ticketed", ![h].until = now + TicketTtl]
         ELSE /\ task' = [task EXCEPT ![h].at = "missed"]
              /\ UNCHANGED cred
    /\ UNCHANGED <<now, registry, inFlight, asked, reaper, drain>>

\* The SESSION_NOT_FOUND reply is sent.
ReplyNotFound(h) ==
    /\ task[h].at = "missed"
    /\ task' = [task EXCEPT ![h] = Idle]
    /\ UNCHANGED <<now, registry, inFlight, cred, asked, reaper, drain>>

-----------------------------------------------------------------------------
(* The data stream *)

\* handle_data_stream redeems the ticket; take_lease_owned and attach both look
\* the session up, and attach_guard counts the attachment.
RedeemTicket(h) ==
    LET s == task[h].s IN
    /\ task[h].at = "ticketed"
    /\ task[h].until > now
    /\ IF Live(s)
         THEN /\ registry' = [registry EXCEPT ![s].attached = @ + 1]
              /\ task' = [task EXCEPT ![h].at = "attached", ![h].until = 0]
         ELSE /\ task' = [task EXCEPT ![h] = Idle]
              /\ UNCHANGED registry
    /\ UNCHANGED <<now, inFlight, cred, asked, reaper, drain>>

\* The ticket lapses, or its connection dies (purge_connection).
DropTicket(h) ==
    /\ task[h].at = "ticketed"
    /\ task' = [task EXCEPT ![h] = Idle]
    /\ UNCHANGED <<now, registry, inFlight, cred, asked, reaper, drain>>

\* Mutant: only the last attachment to leave is taken off the count.
DetachLastOnly(h) ==
    LET s == task[h].s IN
    /\ task[h].at = "attached"
    /\ task' = [task EXCEPT ![h] = Idle]
    /\ registry' = IF s \notin Registered \/ registry[s].attached > 1 THEN registry
                   ELSE [registry EXCEPT ![s].attached = 0, ![s].base = now]
    /\ UNCHANGED <<now, inFlight, cred, asked, reaper, drain>>

\* The stream ends and AttachGuard drops: the last one restarts the TTL.
Detach(h) ==
    LET s == task[h].s IN
    /\ task[h].at = "attached"
    /\ task' = [task EXCEPT ![h] = Idle]
    /\ registry' = IF s \notin Registered THEN registry
                   ELSE [registry EXCEPT ![s].attached = @ - 1,
                             ![s].base = IF registry[s].attached = 1 THEN now ELSE @]
    /\ UNCHANGED <<now, inFlight, cred, asked, reaper, drain>>

-----------------------------------------------------------------------------
(* The session actor, as the broker sees it *)

\* set_state_exited restarts the TTL at the child's exit.
Exit(s) ==
    /\ Live(s) /\ ~registry[s].exited
    /\ registry' = [registry EXCEPT ![s].exited = TRUE, ![s].base = now]
    /\ UNCHANGED <<now, inFlight, cred, asked, reaper, drain, task>>

\* mark_closed: the close's escalation is over.
ActorCloses(s) ==
    /\ registry[s].st = "closing"
    /\ registry' = [registry EXCEPT ![s].st = "closed", ![s].closedAt = now, ![s].closeBy = 0]
    /\ UNCHANGED <<now, inFlight, cred, asked, reaper, drain, task>>

\* SessionHandle::close: the actor accepts the first close, later ones join it.
AskClose(r, s) ==
    /\ r \notin asked[s]
    /\ asked' = [asked EXCEPT ![s] = @ \union {r}]
    /\ registry' = IF registry[s].st = "live"
                     THEN [registry EXCEPT ![s].st = "closing", ![s].closeBy = now + CloseMax]
                     ELSE registry

\* Broker::close, called for a session.close.
CloseSession(s) ==
    /\ Live(s)
    /\ AskClose("user", s)
    /\ UNCHANGED <<now, inFlight, cred, reaper, drain, task>>

\* After its close: Broker::close forgets the credential.
ForgetAfterClose(s) ==
    /\ "user" \in asked[s] /\ ~Live(s)
    /\ asked' = [asked EXCEPT ![s] = @ \ {"user"}]
    /\ cred' = [cred EXCEPT ![s] = NoCred]
    /\ UNCHANGED <<now, registry, inFlight, reaper, drain, task>>

-----------------------------------------------------------------------------
(* The reaper *)

\* Decide under the registry lock: the deadlines, the doomed and the expired.
Decide ==
    /\ reaper.at = "asleep" /\ reaper.wake <= now
    /\ reaper' = [reaper EXCEPT
           !.at = "remove",
           !.deadline = [s \in Registered |-> Deadline(s)],
           !.doomed = {s \in Sessions : Doomed(s)},
           !.expired = {s \in Sessions : registry[s].st = "closed"
                                          /\ now >= registry[s].closedAt + Retention}]
    /\ UNCHANGED <<now, registry, inFlight, cred, asked, drain, task>>

\* Drop the expired sessions from the registry.
RemoveExpired ==
    /\ reaper.at = "remove"
    /\ registry' = [s \in Sessions |-> IF s \in reaper.expired
                                         THEN [NoSession EXCEPT !.st = "gone"]
                                         ELSE registry[s]]
    /\ reaper' = [reaper EXCEPT !.at = "sync", !.expired = {}]
    /\ UNCHANGED <<now, inFlight, cred, asked, drain, task>>

\* Mutant: lapsed credentials are purged and none is re-anchored.
SyncExpiryOnlyPurges ==
    /\ reaper.at = "sync"
    /\ cred' = [s \in Sessions |-> IF cred[s].expires > now THEN cred[s] ELSE NoCred]
    /\ reaper' = [reaper EXCEPT !.at = "close", !.deadline = NoDeadlines]
    /\ UNCHANGED <<now, registry, inFlight, asked, drain, task>>

\* Mutant: a credential whose session is gone is kept.
SyncExpiryNeverPurges ==
    /\ reaper.at = "sync"
    /\ cred' = [s \in Sessions |->
           IF cred[s].gen > 0 /\ s \in DOMAIN reaper.deadline
             THEN [cred[s] EXCEPT !.expires = reaper.deadline[s]]
             ELSE cred[s]]
    /\ reaper' = [reaper EXCEPT !.at = "close", !.deadline = NoDeadlines]
    /\ UNCHANGED <<now, registry, inFlight, asked, drain, task>>

\* sync_expiry: re-anchor the credentials of the sessions in the snapshot, drop
\* the lapsed ones of the others.
SyncExpiry ==
    /\ reaper.at = "sync"
    /\ cred' = [s \in Sessions |->
           IF cred[s].gen > 0 /\ s \in DOMAIN reaper.deadline
             THEN [cred[s] EXCEPT !.expires = reaper.deadline[s]]
             ELSE IF cred[s].expires > now THEN cred[s] ELSE NoCred]
    /\ reaper' = [reaper EXCEPT !.at = "close", !.deadline = NoDeadlines]
    /\ UNCHANGED <<now, registry, inFlight, asked, drain, task>>

\* One of the doomed sessions is asked to close.
ReaperCloses(s) ==
    /\ reaper.at = "close" /\ s \in reaper.doomed
    /\ AskClose("reaper", s)
    /\ UNCHANGED <<now, inFlight, cred, reaper, drain, task>>

\* One of those closes is over: forget the credential.
ReaperForgets(s) ==
    /\ "reaper" \in asked[s] /\ ~Live(s)
    /\ asked' = [asked EXCEPT ![s] = @ \ {"reaper"}]
    /\ cred' = [cred EXCEPT ![s] = NoCred]
    /\ reaper' = [reaper EXCEPT !.doomed = @ \ {s}]
    /\ UNCHANGED <<now, registry, inFlight, drain, task>>

\* reap_once returns and run_reaper sleeps.
ReaperSleeps ==
    /\ reaper.at = "close" /\ reaper.doomed = {}
    /\ reaper' = Asleep(now + ReaperTick)
    /\ UNCHANGED <<now, registry, inFlight, cred, asked, drain, task>>

-----------------------------------------------------------------------------
(* The SIGTERM drain *)

\* drain_as sets the server's flag.
DrainFlag ==
    /\ drain.at = "no"
    /\ drain' = [drain EXCEPT !.at = "flagged"]
    /\ UNCHANGED <<now, registry, inFlight, cred, asked, reaper, task>>

\* close_all: the broker's flag and the snapshot under one registry lock.
CloseAll ==
    /\ drain.at = "flagged"
    /\ drain' = [at |-> "closing", left |-> LiveSessions]
    /\ UNCHANGED <<now, registry, inFlight, cred, asked, reaper, task>>

DrainCloses(s) ==
    /\ drain.at = "closing" /\ s \in drain.left
    /\ AskClose("drain", s)
    /\ UNCHANGED <<now, inFlight, cred, reaper, drain, task>>

DrainForgets(s) ==
    /\ "drain" \in asked[s] /\ ~Live(s)
    /\ asked' = [asked EXCEPT ![s] = @ \ {"drain"}]
    /\ cred' = [cred EXCEPT ![s] = NoCred]
    /\ drain' = [drain EXCEPT !.left = @ \ {s}]
    /\ UNCHANGED <<now, registry, inFlight, reaper, task>>

DrainDone ==
    /\ drain.at = "closing" /\ drain.left = {}
    /\ drain' = [drain EXCEPT !.at = "done"]
    /\ UNCHANGED <<now, registry, inFlight, cred, asked, reaper, task>>

\* DRAIN_TIMEOUT: the closes that drag on are no longer waited for, and their
\* credentials are not forgotten.  close_grace is configured, so a close may take
\* longer than the timeout.  The process ends then: no more time passes.
DrainTimesOut ==
    /\ drain.at = "closing" /\ drain.left # {}
    /\ \A s \in drain.left : "drain" \in asked[s]
    /\ drain' = [at |-> "cut", left |-> {}]
    /\ asked' = [s \in Sessions |-> asked[s] \ {"drain"}]
    /\ UNCHANGED <<now, registry, inFlight, cred, reaper, task>>

-----------------------------------------------------------------------------
(* Time *)

\* No task can run, and no wait of the code has reached its end.
Quiet ==
    /\ \A h \in Handlers : task[h].at \in {"idle", "reserved", "ticketed", "attached"}
    /\ \A s \in Sessions :
           /\ registry[s].st = "closing" => registry[s].closeBy > now
           /\ asked[s] # {} => Live(s)
    /\ \/ reaper.at = "asleep" /\ reaper.wake > now
       \/ /\ reaper.at = "close" /\ reaper.doomed # {}
          /\ \A s \in reaper.doomed : "reaper" \in asked[s]
    /\ \/ drain.at \in {"no", "done"}
       \/ /\ drain.at = "closing" /\ drain.left # {}
          /\ \A s \in drain.left : "drain" \in asked[s]

Advance ==
    /\ now < MaxTime
    /\ Quiet
    /\ now' = now + 1
    /\ UNCHANGED <<registry, inFlight, cred, asked, reaper, drain, task>>

Next ==
    \/ \E h \in Handlers :
          \/ \E p \in Principals : ReserveSlot(h, p)
          \/ SpawnFails(h) \/ IssueResume(h) \/ LookUp(h) \/ RotateResume(h)
          \/ SeedAndIssueTicket(h) \/ ReplyNotFound(h)
          \/ RedeemTicket(h) \/ DropTicket(h) \/ Detach(h)
          \/ \E s \in Sessions : Insert(h, s) \/ VerifyResume(h, s)
    \/ \E s \in Sessions :
          \/ Exit(s) \/ ActorCloses(s) \/ CloseSession(s) \/ ForgetAfterClose(s)
          \/ ReaperCloses(s) \/ ReaperForgets(s) \/ DrainCloses(s) \/ DrainForgets(s)
    \/ Decide \/ RemoveExpired \/ SyncExpiry \/ ReaperSleeps
    \/ DrainFlag \/ CloseAll \/ DrainDone \/ DrainTimesOut
    \/ Advance

Spec == Init /\ [][Next]_vars

-----------------------------------------------------------------------------
(* Properties *)

\* The count of attachments is the number of data streams that hold an
\* AttachGuard: a count that could drift would suspend the TTL of an abandoned
\* session for ever, or reap one that is in use.
AttachCountExact ==
    \A s \in Registered : registry[s].attached =
        Cardinality({h \in Handlers : task[h].at = "attached" /\ task[h].s = s})

\* The caps hold counting the opens under way, whoever races whom between
\* reserve_slot and the insert, and no reservation outlives its open.
QuotaHeld ==
    /\ Cardinality(LiveSessions)
         + Cardinality({h \in Handlers : task[h].at = "reserved"}) <= MaxSessions
    /\ \A p \in Principals :
           Cardinality({s \in LiveSessions : registry[s].opener = p}) <= MaxPerPrincipal
    /\ {slot.holder : slot \in inFlight} = {h \in Handlers : task[h].at = "reserved"}

\* Once close_all has returned in time, no session is left running and none can appear
\* any more, although opens were under way when it took its snapshot.
DrainLeavesNothing == drain.at = "done" => LiveSessions = {}

\* Two redemptions of one token never both win, although each verified it before
\* the other rotated it.
OneWinnerPerToken ==
    \A h, k \in Handlers :
        (/\ h # k
         /\ {task[h].at, task[k].at} \subseteq {"rotated", "ticketed", "attached"}
         /\ task[h].s = task[k].s)
        => task[h].gen # task[k].gen

\* The longest time between two passes of the reaper: its sleep and the closes
\* the pass before waited for.
Period == ReaperTick + CloseMax

\* An abandoned session is reaped within one period of its TTL, and a closed one
\* leaves the registry within one period of its retention: neither a close that
\* drags on nor a session.close under way makes the reaper lose one.
ReapedInTime ==
    \A s \in Sessions :
        /\ registry[s].st = "live" /\ registry[s].attached = 0
             => now <= registry[s].base + Ttl + Period
        /\ registry[s].st = "closed" => now <= registry[s].closedAt + Retention + Period

\* The credential of an attached session may lapse, because the reaper writes
\* the deadlines of its snapshot over it, but it is never dropped, and the
\* reaper's next pass revives it: it is never lapsed for more than a period.
LapseIsShort ==
    \A s \in Sessions :
        registry[s].st = "live" /\ registry[s].attached > 0
          => cred[s].gen > 0 /\ now <= cred[s].expires + Period

\* A credential whose session has left the registry is dropped within a period of
\* its own expiry or, where the retention of a closed session outlasts the TTL, of
\* the session's removal, even one that issue_resume stored after the close had
\* forgotten it (Ttl before its expiry, just after the close).
NoStrayCredential ==
    \A s \in Sessions :
        registry[s].st = "gone" /\ cred[s].gen > 0 =>
            \/ now <= cred[s].expires + Period
            \/ now + Ttl <= cred[s].expires + Retention + 2 * Period
=============================================================================
