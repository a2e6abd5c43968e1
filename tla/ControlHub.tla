----------------------------- MODULE ControlHub -----------------------------
(***************************************************************************)
(* The control hub of one registered reverse connection                    *)
(* (reverse/listen/hub.rs) with the request multiplexer it owns            *)
(* (localctl/mux.rs), the conduit tasks of the local daemon                *)
(* (localctl/daemon.rs, serve_control) and the TCP_ACCEPTED claims of its  *)
(* LOCAL_STREAM tasks (serve_tcp_accepted).                                *)
(*                                                                         *)
(* One hub serves many CLI processes over one QUIC connection.  A conduit  *)
(* is one attached CLI; its task ends with unregister_conduit on every     *)
(* path, but the hub may also unregister it behind its back: when its      *)
(* inbox is full, or when the connection dies.  One step here is one       *)
(* section under the hub's lock; what the code does after it drops the     *)
(* lock is a step of its own.                                              *)
(*                                                                         *)
(* The target at the other end of the connection is a peer: it answers any *)
(* request it was sent, in any order, with any body.                       *)
(***************************************************************************)
EXTENDS Naturals, Sequences, FiniteSets

CONSTANTS Conduits,        \* ConduitIds; one is never reissued
          Sessions,        \* session ids events and subscriptions name
          Forwards,        \* forward_ids the target may answer with
          Claims,          \* LOCAL_STREAM tasks that claim a TCP_ACCEPTED
          InboxCapacity,   \* CONDUIT_INBOX_CAPACITY
          MaxInflight,     \* MAX_INFLIGHT_PER_CONDUIT
          MaxLongPoll,     \* MAX_INFLIGHT_LONG_POLL_PER_HUB
          MaxTunnels,      \* MAX_TUNNEL_STREAMS_PER_HUB
          MaxParked,       \* MAX_PARKED_CLAIMS_PER_HUB
          MaxPerConduit,   \* MAX_PARKED_CLAIMS_PER_CONDUIT
          MaxRequests,     \* bound on the request ids a run mints
          None             \* no owner, no token

ASSUME HubAssumption ==
    /\ {InboxCapacity, MaxInflight, MaxLongPoll, MaxTunnels, MaxParked,
        MaxPerConduit} \subseteq Nat \ {0}
    /\ MaxRequests \in Nat
    /\ None \notin Conduits

VARIABLES
    task,        \* serve_control of each conduit: new, up, gone
    present,     \* mux.per_conduit's keys
    nextId,      \* mux.next_daemon_request_id
    inflight,    \* mux.inflight: {[id, conduit]}
    subs,        \* mux.subscriptions: pairs of conduit and session
    inboxes,     \* HubState.inboxes: the conduits with a sender
    inbox,       \* what each conduit's channel holds
    longPoll,    \* HubState.long_poll_ids
    pending,     \* pending_attach_subscriptions, pending_rfwd_opens and
                 \* pending_rfwd_closes: {[id, kind, arg]}
    forwards,    \* HubState.forwards: {[fwd, owner, token]}
    queue,       \* HubState.tunnel_queue: arrivals waiting, per forward
    dead,        \* HubState.dead
    sweep,       \* the conduits mark_dead has snapshotted and not yet told
    driving,     \* the drive loop still holds the outbound receiver
    doomed,      \* conduits the drive loop is about to unregister
    wire,        \* requests sent to the target and not answered
    claim,       \* the state of each claim
    pool         \* ClaimPool: permits held, in all and per owner

conduitVars == <<task, present, inboxes, inbox>>
muxVars == <<nextId, inflight, subs, longPoll, pending, wire>>
forwardVars == <<forwards, queue>>
driveVars == <<dead, sweep, driving, doomed>>
claimVars == <<claim, pool>>
vars == <<conduitVars, muxVars, forwardVars, driveVars, claimVars>>

\* map_outbound mints ids from 1 on.
BareId == 0

Idle == [st |-> "idle", fwd |-> None, token |-> None, bucket |-> None,
         notified |-> FALSE, got |-> None]

Init ==
    /\ task = [c \in Conduits |-> "new"]
    /\ present = {}
    /\ nextId = 1
    /\ inflight = {}
    /\ subs = {}
    /\ inboxes = {}
    /\ inbox = [c \in Conduits |-> <<>>]
    /\ longPoll = {}
    /\ pending = {}
    /\ forwards = {}
    /\ queue = [f \in Forwards |-> <<>>]
    /\ dead = FALSE
    /\ sweep = {}
    /\ driving = TRUE
    /\ doomed = {}
    /\ wire = {}
    /\ claim = [k \in Claims |-> Idle]
    /\ pool = [total |-> 0, perOwner |-> [o \in Conduits \cup {None} |-> 0]]

-----------------------------------------------------------------------------
(* Lookups.                                                                *)

Registered(f) == {r \in forwards : r.fwd = f}

IsForwardOwner(f, c) == \E r \in Registered(f) : r.owner = c

\* A seat without a token admits nobody; the presented token must match.
AdmitsClaim(f, token) == \E r \in Registered(f) : r.token = token /\ token # None

IsClaimable(f) == \E r \in Registered(f) : r.token # None

InFlightOf(c) == {r \in inflight : r.conduit = c}

\* tunnel_permits in use: one per queued arrival and per claimed stream.
TunnelsHeld ==
    Cardinality({k \in Claims : claim[k].st = "granted"})
    + Cardinality({fi \in Forwards \X (1..MaxTunnels) : fi[2] <= Len(queue[fi[1]])})

\* tunnel_notify.notify_waiters: every claim that has enabled its waiter.
NotifyWaiters ==
    [k \in Claims |-> IF claim[k].st \in {"enabled", "parked"}
                      THEN [claim[k] EXCEPT !.notified = TRUE]
                      ELSE claim[k]]

\* inbox.try_send: refused when the channel is full.
CanSend(c) == c \in inboxes /\ Len(inbox[c]) < InboxCapacity

-----------------------------------------------------------------------------
(* Conduits.                                                               *)

\* Mutant: the dead flag is not looked at.
RegisterUnawares(c) ==
    /\ task[c] = "new"
    /\ task' = [task EXCEPT ![c] = "up"]
    /\ present' = present \cup {c}
    /\ inboxes' = inboxes \cup {c}
    /\ inbox' = [inbox EXCEPT ![c] = <<>>]
    /\ UNCHANGED <<muxVars, forwardVars, driveVars, claimVars>>

\* register_conduit: a conduit that finds the hub dead is told at once.
RegisterConduit(c) ==
    /\ task[c] = "new"
    /\ task' = [task EXCEPT ![c] = "up"]
    /\ present' = present \cup {c}
    /\ inboxes' = inboxes \cup {c}
    /\ inbox' = [inbox EXCEPT ![c] = IF dead THEN <<"dead">> ELSE <<>>]
    /\ UNCHANGED <<muxVars, forwardVars, driveVars, claimVars>>

\* The registry's half of unregister_conduit.
DropForwardsOf(c) ==
    LET orphans == {r.fwd : r \in {x \in forwards : x.owner = c}}
    IN /\ forwards' = {r \in forwards : r.owner # c}
       /\ queue' = [f \in Forwards |-> IF f \in orphans THEN <<>> ELSE queue[f]]

\* Mutant: the mux forgets the conduit but not its in-flight requests.
UnregisterKeepsInflight(c) ==
    /\ present' = present \ {c}
    /\ inboxes' = inboxes \ {c}
    /\ subs' = {s \in subs : s[1] # c}
    /\ DropForwardsOf(c)
    /\ claim' = NotifyWaiters
    /\ UNCHANGED <<inflight, pending, nextId, longPoll, wire, pool>>

\* Mutant: the long polls of a conduit that leaves stop counting although the
\* target still holds them.
UnregisterFreesPolls(c) ==
    LET gone == {r.id : r \in InFlightOf(c)}
    IN /\ present' = present \ {c}
       /\ inboxes' = inboxes \ {c}
       /\ inflight' = inflight \ InFlightOf(c)
       /\ subs' = {s \in subs : s[1] # c}
       /\ pending' = {p \in pending : ~(p.kind = "attach" /\ p.id \in gone)}
       /\ DropForwardsOf(c)
       /\ longPoll' = longPoll \ gone
       /\ claim' = NotifyWaiters
       /\ UNCHANGED <<nextId, wire, pool>>

\* Mutant: the subscriptions of a conduit outlive it.
UnregisterKeepsSubs(c) ==
    LET gone == {r.id : r \in InFlightOf(c)}
    IN /\ present' = present \ {c}
       /\ inboxes' = inboxes \ {c}
       /\ inflight' = inflight \ InFlightOf(c)
       /\ pending' = {p \in pending : ~(p.kind = "attach" /\ p.id \in gone)}
       /\ DropForwardsOf(c)
       /\ claim' = NotifyWaiters
       /\ UNCHANGED <<subs, nextId, longPoll, wire, pool>>

\* unregister_conduit: forget the conduit's requests, subscriptions and
\* inbox, remove the forwards it owns with their queued arrivals, and wake
\* the parked claims.  Long polls keep counting until they are answered.
Unregister(c) ==
    LET gone == {r.id : r \in InFlightOf(c)}
    IN /\ present' = present \ {c}
       /\ inboxes' = inboxes \ {c}
       /\ inflight' = inflight \ InFlightOf(c)
       /\ subs' = {s \in subs : s[1] # c}
       /\ pending' = {p \in pending : ~(p.kind = "attach" /\ p.id \in gone)}
       /\ DropForwardsOf(c)
       /\ claim' = NotifyWaiters
       /\ UNCHANGED <<nextId, longPoll, wire, pool>>

\* The end of serve_control: the CLI's end of file or a failed write, HostDead
\* or a closed inbox, or a request refused with HostDead.
EndConduit(c) ==
    /\ task[c] = "up"
    /\ task' = [task EXCEPT ![c] = "gone"]
    /\ inbox' = [inbox EXCEPT ![c] = <<>>]
    /\ Unregister(c)
    /\ UNCHANGED driveVars

\* The inbox arm of serve_control: an answer or an event goes to the CLI.
ReceiveInbound(c) ==
    /\ task[c] = "up"
    /\ inbox[c] # <<>> /\ Head(inbox[c]) = "msg"
    /\ inbox' = [inbox EXCEPT ![c] = Tail(@)]
    /\ UNCHANGED <<task, present, inboxes, muxVars, forwardVars, driveVars, claimVars>>

\* What is remembered of a request until its answer.
PendingOf(id, kind, arg) ==
    IF kind \in {"attach", "rfwdOpen", "rfwdClose"}
    THEN {[id |-> id, kind |-> kind, arg |-> arg]} ELSE {}

\* send_request: the limits, the owner check of a close, a fresh daemon id.
\* map_outbound enters the conduit again when it was unregistered behind its
\* back.  Once the drive loop is gone the request fails and the task ends.
SendRequest(c, kind, arg) ==
    /\ task[c] = "up" /\ driving
    /\ nextId <= MaxRequests
    /\ kind = "poll" => Cardinality(longPoll) < MaxLongPoll
    /\ kind = "rfwdClose" => (Registered(arg) = {} \/ IsForwardOwner(arg, c))
    /\ Cardinality(InFlightOf(c)) < MaxInflight
    /\ nextId' = nextId + 1
    /\ present' = present \cup {c}
    /\ inflight' = inflight \cup {[id |-> nextId, conduit |-> c]}
    /\ longPoll' = IF kind = "poll" THEN longPoll \cup {nextId} ELSE longPoll
    /\ pending' = pending \cup PendingOf(nextId, kind, arg)
    /\ wire' = wire \cup {[id |-> nextId, kind |-> kind]}
    /\ UNCHANGED <<task, subs, inboxes, inbox, forwardVars, driveVars, claimVars>>

\* The requests a CLI sends: a long poll, an attach, opening a forward with
\* the claim token of its acceptor or with none, closing a forward.
Request(c) ==
    \/ SendRequest(c, "poll", None)
    \/ \E s \in Sessions : SendRequest(c, "attach", s)
    \/ \E token \in {c, None} : SendRequest(c, "rfwdOpen", token)
    \/ \E f \in Forwards : SendRequest(c, "rfwdClose", f)

-----------------------------------------------------------------------------
(* The drive loop of the connection.                                       *)

\* The bodies a response may carry.  A session may be opened or attached, a
\* forward may be reported open whatever was asked for.
Answers(kind) ==
    {[body |-> "ok", arg |-> None]}
    \cup {[body |-> "rfwdOpened", arg |-> f] : f \in Forwards}
    \cup (IF kind = "attach"
          THEN {[body |-> "attached", arg |-> None]}
               \cup {[body |-> "sessionOpened", arg |-> s] : s \in Sessions}
          ELSE {[body |-> "error", arg |-> None]})

PendingFor(id, kind) == {p.arg : p \in {q \in pending : q.id = id /\ q.kind = kind}}

\* The sessions an answer subscribes its conduit to.
SubscribeTo(id, ans) ==
    CASE ans.body = "sessionOpened" -> {ans.arg}
      [] ans.body = "attached"      -> PendingFor(id, "attach")
      [] OTHER                      -> {}

\* The forward an answer registers: only for a RemoteForwardOpen, and never
\* over a registration.
NewForwards(c, id, ans) ==
    IF ans.body = "rfwdOpened" /\ Registered(ans.arg) = {}
    THEN {[fwd |-> ans.arg, owner |-> c, token |-> t] : t \in PendingFor(id, "rfwdOpen")}
    ELSE {}

\* The forwards an answer closes: the one its request named, if the conduit
\* that asked owns it.
ClosedForwards(c, id, ans) ==
    IF ans.body = "ok" THEN {f \in PendingFor(id, "rfwdClose") : IsForwardOwner(f, c)} ELSE {}

\* deliver_response: the answer is forwarded to the conduit whose request it
\* answers, or dropped when that conduit has been unregistered.
DeliverResponse(id, ans) ==
    LET asked == {r.conduit : r \in {x \in inflight : x.id = id}}
    IN /\ driving /\ doomed = {}
       /\ \E w \in wire : w.id = id
       /\ wire' = {w \in wire : w.id # id}
       /\ longPoll' = longPoll \ {id}
       /\ pending' = {p \in pending : p.id # id}
       /\ inflight' = {r \in inflight : r.id # id}
       /\ subs' = subs \cup {<<c, s>> : c \in asked, s \in SubscribeTo(id, ans)}
       /\ forwards' = {r \in forwards : \A c \in asked : r.fwd \notin ClosedForwards(c, id, ans)}
                      \cup UNION {NewForwards(c, id, ans) : c \in asked}
       /\ queue' = [f \in Forwards |->
                       IF \E c \in asked : f \in ClosedForwards(c, id, ans)
                       THEN <<>> ELSE queue[f]]
       /\ inbox' = [c \in Conduits |-> IF c \in asked /\ CanSend(c)
                                       THEN Append(inbox[c], "msg") ELSE inbox[c]]
       /\ doomed' = {c \in asked : c \in inboxes /\ ~CanSend(c)}
       /\ UNCHANGED <<task, present, inboxes, nextId, dead, sweep, driving, claimVars>>

\* deliver_event: WriterChanged goes to every conduit, any other event to the
\* subscribers of its session.
DeliverEvent(targets) ==
    /\ driving /\ doomed = {}
    /\ targets # {}
    /\ inbox' = [c \in Conduits |-> IF c \in targets /\ CanSend(c)
                                    THEN Append(inbox[c], "msg") ELSE inbox[c]]
    /\ doomed' = {c \in targets : ~CanSend(c)}
    /\ UNCHANGED <<task, present, inboxes, muxVars, forwardVars, dead, sweep, driving, claimVars>>

RouteEvent ==
    \/ DeliverEvent(present)
    \/ \E s \in Sessions : DeliverEvent({c \in Conduits : <<c, s>> \in subs})

\* After the lock is dropped: the conduits that could not take a message.
UnregisterDoomed(c) ==
    /\ c \in doomed
    /\ doomed' = doomed \ {c}
    /\ Unregister(c)
    /\ UNCHANGED <<task, inbox, dead, sweep, driving>>

\* mark_dead, its first locked section.  The caller is the drive loop as it
\* ends, or the registration that replaces this one.
MarkDead ==
    /\ ~dead
    /\ dead' = TRUE
    /\ sweep' = present
    /\ UNCHANGED <<conduitVars, muxVars, forwardVars, driving, doomed, claimVars>>

\* mark_dead's loop: HostDead, then unregister_conduit, one conduit at a time.
SweepDead(c) ==
    /\ c \in sweep
    /\ sweep' = sweep \ {c}
    /\ inbox' = [inbox EXCEPT ![c] = IF CanSend(c) THEN Append(@, "dead") ELSE @]
    /\ Unregister(c)
    /\ UNCHANGED <<task, dead, driving, doomed>>

\* The drive loop returns and drops the outbound receiver.
DriveEnds ==
    /\ dead /\ driving
    /\ doomed = {}
    /\ driving' = FALSE
    /\ wire' = {}
    /\ UNCHANGED <<conduitVars, nextId, inflight, subs, longPoll, pending, forwardVars,
                   dead, sweep, doomed, claimVars>>

\* admin_close_forward: any forward, whoever owns it; the close is relayed
\* under an id no conduit asked with (next_bare_request_id; BareId stands for
\* all of them).
AdminCloseForward(f) ==
    /\ Registered(f) # {}
    /\ forwards' = {r \in forwards : r.fwd # f}
    /\ queue' = [queue EXCEPT ![f] = <<>>]
    /\ wire' = IF driving THEN wire \cup {[id |-> BareId, kind |-> "rfwdClose"]} ELSE wire
    /\ claim' = NotifyWaiters
    /\ UNCHANGED <<conduitVars, nextId, inflight, subs, longPoll, pending, driveVars, pool>>

-----------------------------------------------------------------------------
(* TCP_ACCEPTED arrivals and the claims that take them.                    *)

\* Mutant: the arrival is queued and nobody is rung.
DeliverQuietly(f) ==
    /\ driving
    /\ TunnelsHeld < MaxTunnels
    /\ IsClaimable(f)
    /\ queue' = [queue EXCEPT ![f] = Append(@, CHOOSE o \in Conduits : IsForwardOwner(f, o))]
    /\ UNCHANGED <<conduitVars, muxVars, forwards, driveVars, claimVars>>

\* handle_tcp_accepted_stream and deliver_tcp_accepted: an arrival beyond the
\* hub's permits, or for a forward nobody can claim, is reset.  An arrival
\* remembers whose it was when it was queued.
DeliverTcpAccepted(f) ==
    /\ driving
    /\ TunnelsHeld < MaxTunnels
    /\ IsClaimable(f)
    /\ queue' = [queue EXCEPT ![f] = Append(@, CHOOSE o \in Conduits : IsForwardOwner(f, o))]
    /\ claim' = NotifyWaiters
    /\ UNCHANGED <<conduitVars, muxVars, forwards, driveVars, pool>>

\* sweep_expired_arrivals: from the front of each queue, what has waited too
\* long (any number: time is not modelled).
SweepExpiredArrivals(keep) ==
    /\ driving
    /\ \A f \in Forwards : keep[f] <= Len(queue[f])
    /\ \E f \in Forwards : keep[f] < Len(queue[f])
    /\ queue' = [f \in Forwards |-> SubSeq(queue[f], Len(queue[f]) - keep[f] + 1, Len(queue[f]))]
    /\ UNCHANGED <<conduitVars, muxVars, forwards, driveVars, claimVars>>

SetClaim(k, c) == claim' = [claim EXCEPT ![k] = c]

\* try_acquire_claim_permit, its first lock: the owner whose share pays.
StartClaim(k, f, token) ==
    /\ claim[k].st = "idle"
    /\ \E owner \in Conduits \cup {None} :
          /\ IF Registered(f) = {} THEN owner = None ELSE IsForwardOwner(f, owner)
          /\ SetClaim(k, [Idle EXCEPT !.st = "lookup", !.fwd = f, !.token = token,
                                      !.bucket = owner])
    /\ UNCHANGED <<conduitVars, muxVars, forwardVars, driveVars, pool>>

\* ClaimPool::release.
Release(owner) ==
    pool' = [total |-> pool.total - 1, perOwner |-> [pool.perOwner EXCEPT ![owner] = @ - 1]]

\* ClaimPool::try_acquire: within the hub's pool and the owner's share.
AcquireClaim(k) ==
    /\ claim[k].st = "lookup"
    /\ IF pool.total < MaxParked /\ pool.perOwner[claim[k].bucket] < MaxPerConduit
       THEN /\ pool' = [total |-> pool.total + 1,
                        perOwner |-> [pool.perOwner EXCEPT ![claim[k].bucket] = @ + 1]]
            /\ SetClaim(k, [claim[k] EXCEPT !.st = "enabled"])
       ELSE /\ SetClaim(k, Idle)
            /\ pool' = pool
    /\ UNCHANGED <<conduitVars, muxVars, forwardVars, driveVars>>

\* Mutant: the seat is checked before the claim parks, not after it wakes: an
\* arrival at the front is taken whoever it is for.
CheckQueueFirst(k) ==
    LET f == claim[k].fwd IN
    /\ claim[k].st = "enabled"
    /\ \/ /\ queue[f] = <<>> /\ ~AdmitsClaim(f, claim[k].token)
          /\ SetClaim(k, Idle)
          /\ Release(claim[k].bucket)
          /\ queue' = queue
       \/ /\ queue[f] # <<>>
          /\ SetClaim(k, [claim[k] EXCEPT !.st = "granted", !.got = Head(queue[f])])
          /\ Release(claim[k].bucket)
          /\ queue' = [queue EXCEPT ![f] = Tail(@)]
       \/ /\ queue[f] = <<>> /\ AdmitsClaim(f, claim[k].token)
          /\ SetClaim(k, [claim[k] EXCEPT !.st = "parked"])
          /\ UNCHANGED <<queue, pool>>
    /\ UNCHANGED <<conduitVars, muxVars, forwards, driveVars>>

\* One turn of claim_tcp_accepted's loop: under one lock, validate the token
\* against the seat of now, then take the arrival at the front, else park.
CheckClaim(k) ==
    LET f == claim[k].fwd IN
    /\ claim[k].st = "enabled"
    /\ \/ /\ ~AdmitsClaim(f, claim[k].token)
          /\ SetClaim(k, Idle)
          /\ Release(claim[k].bucket)
          /\ queue' = queue
       \/ /\ AdmitsClaim(f, claim[k].token)
          /\ queue[f] # <<>>
          /\ SetClaim(k, [claim[k] EXCEPT !.st = "granted", !.got = Head(queue[f])])
          /\ Release(claim[k].bucket)
          /\ queue' = [queue EXCEPT ![f] = Tail(@)]
       \/ /\ AdmitsClaim(f, claim[k].token)
          /\ queue[f] = <<>>
          /\ SetClaim(k, [claim[k] EXCEPT !.st = "parked"])
          /\ UNCHANGED <<queue, pool>>
    /\ UNCHANGED <<conduitVars, muxVars, forwards, driveVars>>

\* A notified waiter loops: it enables a new waiter before it looks again.
WakeClaim(k) ==
    /\ claim[k].st = "parked" /\ claim[k].notified
    /\ SetClaim(k, [claim[k] EXCEPT !.st = "enabled", !.notified = FALSE])
    /\ UNCHANGED <<conduitVars, muxVars, forwardVars, driveVars, pool>>

\* Mutant: the permit of a claim that gives up is given back to the owner of
\* now, not to the share it was taken from.
TimeoutReleasesOwner(k) ==
    /\ claim[k].st = "parked"
    /\ SetClaim(k, Idle)
    /\ \E o \in Conduits \cup {None} :
          /\ IF Registered(claim[k].fwd) = {} THEN o = None ELSE IsForwardOwner(claim[k].fwd, o)
          /\ pool' = [total |-> pool.total - 1,
                      perOwner |-> [pool.perOwner EXCEPT ![o] = IF @ = 0 THEN 0 ELSE @ - 1]]
    /\ UNCHANGED <<conduitVars, muxVars, forwardVars, driveVars>>

\* The wait budget of the claim is spent, or its CLI is gone.
TimeoutClaim(k) ==
    /\ claim[k].st = "parked"
    /\ SetClaim(k, Idle)
    /\ Release(claim[k].bucket)
    /\ UNCHANGED <<conduitVars, muxVars, forwardVars, driveVars>>

\* The splice of a claimed stream ends.
EndSplice(k) ==
    /\ claim[k].st = "granted"
    /\ SetClaim(k, Idle)
    /\ UNCHANGED <<conduitVars, muxVars, forwardVars, driveVars, pool>>

-----------------------------------------------------------------------------
ConduitStep(c) ==
    \/ RegisterConduit(c)
    \/ EndConduit(c)
    \/ ReceiveInbound(c)
    \/ Request(c)

DriveStep ==
    \/ \E w \in wire : \E ans \in Answers(w.kind) : DeliverResponse(w.id, ans)
    \/ RouteEvent
    \/ \E c \in Conduits : UnregisterDoomed(c)
    \/ MarkDead
    \/ \E c \in Conduits : SweepDead(c)
    \/ DriveEnds
    \/ \E f \in Forwards : AdminCloseForward(f)

TunnelStep ==
    \/ \E f \in Forwards : DeliverTcpAccepted(f)
    \/ \E keep \in [Forwards -> 0..MaxTunnels] : SweepExpiredArrivals(keep)

ClaimStep(k) ==
    \/ \E f \in Forwards, token \in Conduits : StartClaim(k, f, token)
    \/ AcquireClaim(k)
    \/ CheckClaim(k)
    \/ WakeClaim(k)
    \/ TimeoutClaim(k)
    \/ EndSplice(k)

Next ==
    \/ \E c \in Conduits : ConduitStep(c)
    \/ DriveStep
    \/ TunnelStep
    \/ \E k \in Claims : ClaimStep(k)

Spec == Init /\ [][Next]_vars

-----------------------------------------------------------------------------
(* Properties.                                                             *)

\* No registry entry outlives the conduit that owns it (unregister_conduit's
\* contract), however a late RemoteForwardOpened, an overflowing inbox, a
\* request sent after the hub unregistered the conduit and the hub's death
\* interleave; a forward_id has one registration, and arrivals wait only for a
\* registration somebody can claim.
ForwardsHaveOwners ==
    /\ \A r \in forwards : task[r.owner] = "up"
    /\ \A r1, r2 \in forwards : r1.fwd = r2.fwd => r1 = r2
    /\ \A f \in Forwards : queue[f] # <<>> => IsClaimable(f)

\* A claimed stream was accepted for the CLI whose token claimed it, even when
\* its forward_id was closed and registered again by another conduit while the
\* claim was parked (claim_tcp_accepted checks the seat on every wake).
NoMisdelivery ==
    \A k \in Claims : claim[k].st = "granted" => claim[k].got = claim[k].token

\* No lost wake-up: a parked claim that nobody has notified has nothing to
\* take.  claim_tcp_accepted enables its waiter before it looks.
NoLostWakeup ==
    \A k \in Claims :
        (claim[k].st = "parked" /\ ~claim[k].notified /\ AdmitsClaim(claim[k].fwd, claim[k].token))
            => queue[claim[k].fwd] = <<>>

\* What MAX_INFLIGHT_LONG_POLL_PER_HUB is for: the target never holds more
\* long polls of this connection than the budget, though the conduits that
\* asked for them come and go.
LongPollBudget == Cardinality({w \in wire : w.kind = "poll"}) <= MaxLongPoll

\* The claim pool counts the permits alive, in all and in the share each was
\* taken from, though the owner may leave or change while a claim is parked;
\* and the shares are respected.
ClaimPoolExact ==
    LET holders(o) == {k \in Claims : claim[k].st \in {"enabled", "parked"} /\ claim[k].bucket = o}
    IN /\ \A o \in Conduits \cup {None} :
              pool.perOwner[o] = Cardinality(holders(o)) /\ pool.perOwner[o] <= MaxPerConduit
       /\ pool.total = Cardinality({k \in Claims : claim[k].st \in {"enabled", "parked"}})

\* Once the hub is dead and mark_dead has returned, every conduit still
\* running will hear of it: HostDead is in its inbox, or its inbox is closed.
\* A conduit that registers while or after mark_dead runs is no exception.
DeadIsHeard ==
    (dead /\ sweep = {}) =>
        \A c \in Conduits : task[c] = "up" =>
            (c \notin inboxes \/ \E i \in 1..Len(inbox[c]) : inbox[c][i] = "dead")

\* The books of the multiplexer agree: an in-flight request, a subscription
\* and an inbox belong to a conduit it lists, and its task still runs.
MuxBooksAgree ==
    /\ \A r \in inflight : r.conduit \in present
    /\ \A s \in subs : s[1] \in present
    /\ inboxes \subseteq present
    /\ \A c \in present : task[c] = "up"
=============================================================================
