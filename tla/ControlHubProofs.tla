-------------------------- MODULE ControlHubProofs --------------------------
(***************************************************************************)
(* Proofs about ControlHub, for any conduits, sessions, forwards, claims   *)
(* and limits: the registry of forwards and the multiplexer's books agree  *)
(* with the conduits that run, no claim gets a stream of another CLI or    *)
(* sleeps over one, the budgets are exact, and the death of the hub is     *)
(* heard by every conduit.                                                 *)
(***************************************************************************)
EXTENDS ControlHub, FiniteSetTheorems, TLAPS

Owners == Conduits \cup {None}
Kinds == {"poll", "attach", "rfwdOpen", "rfwdClose"}

PendingRec ==
    [id : Nat, kind : {"attach"}, arg : Sessions]
    \cup [id : Nat, kind : {"rfwdOpen"}, arg : Owners]
    \cup [id : Nat, kind : {"rfwdClose"}, arg : Forwards]

ForwardRec == [fwd : Forwards, owner : Conduits, token : Owners]

ClaimStates == {"idle", "lookup", "enabled", "parked", "granted"}

ClaimRec == [st : ClaimStates, fwd : Forwards \cup {None}, token : Owners, bucket : Owners,
             notified : BOOLEAN, got : Owners]

ConduitTypes ==
    /\ task \in [Conduits -> {"new", "up", "gone"}]
    /\ present \in SUBSET Conduits /\ inboxes \in SUBSET Conduits
    /\ inbox \in [Conduits -> Seq({"msg", "dead"})]

MuxTypes ==
    /\ nextId \in Nat \ {0}
    /\ inflight \in SUBSET [id : Nat, conduit : Conduits]
    /\ subs \in SUBSET (Conduits \X Sessions)
    /\ longPoll \in SUBSET Nat
    /\ pending \in SUBSET PendingRec
    /\ wire \in SUBSET [id : Nat, kind : Kinds]

ForwardTypes ==
    /\ forwards \in SUBSET ForwardRec
    /\ queue \in [Forwards -> Seq(Conduits)]

DriveTypes ==
    /\ dead \in BOOLEAN /\ driving \in BOOLEAN
    /\ sweep \in SUBSET Conduits /\ doomed \in SUBSET Conduits

ClaimTypes ==
    /\ claim \in [Claims -> ClaimRec]
    /\ \A k \in Claims : claim[k].st # "idle" => claim[k].fwd \in Forwards
    /\ pool \in [total : Int, perOwner : [Owners -> Int]]

TypeOK == ConduitTypes /\ MuxTypes /\ ForwardTypes /\ DriveTypes /\ ClaimTypes

\* Daemon request ids are minted in order: what is in flight or remembered under
\* one belongs to one request.  An open that asks for a claimable seat names the
\* conduit that asked.
Ids ==
    /\ \A r \in inflight : r.id < nextId
    /\ \A p \in pending : p.id < nextId
    /\ \A i \in longPoll : i < nextId
    /\ \A r1, r2 \in inflight : r1.id = r2.id => r1 = r2
    /\ \A p1, p2 \in pending : p1.id = p2.id => p1 = p2
    /\ \A r \in inflight, p \in pending :
           r.id = p.id /\ p.kind = "rfwdOpen" => p.arg \in {r.conduit, None}

\* A seat is its owner's or nobody's, and what waits for it waits for its owner.
Seats ==
    /\ \A r \in forwards : r.token \in {r.owner, None}
    /\ \A f \in Forwards : \A i \in 1..Len(queue[f]) : \A r \in forwards :
           r.fwd = f => queue[f][i] = r.owner

\* A long poll at the target is one the hub still counts.
Polls ==
    /\ IsFiniteSet(longPoll) /\ Cardinality(longPoll) <= MaxLongPoll
    /\ \A w \in wire : w.kind = "poll" => w.id \in longPoll

\* The claims that hold a permit.
Holders == {k \in Claims : claim[k].st \in {"enabled", "parked"}}
HoldersOf(o) == {k \in Holders : claim[k].bucket = o}

Permits ==
    /\ IsFiniteSet(Holders) /\ pool.total = Cardinality(Holders)
    /\ \A o \in Owners :
           pool.perOwner[o] = Cardinality(HoldersOf(o)) /\ pool.perOwner[o] <= MaxPerConduit

\* A conduit of a dead hub is still to be swept, has been told, or has lost its inbox.
Told(c) == \E i \in 1..Len(inbox[c]) : inbox[c][i] = "dead"

Heard == dead => \A c \in inboxes : task[c] = "up" => c \in sweep \/ Told(c)

HubInv ==
    /\ TypeOK /\ Ids /\ MuxBooksAgree
    /\ ForwardsHaveOwners /\ Seats
    /\ NoMisdelivery /\ NoLostWakeup
    /\ Polls /\ Permits /\ Heard

-----------------------------------------------------------------------------
(* Constants and records *)

LEMMA Limits ==
    /\ InboxCapacity \in Nat /\ InboxCapacity > 0
    /\ MaxLongPoll \in Nat /\ MaxPerConduit \in Nat /\ MaxTunnels \in Nat
    /\ None \notin Conduits
BY HubAssumption

\* The updates of a claim that the actions make.
LEMMA IdleClaim == Idle \in ClaimRec /\ Idle.st = "idle"
BY DEF Idle, ClaimRec, ClaimStates, Owners

LEMMA RungClaim ==
    ASSUME NEW r \in ClaimRec, NEW q, q = [r EXCEPT !.notified = TRUE]
    PROVE  /\ q \in ClaimRec
           /\ q.st = r.st /\ q.fwd = r.fwd /\ q.token = r.token
           /\ q.bucket = r.bucket /\ q.got = r.got
           /\ q.notified
BY DEF ClaimRec

LEMMA MovedClaim ==
    ASSUME NEW r \in ClaimRec, NEW s \in ClaimStates, NEW q, q = [r EXCEPT !.st = s]
    PROVE  /\ q \in ClaimRec
           /\ q.st = s /\ q.fwd = r.fwd /\ q.token = r.token
           /\ q.bucket = r.bucket /\ q.got = r.got /\ q.notified = r.notified
BY DEF ClaimRec

LEMMA WokenClaim ==
    ASSUME NEW r \in ClaimRec, NEW q, q = [r EXCEPT !.st = "enabled", !.notified = FALSE]
    PROVE  /\ q \in ClaimRec
           /\ q.st = "enabled" /\ q.fwd = r.fwd /\ q.token = r.token
           /\ q.bucket = r.bucket /\ q.got = r.got
BY DEF ClaimRec, ClaimStates

\* tunnel_notify: every waiter is rung, and nothing else changes.
LEMMA NotifyEffect ==
    ASSUME claim \in [Claims -> ClaimRec]
    PROVE  /\ NotifyWaiters \in [Claims -> ClaimRec]
           /\ \A k \in Claims :
                 /\ NotifyWaiters[k].st = claim[k].st
                 /\ NotifyWaiters[k].fwd = claim[k].fwd
                 /\ NotifyWaiters[k].token = claim[k].token
                 /\ NotifyWaiters[k].bucket = claim[k].bucket
                 /\ NotifyWaiters[k].got = claim[k].got
                 /\ claim[k].st = "parked" => NotifyWaiters[k].notified
<1>1. ASSUME NEW k \in Claims
      PROVE  /\ NotifyWaiters[k] \in ClaimRec
             /\ NotifyWaiters[k].st = claim[k].st
             /\ NotifyWaiters[k].fwd = claim[k].fwd
             /\ NotifyWaiters[k].token = claim[k].token
             /\ NotifyWaiters[k].bucket = claim[k].bucket
             /\ NotifyWaiters[k].got = claim[k].got
             /\ claim[k].st = "parked" => NotifyWaiters[k].notified
    <2>1. claim[k] \in ClaimRec
        OBVIOUS
    <2>2. CASE claim[k].st \in {"enabled", "parked"}
        <3>1. NotifyWaiters[k] = [claim[k] EXCEPT !.notified = TRUE]
            BY <2>2 DEF NotifyWaiters
        <3>. QED BY <2>1, <3>1, RungClaim
    <2>3. CASE claim[k].st \notin {"enabled", "parked"}
        <3>1. NotifyWaiters[k] = claim[k]
            BY <2>3 DEF NotifyWaiters
        <3>. QED BY <2>1, <2>3, <3>1
    <2>. QED BY <2>2, <2>3
<1>2. NotifyWaiters \in [Claims -> ClaimRec]
    <2>1. NotifyWaiters = [k \in Claims |-> NotifyWaiters[k]]
        BY DEF NotifyWaiters
    <2>. QED BY <1>1, <2>1
<1>. QED BY <1>1, <1>2

-----------------------------------------------------------------------------
(* The kinds of steps *)

\* A conduit is unregistered: its task ends, or the hub does it behind its back.
Leaves(c) ==
    /\ Unregister(c)
    /\ task' \in {task, [task EXCEPT ![c] = "gone"]}
    /\ inbox' \in [Conduits -> Seq({"msg", "dead"})]
    /\ \A d \in Conduits \ {c} : inbox'[d] = inbox[d]
    /\ sweep' \in {sweep, sweep \ {c}}
    /\ doomed' \in {doomed, doomed \ {c}}
    /\ UNCHANGED <<dead, driving>>

\* A conduit sends a request that is in its rights.
Asks(c, kind, arg) ==
    /\ SendRequest(c, kind, arg)
    /\ PendingOf(nextId, kind, arg) \in SUBSET PendingRec
    /\ kind = "rfwdOpen" => arg \in {c, None}

\* The target answers a request.
Answered(w, ans) == ans \in Answers(w.kind) /\ DeliverResponse(w.id, ans)

LEMMA LeaveSteps ==
    ASSUME ConduitTypes, NEW c \in Conduits,
           EndConduit(c) \/ UnregisterDoomed(c) \/ SweepDead(c)
    PROVE  Leaves(c)
<1>1. \A q \in Seq({"msg", "dead"}) : Append(q, "dead") \in Seq({"msg", "dead"})
    OBVIOUS
<1>2. CASE EndConduit(c)
    <2>1. inbox' \in [Conduits -> Seq({"msg", "dead"})] /\ \A d \in Conduits \ {c} : inbox'[d] = inbox[d]
        BY <1>2 DEF EndConduit, ConduitTypes
    <2>. QED BY <1>2, <2>1 DEF EndConduit, Leaves, driveVars
<1>3. CASE UnregisterDoomed(c)
    BY <1>3 DEF UnregisterDoomed, Leaves, ConduitTypes
<1>4. CASE SweepDead(c)
    <2>1. inbox' \in [Conduits -> Seq({"msg", "dead"})] /\ \A d \in Conduits \ {c} : inbox'[d] = inbox[d]
        BY <1>1, <1>4 DEF SweepDead, ConduitTypes
    <2>. QED BY <1>4, <2>1 DEF SweepDead, Leaves
<1>. QED BY <1>2, <1>3, <1>4

LEMMA RequestKinds ==
    ASSUME MuxTypes, NEW c \in Conduits, Request(c)
    PROVE  \E kind \in Kinds : \E arg : Asks(c, kind, arg)
<1>1. nextId \in Nat
    BY DEF MuxTypes
<1>2. CASE SendRequest(c, "poll", None)
    BY <1>2 DEF Asks, PendingOf, Kinds
<1>3. ASSUME NEW s \in Sessions, SendRequest(c, "attach", s)
      PROVE  Asks(c, "attach", s)
    BY <1>1, <1>3 DEF Asks, PendingOf, PendingRec
<1>4. ASSUME NEW token \in {c, None}, SendRequest(c, "rfwdOpen", token)
      PROVE  Asks(c, "rfwdOpen", token)
    BY <1>1, <1>4 DEF Asks, PendingOf, PendingRec, Owners
<1>5. ASSUME NEW f \in Forwards, SendRequest(c, "rfwdClose", f)
      PROVE  Asks(c, "rfwdClose", f)
    BY <1>1, <1>5 DEF Asks, PendingOf, PendingRec
<1>. QED BY <1>2, <1>3, <1>4, <1>5 DEF Request, Kinds

LEMMA Steps ==
    ASSUME TypeOK, [Next]_vars
    PROVE  \/ \E c \in Conduits : RegisterConduit(c)
           \/ \E c \in Conduits : Leaves(c)
           \/ \E c \in Conduits : ReceiveInbound(c)
           \/ \E c \in Conduits : \E kind \in Kinds : \E arg : Asks(c, kind, arg)
           \/ \E w \in wire : \E ans : Answered(w, ans)
           \/ \E targets \in SUBSET Conduits : DeliverEvent(targets)
           \/ MarkDead
           \/ DriveEnds
           \/ \E f \in Forwards : AdminCloseForward(f)
           \/ \E f \in Forwards : DeliverTcpAccepted(f)
           \/ \E keep \in [Forwards -> 0..MaxTunnels] : SweepExpiredArrivals(keep)
           \/ \E k \in Claims : ClaimStep(k)
           \/ UNCHANGED vars
<1>1. \A c \in Conduits : EndConduit(c) \/ UnregisterDoomed(c) \/ SweepDead(c) => Leaves(c)
    BY LeaveSteps DEF TypeOK
<1>2. \A c \in Conduits : Request(c) => \E kind \in Kinds : \E arg : Asks(c, kind, arg)
    BY RequestKinds DEF TypeOK
<1>3. RouteEvent => \E targets \in SUBSET Conduits : DeliverEvent(targets)
    <2>1. present \in SUBSET Conduits
        BY DEF TypeOK, ConduitTypes
    <2>2. \A s \in Sessions : {c \in Conduits : <<c, s>> \in subs} \in SUBSET Conduits
        OBVIOUS
    <2>. QED BY <2>1, <2>2, Zenon DEF RouteEvent
<1>. HIDE DEF vars
<1>. QED BY <1>1, <1>2, <1>3, Zenon DEF Next, ConduitStep, DriveStep, TunnelStep, Answered

-----------------------------------------------------------------------------
(* Answers *)

\* The conduit that asked, if it is still registered; what its answer registers
\* and closes.
Asked(id) == {r.conduit : r \in {x \in inflight : x.id = id}}
NewSeats(id, ans) == UNION {NewForwards(c, id, ans) : c \in Asked(id)}
ClosedBy(id, ans) == {f \in Forwards : \E c \in Asked(id) : f \in ClosedForwards(c, id, ans)}

LEMMA AskedOne ==
    ASSUME MuxTypes, Ids, NEW id
    PROVE  /\ Asked(id) \in SUBSET Conduits
           /\ \A c \in Asked(id) : [id |-> id, conduit |-> c] \in inflight
           /\ \A c, d \in Asked(id) : c = d
<1>1. ASSUME NEW c \in Asked(id)
      PROVE  c \in Conduits /\ [id |-> id, conduit |-> c] \in inflight
    <2>1. PICK r \in inflight : r.id = id /\ r.conduit = c
        BY DEF Asked
    <2>2. r = [id |-> id, conduit |-> c] /\ c \in Conduits
        BY <2>1 DEF MuxTypes
    <2>. QED BY <2>1, <2>2
<1>2. ASSUME NEW c \in Asked(id), NEW d \in Asked(id)
      PROVE  c = d
    <2>1. PICK q \in inflight : q.id = id /\ q.conduit = c
        BY DEF Asked
    <2>2. PICK r \in inflight : r.id = id /\ r.conduit = d
        BY DEF Asked
    <2>. QED BY <2>1, <2>2 DEF Ids
<1>. QED BY <1>1, <1>2

LEMMA AnswerTypes ==
    ASSUME MuxTypes, NEW kind, NEW id, NEW ans \in Answers(kind)
    PROVE  /\ ans.body = "rfwdOpened" => ans.arg \in Forwards
           /\ SubscribeTo(id, ans) \in SUBSET Sessions
           /\ PendingFor(id, "rfwdOpen") \in SUBSET Owners
           /\ PendingFor(id, "rfwdClose") \in SUBSET Forwards
<1>1. /\ ans.body = "rfwdOpened" => ans.arg \in Forwards
      /\ ans.body = "sessionOpened" => ans.arg \in Sessions
    BY DEF Answers
<1>2. \A p \in pending : /\ p.kind = "attach" => p.arg \in Sessions
                         /\ p.kind = "rfwdOpen" => p.arg \in Owners
                         /\ p.kind = "rfwdClose" => p.arg \in Forwards
    BY DEF MuxTypes, PendingRec
<1>3. /\ PendingFor(id, "attach") \in SUBSET Sessions
      /\ PendingFor(id, "rfwdOpen") \in SUBSET Owners
      /\ PendingFor(id, "rfwdClose") \in SUBSET Forwards
    BY <1>2 DEF PendingFor
<1>4. SubscribeTo(id, ans) \in SUBSET Sessions
    BY <1>1, <1>3 DEF SubscribeTo
<1>. QED BY <1>1, <1>3, <1>4

\* An answer registers at most one seat, of the conduit that asked, for a forward
\* that had none.
LEMMA NewSeat ==
    ASSUME MuxTypes, Ids, NEW kind, NEW id, NEW ans \in Answers(kind)
    PROVE  /\ \A r \in NewSeats(id, ans) :
                 /\ r \in ForwardRec
                 /\ r.owner \in Asked(id)
                 /\ Registered(r.fwd) = {}
                 /\ r.token \in {r.owner, None}
           /\ \A r1, r2 \in NewSeats(id, ans) : r1 = r2
<1>1. ASSUME NEW r \in NewSeats(id, ans)
      PROVE  /\ \E c \in Asked(id) : \E t \in PendingFor(id, "rfwdOpen") :
                     r = [fwd |-> ans.arg, owner |-> c, token |-> t]
             /\ ans.body = "rfwdOpened" /\ Registered(ans.arg) = {}
    BY DEF NewSeats, NewForwards
<1>2. \A t, u \in PendingFor(id, "rfwdOpen") : t = u
    <2>. SUFFICES ASSUME NEW t \in PendingFor(id, "rfwdOpen"), NEW u \in PendingFor(id, "rfwdOpen")
                  PROVE  t = u
        OBVIOUS
    <2>1. PICK p \in pending : p.id = id /\ p.arg = t
        BY DEF PendingFor
    <2>2. PICK q \in pending : q.id = id /\ q.arg = u
        BY DEF PendingFor
    <2>. QED BY <2>1, <2>2 DEF Ids
<1>3. \A c \in Asked(id) : \A t \in PendingFor(id, "rfwdOpen") : t \in {c, None}
    <2>. SUFFICES ASSUME NEW c \in Asked(id), NEW t \in PendingFor(id, "rfwdOpen")
                  PROVE  t \in {c, None}
        OBVIOUS
    <2>1. PICK p \in pending : p.id = id /\ p.kind = "rfwdOpen" /\ p.arg = t
        BY DEF PendingFor
    <2>2. PICK r \in inflight : r.id = id /\ r.conduit = c
        BY DEF Asked
    <2>. QED BY <2>1, <2>2 DEF Ids
<1>4. ASSUME NEW r \in NewSeats(id, ans)
      PROVE  /\ r \in ForwardRec
             /\ r.owner \in Asked(id)
             /\ Registered(r.fwd) = {}
             /\ r.token \in {r.owner, None}
    <2>1. PICK c \in Asked(id), t \in PendingFor(id, "rfwdOpen") :
              r = [fwd |-> ans.arg, owner |-> c, token |-> t]
        BY <1>1
    <2>2. ans.arg \in Forwards /\ c \in Conduits /\ t \in Owners /\ Registered(ans.arg) = {}
        BY <1>1, AnswerTypes, AskedOne
    <2>3. r.owner = c /\ r.fwd = ans.arg /\ r.token = t
        BY <2>1
    <2>. QED BY <1>3, <2>1, <2>2, <2>3 DEF ForwardRec
<1>5. \A r1, r2 \in NewSeats(id, ans) : r1 = r2
    BY <1>1, <1>2, AskedOne
<1>. QED BY <1>4, <1>5

\* deliver_response, with those names.
LEMMA AnswerEffect ==
    ASSUME TypeOK, NEW w \in wire, NEW ans, Answered(w, ans)
    PROVE  /\ ans \in Answers(w.kind) /\ w.id \in Nat
           /\ wire' = {x \in wire : x.id # w.id}
           /\ longPoll' = longPoll \ {w.id}
           /\ pending' = {p \in pending : p.id # w.id}
           /\ inflight' = {r \in inflight : r.id # w.id}
           /\ subs' = subs \cup {<<c, s>> : c \in Asked(w.id), s \in SubscribeTo(w.id, ans)}
           /\ forwards' = {r \in forwards : r.fwd \notin ClosedBy(w.id, ans)}
                          \cup NewSeats(w.id, ans)
           /\ queue' = [f \in Forwards |-> IF f \in ClosedBy(w.id, ans) THEN <<>> ELSE queue[f]]
           /\ inbox' = [c \in Conduits |-> IF c \in Asked(w.id) /\ CanSend(c)
                                           THEN Append(inbox[c], "msg") ELSE inbox[c]]
           /\ doomed' \in SUBSET Asked(w.id)
           /\ UNCHANGED <<task, present, inboxes, nextId, dead, sweep, driving, claim, pool>>
<1>1. w.id \in Nat
    BY DEF TypeOK, MuxTypes
<1>2. \A r \in forwards : r.fwd \in Forwards
    BY DEF TypeOK, ForwardTypes, ForwardRec
<1>3. {r \in forwards : \A c \in Asked(w.id) : r.fwd \notin ClosedForwards(c, w.id, ans)}
        = {r \in forwards : r.fwd \notin ClosedBy(w.id, ans)}
    BY <1>2 DEF ClosedBy
<1>4. [f \in Forwards |-> IF \E c \in Asked(w.id) : f \in ClosedForwards(c, w.id, ans)
                          THEN <<>> ELSE queue[f]]
        = [f \in Forwards |-> IF f \in ClosedBy(w.id, ans) THEN <<>> ELSE queue[f]]
    BY DEF ClosedBy
<1>. QED BY <1>1, <1>3, <1>4 DEF Answered, DeliverResponse, Asked, NewSeats, claimVars

\* The conduits' values stay in their sets.
LEMMA ConduitTypesKept ==
    ASSUME TypeOK, [Next]_vars
    PROVE  ConduitTypes'
<1>. DEFINE Same == UNCHANGED <<task, present, inboxes, inbox>>
<1>1. CASE Same
    BY <1>1 DEF TypeOK, ConduitTypes
<1>2. CASE \E c \in Conduits : RegisterConduit(c)
    <2>1. PICK c \in Conduits : RegisterConduit(c)
        BY <1>2
    <2>2. (IF dead THEN <<"dead">> ELSE <<>>) \in Seq({"msg", "dead"})
        <3>1. <<"dead">> \in Seq({"msg", "dead"}) /\ <<>> \in Seq({"msg", "dead"})
            OBVIOUS
        <3>. QED BY <3>1, Zenon
    <2>. QED BY <2>1, <2>2 DEF RegisterConduit, TypeOK, ConduitTypes
<1>3. CASE \E c \in Conduits : Leaves(c)
    BY <1>3 DEF Leaves, Unregister, TypeOK, ConduitTypes
<1>4. CASE \E c \in Conduits : ReceiveInbound(c)
    <2>1. PICK c \in Conduits : ReceiveInbound(c)
        BY <1>4
    <2>2. inbox[c] \in Seq({"msg", "dead"}) /\ inbox[c] # <<>>
        BY <2>1 DEF ReceiveInbound, TypeOK, ConduitTypes
    <2>3. Tail(inbox[c]) \in Seq({"msg", "dead"})
        BY <2>2
    <2>. QED BY <2>1, <2>3 DEF ReceiveInbound, TypeOK, ConduitTypes
<1>5. CASE \E c \in Conduits : \E kind \in Kinds : \E arg : Asks(c, kind, arg)
    BY <1>5 DEF Asks, SendRequest, TypeOK, ConduitTypes
<1>6. CASE \E w \in wire : \E ans : Answered(w, ans)
    <2>1. \A q \in Seq({"msg", "dead"}) : Append(q, "msg") \in Seq({"msg", "dead"})
        OBVIOUS
    <2>2. PICK w, ans : w \in wire /\ Answered(w, ans)
        BY <1>6
    <2>3. /\ inbox' = [c \in Conduits |-> IF c \in Asked(w.id) /\ CanSend(c)
                                         THEN Append(inbox[c], "msg") ELSE inbox[c]]
          /\ UNCHANGED <<task, present, inboxes>>
        BY <2>2, AnswerEffect
    <2>. QED BY <2>1, <2>3 DEF TypeOK, ConduitTypes
<1>7. CASE \E targets \in SUBSET Conduits : DeliverEvent(targets)
    <2>1. \A q \in Seq({"msg", "dead"}) : Append(q, "msg") \in Seq({"msg", "dead"})
        OBVIOUS
    <2>. QED BY <1>7, <2>1 DEF DeliverEvent, TypeOK, ConduitTypes
<1>8. (MarkDead) => Same
    BY DEF MarkDead, conduitVars, muxVars, forwardVars, driveVars, claimVars
<1>9. (DriveEnds) => Same
    BY DEF DriveEnds, conduitVars, muxVars, forwardVars, driveVars, claimVars
<1>10. (\E f \in Forwards : AdminCloseForward(f)) => Same
    BY DEF AdminCloseForward, conduitVars, muxVars, forwardVars, driveVars, claimVars
<1>11. (\E f \in Forwards : DeliverTcpAccepted(f)) => Same
    BY DEF DeliverTcpAccepted, conduitVars, muxVars, forwardVars, driveVars, claimVars
<1>12. (\E keep \in [Forwards -> 0..MaxTunnels] : SweepExpiredArrivals(keep)) => Same
    BY DEF SweepExpiredArrivals, conduitVars, muxVars, forwardVars, driveVars, claimVars
<1>13. (\E k \in Claims : ClaimStep(k)) => Same
    BY DEF ClaimStep, StartClaim, AcquireClaim, CheckClaim, WakeClaim, TimeoutClaim, EndSplice, conduitVars, muxVars, forwardVars, driveVars, claimVars
<1>14. (UNCHANGED vars) => Same
    BY DEF vars, conduitVars, muxVars, forwardVars, driveVars, claimVars
<1>. HIDE DEF Same, vars
<1>. QED BY <1>1, <1>2, <1>3, <1>4, <1>5, <1>6, <1>7, <1>8, <1>9, <1>10, <1>11, <1>12, <1>13, <1>14, Steps

\* The multiplexer's values stay in their sets.
LEMMA MuxTypesKept ==
    ASSUME TypeOK, Ids, [Next]_vars
    PROVE  MuxTypes'
<1>. DEFINE Same == UNCHANGED <<nextId, inflight, subs, longPoll, pending, wire>>
<1>1. CASE Same
    BY <1>1 DEF TypeOK, MuxTypes
<1>2. (\E c \in Conduits : RegisterConduit(c)) => Same
    BY DEF RegisterConduit, conduitVars, muxVars, forwardVars, driveVars, claimVars
<1>3. CASE \E c \in Conduits : Leaves(c)
    BY <1>3 DEF Leaves, Unregister, TypeOK, MuxTypes
<1>4. (\E c \in Conduits : ReceiveInbound(c)) => Same
    BY DEF ReceiveInbound, conduitVars, muxVars, forwardVars, driveVars, claimVars
<1>5. CASE \E c \in Conduits : \E kind \in Kinds : \E arg : Asks(c, kind, arg)
    <2>1. PICK c, kind, arg : c \in Conduits /\ kind \in Kinds /\ Asks(c, kind, arg)
        BY <1>5
    <2>2. nextId + 1 \in Nat \ {0} /\ nextId \in Nat
        BY DEF TypeOK, MuxTypes
    <2>3. [id |-> nextId, conduit |-> c] \in [id : Nat, conduit : Conduits]
        BY <2>1, <2>2
    <2>4. [id |-> nextId, kind |-> kind] \in [id : Nat, kind : Kinds]
        BY <2>1, <2>2
    <2>. QED BY <2>1, <2>2, <2>3, <2>4 DEF Asks, SendRequest, TypeOK, MuxTypes
<1>6. CASE \E w \in wire : \E ans : Answered(w, ans)
    <2>1. PICK w, ans : w \in wire /\ Answered(w, ans)
        BY <1>6
    <2>2. SubscribeTo(w.id, ans) \in SUBSET Sessions /\ Asked(w.id) \in SUBSET Conduits
        BY <2>1, AnswerEffect, AnswerTypes, AskedOne DEF TypeOK
    <2>3. subs' \in SUBSET (Conduits \X Sessions)
        BY <2>1, <2>2, AnswerEffect DEF TypeOK, MuxTypes
    <2>4. /\ wire' \in SUBSET wire /\ longPoll' \in SUBSET longPoll /\ pending' \in SUBSET pending
          /\ inflight' \in SUBSET inflight /\ UNCHANGED nextId
        BY <2>1, AnswerEffect
    <2>. QED BY <2>3, <2>4 DEF TypeOK, MuxTypes
<1>7. (\E targets \in SUBSET Conduits : DeliverEvent(targets)) => Same
    BY DEF DeliverEvent, conduitVars, muxVars, forwardVars, driveVars, claimVars
<1>8. (MarkDead) => Same
    BY DEF MarkDead, conduitVars, muxVars, forwardVars, driveVars, claimVars
<1>9. CASE DriveEnds
    BY <1>9 DEF DriveEnds, TypeOK, MuxTypes
<1>10. CASE \E f \in Forwards : AdminCloseForward(f)
    <2>1. [id |-> BareId, kind |-> "rfwdClose"] \in [id : Nat, kind : Kinds]
        BY DEF BareId, Kinds
    <2>. QED BY <1>10, <2>1 DEF AdminCloseForward, TypeOK, MuxTypes
<1>11. (\E f \in Forwards : DeliverTcpAccepted(f)) => Same
    BY DEF DeliverTcpAccepted, conduitVars, muxVars, forwardVars, driveVars, claimVars
<1>12. (\E keep \in [Forwards -> 0..MaxTunnels] : SweepExpiredArrivals(keep)) => Same
    BY DEF SweepExpiredArrivals, conduitVars, muxVars, forwardVars, driveVars, claimVars
<1>13. (\E k \in Claims : ClaimStep(k)) => Same
    BY DEF ClaimStep, StartClaim, AcquireClaim, CheckClaim, WakeClaim, TimeoutClaim, EndSplice, conduitVars, muxVars, forwardVars, driveVars, claimVars
<1>14. (UNCHANGED vars) => Same
    BY DEF vars, conduitVars, muxVars, forwardVars, driveVars, claimVars
<1>. HIDE DEF Same, vars
<1>. QED BY <1>1, <1>2, <1>3, <1>4, <1>5, <1>6, <1>7, <1>8, <1>9, <1>10, <1>11, <1>12, <1>13, <1>14, Steps

\* Somebody owns a forward that can be claimed.
LEMMA ClaimableOwned ==
    ASSUME ForwardTypes, NEW f, IsClaimable(f)
    PROVE  /\ (CHOOSE o \in Conduits : IsForwardOwner(f, o)) \in Conduits
           /\ IsForwardOwner(f, CHOOSE o \in Conduits : IsForwardOwner(f, o))
<1>1. PICK r \in Registered(f) : r.token # None
    BY DEF IsClaimable
<1>2. r.owner \in Conduits /\ IsForwardOwner(f, r.owner)
    BY <1>1 DEF IsForwardOwner, Registered, ForwardTypes, ForwardRec
<1>. QED BY <1>2, Zenon

\* The registry's values stay in their sets.
LEMMA ForwardTypesKept ==
    ASSUME TypeOK, Ids, [Next]_vars
    PROVE  ForwardTypes'
<1>. DEFINE Same == UNCHANGED <<forwards, queue>>
<1>1. CASE Same
    BY <1>1 DEF TypeOK, ForwardTypes
<1>2. (\E c \in Conduits : RegisterConduit(c)) => Same
    BY DEF RegisterConduit, conduitVars, muxVars, forwardVars, driveVars, claimVars
<1>3. CASE \E c \in Conduits : Leaves(c)
    <2>1. PICK c \in Conduits : Leaves(c)
        BY <1>3
    <2>2. <<>> \in Seq(Conduits)
        OBVIOUS
    <2>. QED BY <2>1, <2>2 DEF Leaves, Unregister, DropForwardsOf, TypeOK, ForwardTypes
<1>4. (\E c \in Conduits : ReceiveInbound(c)) => Same
    BY DEF ReceiveInbound, conduitVars, muxVars, forwardVars, driveVars, claimVars
<1>5. (\E c \in Conduits : \E kind \in Kinds : \E arg : Asks(c, kind, arg)) => Same
    BY DEF Asks, SendRequest, conduitVars, muxVars, forwardVars, driveVars, claimVars
<1>6. CASE \E w \in wire : \E ans : Answered(w, ans)
    <2>1. PICK w, ans : w \in wire /\ Answered(w, ans)
        BY <1>6
    <2>2. ans \in Answers(w.kind)
        BY <2>1 DEF Answered
    <2>3. NewSeats(w.id, ans) \in SUBSET ForwardRec
        BY <2>2, NewSeat DEF TypeOK
    <2>4. <<>> \in Seq(Conduits)
        OBVIOUS
    <2>5. /\ forwards' = {r \in forwards : r.fwd \notin ClosedBy(w.id, ans)} \cup NewSeats(w.id, ans)
          /\ queue' = [f \in Forwards |-> IF f \in ClosedBy(w.id, ans) THEN <<>> ELSE queue[f]]
        BY <2>1, AnswerEffect
    <2>. QED BY <2>3, <2>4, <2>5 DEF TypeOK, ForwardTypes
<1>7. (\E targets \in SUBSET Conduits : DeliverEvent(targets)) => Same
    BY DEF DeliverEvent, conduitVars, muxVars, forwardVars, driveVars, claimVars
<1>8. (MarkDead) => Same
    BY DEF MarkDead, conduitVars, muxVars, forwardVars, driveVars, claimVars
<1>9. (DriveEnds) => Same
    BY DEF DriveEnds, conduitVars, muxVars, forwardVars, driveVars, claimVars
<1>10. CASE \E f \in Forwards : AdminCloseForward(f)
    <2>1. <<>> \in Seq(Conduits)
        OBVIOUS
    <2>. QED BY <1>10, <2>1 DEF AdminCloseForward, TypeOK, ForwardTypes
<1>11. CASE \E f \in Forwards : DeliverTcpAccepted(f)
    <2>1. PICK f \in Forwards : DeliverTcpAccepted(f)
        BY <1>11
    <2>2. (CHOOSE o \in Conduits : IsForwardOwner(f, o)) \in Conduits
        BY <2>1, ClaimableOwned DEF DeliverTcpAccepted, TypeOK
    <2>. HIDE DEF IsForwardOwner
    <2>3. Append(queue[f], CHOOSE o \in Conduits : IsForwardOwner(f, o)) \in Seq(Conduits)
        BY <2>2 DEF TypeOK, ForwardTypes
    <2>. QED BY <2>1, <2>3 DEF DeliverTcpAccepted, TypeOK, ForwardTypes
<1>12. CASE \E keep \in [Forwards -> 0..MaxTunnels] : SweepExpiredArrivals(keep)
    <2>1. PICK keep \in [Forwards -> 0..MaxTunnels] : SweepExpiredArrivals(keep)
        BY <1>12
    <2>2. ASSUME NEW f \in Forwards
          PROVE  SubSeq(queue[f], Len(queue[f]) - keep[f] + 1, Len(queue[f])) \in Seq(Conduits)
        <3>1. queue[f] \in Seq(Conduits) /\ keep[f] \in Nat /\ keep[f] <= Len(queue[f])
            BY <2>1, Limits DEF SweepExpiredArrivals, TypeOK, ForwardTypes
        <3>. QED BY <3>1
    <2>. QED BY <2>1, <2>2 DEF SweepExpiredArrivals, TypeOK, ForwardTypes
<1>13. CASE \E k \in Claims : ClaimStep(k)
    <2>1. PICK k \in Claims : ClaimStep(k)
        BY <1>13
    <2>2. CASE CheckClaim(k)
        <3>1. claim[k].fwd \in Forwards
            BY <2>2 DEF CheckClaim, TypeOK, ClaimTypes
        <3>2. queue[claim[k].fwd] # <<>> => Tail(queue[claim[k].fwd]) \in Seq(Conduits)
            BY <3>1 DEF TypeOK, ForwardTypes
        <3>. QED BY <2>2, <3>1, <3>2 DEF CheckClaim, TypeOK, ForwardTypes
    <2>3. CASE UNCHANGED forwardVars
        BY <2>3 DEF forwardVars, TypeOK, ForwardTypes
    <2>. QED BY <2>1, <2>2, <2>3 DEF ClaimStep, StartClaim, AcquireClaim, WakeClaim, TimeoutClaim, EndSplice
<1>14. (UNCHANGED vars) => Same
    BY DEF vars, conduitVars, muxVars, forwardVars, driveVars, claimVars
<1>. HIDE DEF Same, vars
<1>. QED BY <1>1, <1>2, <1>3, <1>4, <1>5, <1>6, <1>7, <1>8, <1>9, <1>10, <1>11, <1>12, <1>13, <1>14, Steps

\* The flags and sets of the drive loop stay in theirs.
LEMMA DriveTypesKept ==
    ASSUME TypeOK, Ids, [Next]_vars
    PROVE  DriveTypes'
<1>. DEFINE Same == UNCHANGED <<dead, driving, sweep, doomed>>
<1>1. CASE Same
    BY <1>1 DEF TypeOK, DriveTypes
<1>2. (\E c \in Conduits : RegisterConduit(c)) => Same
    BY DEF RegisterConduit, conduitVars, muxVars, forwardVars, driveVars, claimVars
<1>3. CASE \E c \in Conduits : Leaves(c)
    BY <1>3 DEF Leaves, TypeOK, DriveTypes
<1>4. (\E c \in Conduits : ReceiveInbound(c)) => Same
    BY DEF ReceiveInbound, conduitVars, muxVars, forwardVars, driveVars, claimVars
<1>5. (\E c \in Conduits : \E kind \in Kinds : \E arg : Asks(c, kind, arg)) => Same
    BY DEF Asks, SendRequest, conduitVars, muxVars, forwardVars, driveVars, claimVars
<1>6. CASE \E w \in wire : \E ans : Answered(w, ans)
    <2>1. PICK w, ans : w \in wire /\ Answered(w, ans)
        BY <1>6
    <2>2. Asked(w.id) \in SUBSET Conduits
        BY AskedOne DEF TypeOK
    <2>. QED BY <2>1, <2>2, AnswerEffect DEF TypeOK, DriveTypes
<1>7. CASE \E targets \in SUBSET Conduits : DeliverEvent(targets)
    BY <1>7 DEF DeliverEvent, TypeOK, DriveTypes
<1>8. CASE MarkDead
    BY <1>8 DEF MarkDead, TypeOK, DriveTypes, ConduitTypes
<1>9. CASE DriveEnds
    BY <1>9 DEF DriveEnds, TypeOK, DriveTypes
<1>10. (\E f \in Forwards : AdminCloseForward(f)) => Same
    BY DEF AdminCloseForward, conduitVars, muxVars, forwardVars, driveVars, claimVars
<1>11. (\E f \in Forwards : DeliverTcpAccepted(f)) => Same
    BY DEF DeliverTcpAccepted, conduitVars, muxVars, forwardVars, driveVars, claimVars
<1>12. (\E keep \in [Forwards -> 0..MaxTunnels] : SweepExpiredArrivals(keep)) => Same
    BY DEF SweepExpiredArrivals, conduitVars, muxVars, forwardVars, driveVars, claimVars
<1>13. (\E k \in Claims : ClaimStep(k)) => Same
    BY DEF ClaimStep, StartClaim, AcquireClaim, CheckClaim, WakeClaim, TimeoutClaim, EndSplice, conduitVars, muxVars, forwardVars, driveVars, claimVars
<1>14. (UNCHANGED vars) => Same
    BY DEF vars, conduitVars, muxVars, forwardVars, driveVars, claimVars
<1>. HIDE DEF Same, vars
<1>. QED BY <1>1, <1>2, <1>3, <1>4, <1>5, <1>6, <1>7, <1>8, <1>9, <1>10, <1>11, <1>12, <1>13, <1>14, Steps

\* The claims and the pool stay in their sets.
LEMMA ClaimTypesKept ==
    ASSUME TypeOK, [Next]_vars
    PROVE  ClaimTypes'
<1>. DEFINE Same == UNCHANGED <<claim, pool>>
<1>1. CASE Same
    BY <1>1 DEF TypeOK, ClaimTypes
<1>2. (\E c \in Conduits : RegisterConduit(c)) => Same
    BY DEF RegisterConduit, conduitVars, muxVars, forwardVars, driveVars, claimVars
<1>3. CASE \E c \in Conduits : Leaves(c)
    BY <1>3, NotifyEffect DEF Leaves, Unregister, TypeOK, ClaimTypes
<1>4. (\E c \in Conduits : ReceiveInbound(c)) => Same
    BY DEF ReceiveInbound, conduitVars, muxVars, forwardVars, driveVars, claimVars
<1>5. (\E c \in Conduits : \E kind \in Kinds : \E arg : Asks(c, kind, arg)) => Same
    BY DEF Asks, SendRequest, conduitVars, muxVars, forwardVars, driveVars, claimVars
<1>6. (\E w \in wire : \E ans : Answered(w, ans)) => Same
    BY DEF Answered, DeliverResponse, conduitVars, muxVars, forwardVars, driveVars, claimVars
<1>7. (\E targets \in SUBSET Conduits : DeliverEvent(targets)) => Same
    BY DEF DeliverEvent, conduitVars, muxVars, forwardVars, driveVars, claimVars
<1>8. (MarkDead) => Same
    BY DEF MarkDead, conduitVars, muxVars, forwardVars, driveVars, claimVars
<1>9. (DriveEnds) => Same
    BY DEF DriveEnds, conduitVars, muxVars, forwardVars, driveVars, claimVars
<1>10. CASE \E f \in Forwards : AdminCloseForward(f)
    BY <1>10, NotifyEffect DEF AdminCloseForward, TypeOK, ClaimTypes
<1>11. CASE \E f \in Forwards : DeliverTcpAccepted(f)
    BY <1>11, NotifyEffect DEF DeliverTcpAccepted, TypeOK, ClaimTypes
<1>12. (\E keep \in [Forwards -> 0..MaxTunnels] : SweepExpiredArrivals(keep)) => Same
    BY DEF SweepExpiredArrivals, conduitVars, muxVars, forwardVars, driveVars, claimVars
<1>13. CASE \E k \in Claims : ClaimStep(k)
    <2>1. PICK k \in Claims : ClaimStep(k)
        BY <1>13
    <2>. DEFINE Typed(q) == q \in ClaimRec /\ (q.st # "idle" => q.fwd \in Forwards)
    <2>2. claim[k] \in ClaimRec /\ claim[k].bucket \in Owners
        BY DEF TypeOK, ClaimTypes, ClaimRec
    <2>3. ASSUME NEW q, Typed(q), SetClaim(k, q), pool' \in [total : Int, perOwner : [Owners -> Int]]
          PROVE  ClaimTypes'
        BY <2>3 DEF SetClaim, TypeOK, ClaimTypes
    <2>4. pool \in [total : Int, perOwner : [Owners -> Int]]
        BY DEF TypeOK, ClaimTypes
    <2>5. Release(claim[k].bucket) => pool' \in [total : Int, perOwner : [Owners -> Int]]
        BY <2>2, <2>4 DEF Release
    <2>6. Typed(Idle)
        BY IdleClaim
    <2>7. ASSUME NEW f \in Forwards, NEW token \in Conduits, StartClaim(k, f, token)
          PROVE  ClaimTypes'
        <3>1. PICK owner \in Owners :
                  SetClaim(k, [Idle EXCEPT !.st = "lookup", !.fwd = f, !.token = token,
                                           !.bucket = owner])
            BY <2>7 DEF StartClaim, Owners
        <3>2. PICK q : q = [Idle EXCEPT !.st = "lookup", !.fwd = f, !.token = token, !.bucket = owner]
            OBVIOUS
        <3>3. q \in ClaimRec /\ q.st = "lookup" /\ q.fwd = f
            BY <3>2, IdleClaim DEF ClaimRec, ClaimStates, Owners
        <3>. QED BY <2>3, <2>4, <2>7, <3>1, <3>2, <3>3 DEF StartClaim
    <2>8. CASE AcquireClaim(k)
        <3>1. Typed([claim[k] EXCEPT !.st = "enabled"])
            BY <2>2, <2>8, MovedClaim DEF AcquireClaim, ClaimStates, TypeOK, ClaimTypes
        <3>2. pool' \in [total : Int, perOwner : [Owners -> Int]]
            BY <2>2, <2>4, <2>8 DEF AcquireClaim
        <3>. HIDE DEF Typed
        <3>. QED BY <2>3, <2>6, <2>8, <3>1, <3>2 DEF AcquireClaim
    <2>9. CASE CheckClaim(k)
        <3>1. claim[k].fwd \in Forwards
            BY <2>9 DEF CheckClaim, TypeOK, ClaimTypes
        <3>2. Typed([claim[k] EXCEPT !.st = "parked"])
            BY <2>2, <3>1, MovedClaim DEF ClaimStates
        <3>3. queue[claim[k].fwd] # <<>> => Head(queue[claim[k].fwd]) \in Owners
            BY <3>1 DEF TypeOK, ForwardTypes, Owners
        <3>4. PICK q : q = [claim[k] EXCEPT !.st = "granted", !.got = Head(queue[claim[k].fwd])]
            OBVIOUS
        <3>5. ASSUME queue[claim[k].fwd] # <<>>
              PROVE  Typed(q)
            <4>1. PICK o \in Owners : o = Head(queue[claim[k].fwd])
                BY <3>3, <3>5
            <4>2. q = [claim[k] EXCEPT !.st = "granted", !.got = o]
                BY <3>4, <4>1
            <4>3. q \in ClaimRec /\ q.fwd = claim[k].fwd
                BY <2>2, <4>2 DEF ClaimRec, ClaimStates
            <4>. QED BY <3>1, <4>3
        <3>. HIDE DEF Typed
        <3>. QED BY <2>3, <2>4, <2>5, <2>6, <2>9, <3>2, <3>4, <3>5 DEF CheckClaim
    <2>10. CASE WakeClaim(k)
        <3>1. PICK q : q = [claim[k] EXCEPT !.st = "enabled", !.notified = FALSE]
            OBVIOUS
        <3>2. claim[k].fwd \in Forwards
            BY <2>10 DEF WakeClaim, TypeOK, ClaimTypes
        <3>3. Typed(q)
            BY <2>2, <3>1, <3>2, WokenClaim
        <3>. HIDE DEF Typed
        <3>. QED BY <2>3, <2>4, <2>10, <3>1, <3>3 DEF WakeClaim
    <2>11. CASE TimeoutClaim(k)
        BY <2>3, <2>5, <2>6, <2>11 DEF TimeoutClaim
    <2>12. CASE EndSplice(k)
        BY <2>3, <2>4, <2>6, <2>12 DEF EndSplice
    <2>. QED BY <2>1, <2>7, <2>8, <2>9, <2>10, <2>11, <2>12 DEF ClaimStep
<1>14. (UNCHANGED vars) => Same
    BY DEF vars, conduitVars, muxVars, forwardVars, driveVars, claimVars
<1>. HIDE DEF Same, vars
<1>. QED BY <1>1, <1>2, <1>3, <1>4, <1>5, <1>6, <1>7, <1>8, <1>9, <1>10, <1>11, <1>12, <1>13, <1>14, Steps

-----------------------------------------------------------------------------
(* The multiplexer's books *)

\* Request ids stay distinct, and an open keeps the name of its conduit.
LEMMA IdsKept ==
    ASSUME TypeOK, Ids, [Next]_vars
    PROVE  Ids'
<1>. DEFINE Same == UNCHANGED <<nextId, inflight, longPoll, pending>>
<1>1. CASE Same
    BY <1>1 DEF Ids
<1>2. (\E c \in Conduits : RegisterConduit(c)) => Same
    BY DEF RegisterConduit, conduitVars, muxVars, forwardVars, driveVars, claimVars
<1>3. CASE \E c \in Conduits : Leaves(c)
    <2>1. inflight' \in SUBSET inflight /\ pending' \in SUBSET pending /\ UNCHANGED <<longPoll, nextId>>
        BY <1>3 DEF Leaves, Unregister
    <2>. QED BY <2>1 DEF Ids
<1>4. (\E c \in Conduits : ReceiveInbound(c)) => Same
    BY DEF ReceiveInbound, conduitVars, muxVars, forwardVars, driveVars, claimVars
<1>5. CASE \E c \in Conduits : \E kind \in Kinds : \E arg : Asks(c, kind, arg)
    <2>1. PICK c, kind, arg : c \in Conduits /\ kind \in Kinds /\ Asks(c, kind, arg)
        BY <1>5
    <2>2. nextId \in Nat
        BY DEF TypeOK, MuxTypes
    <2>. DEFINE r == [id |-> nextId, conduit |-> c]
    <2>3. /\ inflight' = inflight \cup {r} /\ nextId' = nextId + 1
          /\ pending' = pending \cup PendingOf(nextId, kind, arg)
          /\ longPoll' \in SUBSET (longPoll \cup {nextId})
          /\ kind = "rfwdOpen" => arg \in {c, None}
        BY <2>1 DEF Asks, SendRequest
    <2>4. \A p, q \in PendingOf(nextId, kind, arg) :
              p.id = nextId /\ p = q /\ p.kind = kind /\ p.arg = arg
        BY DEF PendingOf
    <2>5. r.id = nextId /\ r.conduit = c
        OBVIOUS
    <2>6. /\ \A x \in inflight : x.id \in Nat /\ x.id < nextId
          /\ \A p \in pending : p.id \in Nat /\ p.id < nextId
          /\ \A i \in longPoll : i \in Nat /\ i < nextId
        BY DEF Ids, TypeOK, MuxTypes, PendingRec
    <2>. HIDE DEF r
    <2>7. /\ \A x \in inflight' : x.id < nextId'
          /\ \A p \in pending' : p.id < nextId'
          /\ \A i \in longPoll' : i < nextId'
        BY <2>2, <2>3, <2>4, <2>5, <2>6
    <2>8. \A x, y \in inflight' : x.id = y.id => x = y
        BY <2>2, <2>3, <2>5, <2>6 DEF Ids
    <2>9. \A p, q \in pending' : p.id = q.id => p = q
        BY <2>2, <2>3, <2>4, <2>6 DEF Ids
    <2>10. \A x \in inflight', p \in pending' :
              x.id = p.id /\ p.kind = "rfwdOpen" => p.arg \in {x.conduit, None}
        BY <2>2, <2>3, <2>4, <2>5, <2>6 DEF Ids
    <2>. QED BY <2>7, <2>8, <2>9, <2>10 DEF Ids
<1>6. CASE \E w \in wire : \E ans : Answered(w, ans)
    <2>1. /\ inflight' \in SUBSET inflight /\ pending' \in SUBSET pending
          /\ longPoll' \in SUBSET longPoll /\ UNCHANGED nextId
        BY <1>6, AnswerEffect
    <2>. QED BY <2>1 DEF Ids
<1>7. (\E targets \in SUBSET Conduits : DeliverEvent(targets)) => Same
    BY DEF DeliverEvent, conduitVars, muxVars, forwardVars, driveVars, claimVars
<1>8. (MarkDead) => Same
    BY DEF MarkDead, conduitVars, muxVars, forwardVars, driveVars, claimVars
<1>9. (DriveEnds) => Same
    BY DEF DriveEnds, conduitVars, muxVars, forwardVars, driveVars, claimVars
<1>10. (\E f \in Forwards : AdminCloseForward(f)) => Same
    BY DEF AdminCloseForward, conduitVars, muxVars, forwardVars, driveVars, claimVars
<1>11. (\E f \in Forwards : DeliverTcpAccepted(f)) => Same
    BY DEF DeliverTcpAccepted, conduitVars, muxVars, forwardVars, driveVars, claimVars
<1>12. (\E keep \in [Forwards -> 0..MaxTunnels] : SweepExpiredArrivals(keep)) => Same
    BY DEF SweepExpiredArrivals, conduitVars, muxVars, forwardVars, driveVars, claimVars
<1>13. (\E k \in Claims : ClaimStep(k)) => Same
    BY DEF ClaimStep, StartClaim, AcquireClaim, CheckClaim, WakeClaim, TimeoutClaim, EndSplice, conduitVars, muxVars, forwardVars, driveVars, claimVars
<1>14. (UNCHANGED vars) => Same
    BY DEF vars, conduitVars, muxVars, forwardVars, driveVars, claimVars
<1>. HIDE DEF Same, vars
<1>. QED BY <1>1, <1>2, <1>3, <1>4, <1>5, <1>6, <1>7, <1>8, <1>9, <1>10, <1>11, <1>12, <1>13, <1>14, Steps

\* In-flight requests, subscriptions and inboxes belong to conduits that are
\* listed, and whose tasks run.
LEMMA BooksKept ==
    ASSUME TypeOK, Ids, MuxBooksAgree, [Next]_vars
    PROVE  MuxBooksAgree'
<1>. DEFINE Same == UNCHANGED <<task, present, inflight, subs, inboxes>>
<1>1. CASE Same
    BY <1>1 DEF MuxBooksAgree
<1>2. CASE \E c \in Conduits : RegisterConduit(c)
    BY <1>2 DEF RegisterConduit, muxVars, MuxBooksAgree, TypeOK, ConduitTypes
<1>3. CASE \E c \in Conduits : Leaves(c)
    <2>1. PICK c \in Conduits : Leaves(c)
        BY <1>3
    <2>2. /\ present' = present \ {c} /\ inboxes' = inboxes \ {c}
          /\ inflight' = inflight \ InFlightOf(c) /\ subs' = {s \in subs : s[1] # c}
        BY <2>1 DEF Leaves, Unregister
    <2>3. \A d \in present' : task'[d] = task[d]
        BY <2>1, <2>2 DEF Leaves, TypeOK, ConduitTypes
    <2>. QED BY <2>2, <2>3 DEF MuxBooksAgree, InFlightOf
<1>4. (\E c \in Conduits : ReceiveInbound(c)) => Same
    BY DEF ReceiveInbound, conduitVars, muxVars, forwardVars, driveVars, claimVars
<1>5. CASE \E c \in Conduits : \E kind \in Kinds : \E arg : Asks(c, kind, arg)
    BY <1>5 DEF Asks, SendRequest, MuxBooksAgree
<1>6. CASE \E w \in wire : \E ans : Answered(w, ans)
    <2>1. PICK w, ans : w \in wire /\ Answered(w, ans)
        BY <1>6
    <2>2. /\ UNCHANGED <<task, present, inboxes>> /\ inflight' \in SUBSET inflight
          /\ subs' = subs \cup {<<c, s>> : c \in Asked(w.id), s \in SubscribeTo(w.id, ans)}
        BY <2>1, AnswerEffect
    <2>3. \A c \in Asked(w.id) : c \in present
        BY DEF Asked, MuxBooksAgree
    <2>4. \A s \in subs' : s[1] \in present
        BY <2>2, <2>3 DEF MuxBooksAgree
    <2>. QED BY <2>2, <2>4 DEF MuxBooksAgree
<1>7. (\E targets \in SUBSET Conduits : DeliverEvent(targets)) => Same
    BY DEF DeliverEvent, conduitVars, muxVars, forwardVars, driveVars, claimVars
<1>8. (MarkDead) => Same
    BY DEF MarkDead, conduitVars, muxVars, forwardVars, driveVars, claimVars
<1>9. (DriveEnds) => Same
    BY DEF DriveEnds, conduitVars, muxVars, forwardVars, driveVars, claimVars
<1>10. (\E f \in Forwards : AdminCloseForward(f)) => Same
    BY DEF AdminCloseForward, conduitVars, muxVars, forwardVars, driveVars, claimVars
<1>11. (\E f \in Forwards : DeliverTcpAccepted(f)) => Same
    BY DEF DeliverTcpAccepted, conduitVars, muxVars, forwardVars, driveVars, claimVars
<1>12. (\E keep \in [Forwards -> 0..MaxTunnels] : SweepExpiredArrivals(keep)) => Same
    BY DEF SweepExpiredArrivals, conduitVars, muxVars, forwardVars, driveVars, claimVars
<1>13. (\E k \in Claims : ClaimStep(k)) => Same
    BY DEF ClaimStep, StartClaim, AcquireClaim, CheckClaim, WakeClaim, TimeoutClaim, EndSplice, conduitVars, muxVars, forwardVars, driveVars, claimVars
<1>14. (UNCHANGED vars) => Same
    BY DEF vars, conduitVars, muxVars, forwardVars, driveVars, claimVars
<1>. HIDE DEF Same, vars
<1>. QED BY <1>1, <1>2, <1>3, <1>4, <1>5, <1>6, <1>7, <1>8, <1>9, <1>10, <1>11, <1>12, <1>13, <1>14, Steps

-----------------------------------------------------------------------------
(* Forwards and their arrivals *)

\* What leaving does to the registry.
LEMMA LeaveEffect ==
    ASSUME TypeOK, ForwardsHaveOwners, NEW c \in Conduits, Leaves(c)
    PROVE  /\ forwards' = {r \in forwards : r.owner # c}
           /\ \A f \in Forwards : queue'[f] \in {queue[f], <<>>}
           /\ \A f \in Forwards : queue'[f] # <<>> =>
                  queue'[f] = queue[f] /\ \A r \in forwards : r.fwd = f => r.owner # c
           /\ claim' = NotifyWaiters
<1>. DEFINE orphans == {r.fwd : r \in {x \in forwards : x.owner = c}}
<1>1. /\ forwards' = {r \in forwards : r.owner # c}
      /\ queue' = [f \in Forwards |-> IF f \in orphans THEN <<>> ELSE queue[f]]
      /\ claim' = NotifyWaiters
    BY DEF Leaves, Unregister, DropForwardsOf
<1>. QED BY <1>1

\* What is left of a queue when its oldest arrivals expire.
LEMMA ExpireEffect ==
    ASSUME TypeOK, NEW keep \in [Forwards -> 0..MaxTunnels], SweepExpiredArrivals(keep)
    PROVE  \A f \in Forwards :
              /\ Len(queue'[f]) \in Nat
              /\ \A i \in 1..Len(queue'[f]) : \E j \in 1..Len(queue[f]) : queue'[f][i] = queue[f][j]
              /\ queue'[f] # <<>> => queue[f] # <<>>
<1>. TAKE f \in Forwards
<1>a. queue[f] \in Seq(Conduits) /\ keep[f] \in Nat /\ keep[f] <= Len(queue[f])
    BY Limits DEF SweepExpiredArrivals, TypeOK, ForwardTypes
<1>b. queue'[f] = SubSeq(queue[f], Len(queue[f]) - keep[f] + 1, Len(queue[f]))
    BY DEF SweepExpiredArrivals
<1>1. /\ queue[f] \in Seq(Conduits) /\ keep[f] \in Nat /\ keep[f] <= Len(queue[f])
      /\ Len(queue[f]) \in Nat
      /\ queue'[f] = SubSeq(queue[f], Len(queue[f]) - keep[f] + 1, Len(queue[f]))
    BY <1>a, <1>b
<1>2. /\ Len(queue'[f]) = keep[f]
      /\ \A i \in 1..keep[f] : queue'[f][i] = queue[f][Len(queue[f]) - keep[f] + i]
    BY <1>1
<1>3. \A i \in 1..keep[f] : Len(queue[f]) - keep[f] + i \in 1..Len(queue[f])
    BY <1>1
<1>4. queue[f] = <<>> => queue'[f] = <<>>
    BY <1>1
<1>. QED BY <1>1, <1>2, <1>3, <1>4

\* A step of a claim touches the registry only to take the arrival at the front.
LEMMA ClaimTakes ==
    ASSUME TypeOK, NEW k \in Claims, ClaimStep(k)
    PROVE  /\ UNCHANGED <<forwards, task>>
           /\ \A f \in Forwards :
                 /\ Len(queue'[f]) \in Nat
                 /\ \A i \in 1..Len(queue'[f]) : \E j \in 1..Len(queue[f]) : queue'[f][i] = queue[f][j]
                 /\ queue'[f] # <<>> => queue[f] # <<>>
<1>1. UNCHANGED <<forwards, task>>
    BY DEF ClaimStep, StartClaim, AcquireClaim, CheckClaim, WakeClaim, TimeoutClaim, EndSplice,
           forwardVars, conduitVars
<1>2. \A f \in Forwards : queue[f] \in Seq(Conduits) /\ Len(queue[f]) \in Nat
    BY DEF TypeOK, ForwardTypes
<1>3. CASE UNCHANGED queue
    BY <1>1, <1>2, <1>3
<1>4. CASE CheckClaim(k) /\ queue[claim[k].fwd] # <<>>
                         /\ queue' = [queue EXCEPT ![claim[k].fwd] = Tail(@)]
    <2>. DEFINE g == claim[k].fwd
    <2>1. g \in Forwards
        BY <1>4 DEF CheckClaim, TypeOK, ClaimTypes
    <2>2. queue'[g] = Tail(queue[g]) /\ \A f \in Forwards : f # g => queue'[f] = queue[f]
        BY <1>4, <2>1 DEF TypeOK, ForwardTypes
    <2>3. /\ Len(Tail(queue[g])) = Len(queue[g]) - 1 /\ Len(queue[g]) > 0
          /\ \A i \in 1..(Len(queue[g]) - 1) : Tail(queue[g])[i] = queue[g][i + 1]
        BY <1>2, <1>4, <2>1
    <2>. HIDE DEF g
    <2>4. /\ Len(queue'[g]) \in Nat
          /\ \A i \in 1..Len(queue'[g]) : \E j \in 1..Len(queue[g]) : queue'[g][i] = queue[g][j]
        BY <1>2, <2>1, <2>2, <2>3
    <2>5. queue[g] # <<>>
        BY <1>4 DEF g
    <2>. QED BY <1>1, <1>2, <2>1, <2>2, <2>4, <2>5
<1>. QED BY <1>3, <1>4 DEF ClaimStep, StartClaim, AcquireClaim, CheckClaim, WakeClaim,
                           TimeoutClaim, EndSplice, forwardVars

\* Every registration has a running owner, no forward has two, and nothing waits
\* for a forward that cannot be claimed.
LEMMA OwnersKept ==
    ASSUME TypeOK, Ids, MuxBooksAgree, ForwardsHaveOwners, [Next]_vars
    PROVE  ForwardsHaveOwners'
<1>. DEFINE Same == UNCHANGED <<task, forwards, queue>>
<1>1. CASE Same
    BY <1>1 DEF ForwardsHaveOwners, IsClaimable, Registered
<1>2. CASE \E c \in Conduits : RegisterConduit(c)
    BY <1>2 DEF RegisterConduit, forwardVars, ForwardsHaveOwners, IsClaimable, Registered, TypeOK, ConduitTypes
<1>3. CASE \E c \in Conduits : Leaves(c)
    <2>1. PICK c \in Conduits : Leaves(c)
        BY <1>3
    <2>2. \A d \in Conduits \ {c} : task'[d] = task[d]
        BY <2>1 DEF Leaves, TypeOK, ConduitTypes
    <2>3. \A r \in forwards' : task'[r.owner] = "up"
        BY <2>1, <2>2, LeaveEffect DEF ForwardsHaveOwners, TypeOK, ForwardTypes, ForwardRec
    <2>4. \A r1, r2 \in forwards' : r1.fwd = r2.fwd => r1 = r2
        BY <2>1, LeaveEffect DEF ForwardsHaveOwners
    <2>5. ASSUME NEW f \in Forwards, queue'[f] # <<>>
          PROVE  IsClaimable(f)'
        <3>1. queue[f] # <<>> /\ \A r \in forwards : r.fwd = f => r.owner # c
            BY <2>1, <2>5, LeaveEffect
        <3>2. PICK r \in forwards : r.fwd = f /\ r.token # None
            BY <3>1 DEF ForwardsHaveOwners, IsClaimable, Registered
        <3>3. r \in forwards'
            BY <2>1, <3>1, <3>2, LeaveEffect
        <3>. QED BY <3>2, <3>3 DEF IsClaimable, Registered
    <2>. QED BY <2>3, <2>4, <2>5 DEF ForwardsHaveOwners
<1>4. (\E c \in Conduits : ReceiveInbound(c)) => Same
    BY DEF ReceiveInbound, conduitVars, muxVars, forwardVars, driveVars, claimVars
<1>5. (\E c \in Conduits : \E kind \in Kinds : \E arg : Asks(c, kind, arg)) => Same
    BY DEF Asks, SendRequest, conduitVars, muxVars, forwardVars, driveVars, claimVars
<1>6. CASE \E w \in wire : \E ans : Answered(w, ans)
    <2>1. PICK w, ans : w \in wire /\ Answered(w, ans)
        BY <1>6
    <2>2. ans \in Answers(w.kind)
        BY <2>1 DEF Answered
    <2>. DEFINE Shut == ClosedBy(w.id, ans)
                Seated == NewSeats(w.id, ans)
    <2>3. /\ forwards' = {r \in forwards : r.fwd \notin Shut} \cup Seated
          /\ queue' = [f \in Forwards |-> IF f \in Shut THEN <<>> ELSE queue[f]]
          /\ UNCHANGED task
        BY <2>1, AnswerEffect
    <2>4. /\ \A r \in Seated : r.owner \in Asked(w.id) /\ Registered(r.fwd) = {}
          /\ \A r1, r2 \in Seated : r1 = r2
        BY <2>2, NewSeat DEF TypeOK
    <2>5. \A c \in Asked(w.id) : task[c] = "up"
        BY DEF Asked, MuxBooksAgree
    <2>. HIDE DEF Shut, Seated
    <2>6. \A r \in forwards' : task'[r.owner] = "up"
        BY <2>3, <2>4, <2>5 DEF ForwardsHaveOwners
    <2>7. \A r \in forwards : \A s \in Seated : r.fwd # s.fwd
        BY <2>4 DEF Registered
    <2>8. \A r1, r2 \in forwards' : r1.fwd = r2.fwd => r1 = r2
        BY <2>3, <2>4, <2>7 DEF ForwardsHaveOwners
    <2>9. ASSUME NEW f \in Forwards, queue'[f] # <<>>
          PROVE  IsClaimable(f)'
        <3>1. queue[f] # <<>> /\ f \notin Shut
            BY <2>3, <2>9
        <3>2. PICK r \in forwards : r.fwd = f /\ r.token # None
            BY <3>1 DEF ForwardsHaveOwners, IsClaimable, Registered
        <3>3. r \in forwards'
            BY <2>3, <3>1, <3>2
        <3>. QED BY <3>2, <3>3 DEF IsClaimable, Registered
    <2>. QED BY <2>6, <2>8, <2>9 DEF ForwardsHaveOwners
<1>7. (\E targets \in SUBSET Conduits : DeliverEvent(targets)) => Same
    BY DEF DeliverEvent, conduitVars, muxVars, forwardVars, driveVars, claimVars
<1>8. (MarkDead) => Same
    BY DEF MarkDead, conduitVars, muxVars, forwardVars, driveVars, claimVars
<1>9. (DriveEnds) => Same
    BY DEF DriveEnds, conduitVars, muxVars, forwardVars, driveVars, claimVars
<1>10. CASE \E f \in Forwards : AdminCloseForward(f)
    <2>1. PICK f \in Forwards : AdminCloseForward(f)
        BY <1>10
    <2>2. /\ forwards' = {r \in forwards : r.fwd # f} /\ UNCHANGED task
          /\ \A g \in Forwards : queue'[g] = IF g = f THEN <<>> ELSE queue[g]
        BY <2>1 DEF AdminCloseForward, conduitVars, TypeOK, ForwardTypes
    <2>. QED BY <2>2 DEF ForwardsHaveOwners, IsClaimable, Registered
<1>11. CASE \E f \in Forwards : DeliverTcpAccepted(f)
    <2>1. PICK f \in Forwards : DeliverTcpAccepted(f)
        BY <1>11
    <2>2. /\ IsClaimable(f) /\ UNCHANGED <<forwards, task>>
          /\ \A g \in Forwards : g # f => queue'[g] = queue[g]
        BY <2>1 DEF DeliverTcpAccepted, conduitVars, TypeOK, ForwardTypes
    <2>. QED BY <2>2 DEF ForwardsHaveOwners, IsClaimable, Registered
<1>12. CASE \E keep \in [Forwards -> 0..MaxTunnels] : SweepExpiredArrivals(keep)
    <2>1. PICK keep \in [Forwards -> 0..MaxTunnels] : SweepExpiredArrivals(keep)
        BY <1>12
    <2>2. UNCHANGED <<forwards, task>>
        BY <2>1 DEF SweepExpiredArrivals, conduitVars
    <2>3. \A f \in Forwards : queue'[f] # <<>> => queue[f] # <<>>
        BY <2>1, ExpireEffect
    <2>. QED BY <2>2, <2>3 DEF ForwardsHaveOwners, IsClaimable, Registered
<1>13. CASE \E k \in Claims : ClaimStep(k)
    <2>1. PICK k \in Claims : ClaimStep(k)
        BY <1>13
    <2>2. UNCHANGED <<forwards, task>> /\ \A f \in Forwards : queue'[f] # <<>> => queue[f] # <<>>
        BY <2>1, ClaimTakes
    <2>. QED BY <2>2 DEF ForwardsHaveOwners, IsClaimable, Registered
<1>14. (UNCHANGED vars) => Same
    BY DEF vars, conduitVars, muxVars, forwardVars, driveVars, claimVars
<1>. HIDE DEF Same, vars
<1>. QED BY <1>1, <1>2, <1>3, <1>4, <1>5, <1>6, <1>7, <1>8, <1>9, <1>10, <1>11, <1>12, <1>13, <1>14, Steps

\* Seats stay their owners', and what waits for a seat waits for its owner.
LEMMA SeatsKept ==
    ASSUME TypeOK, Ids, ForwardsHaveOwners, Seats, [Next]_vars
    PROVE  Seats'
<1>. DEFINE Same == UNCHANGED <<forwards, queue>>
<1>1. CASE Same
    BY <1>1 DEF Seats
<1>2. (\E c \in Conduits : RegisterConduit(c)) => Same
    BY DEF RegisterConduit, conduitVars, muxVars, forwardVars, driveVars, claimVars
<1>3. CASE \E c \in Conduits : Leaves(c)
    <2>1. PICK c \in Conduits : Leaves(c)
        BY <1>3
    <2>2. forwards' \in SUBSET forwards
        BY <2>1, LeaveEffect
    <2>3. \A f \in Forwards : queue'[f] \in {queue[f], <<>>}
        BY <2>1, LeaveEffect
    <2>. QED BY <2>2, <2>3 DEF Seats
<1>4. (\E c \in Conduits : ReceiveInbound(c)) => Same
    BY DEF ReceiveInbound, conduitVars, muxVars, forwardVars, driveVars, claimVars
<1>5. (\E c \in Conduits : \E kind \in Kinds : \E arg : Asks(c, kind, arg)) => Same
    BY DEF Asks, SendRequest, conduitVars, muxVars, forwardVars, driveVars, claimVars
<1>6. CASE \E w \in wire : \E ans : Answered(w, ans)
    <2>1. PICK w, ans : w \in wire /\ Answered(w, ans)
        BY <1>6
    <2>2. ans \in Answers(w.kind)
        BY <2>1 DEF Answered
    <2>. DEFINE Shut == ClosedBy(w.id, ans)
                Seated == NewSeats(w.id, ans)
    <2>3. /\ forwards' = {r \in forwards : r.fwd \notin Shut} \cup Seated
          /\ queue' = [f \in Forwards |-> IF f \in Shut THEN <<>> ELSE queue[f]]
        BY <2>1, AnswerEffect
    <2>4. \A r \in Seated : r.token \in {r.owner, None} /\ Registered(r.fwd) = {} /\ r.fwd \in Forwards
        BY <2>2, NewSeat DEF TypeOK, ForwardRec
    <2>. HIDE DEF Shut, Seated
    <2>5. \A r \in forwards' : r.token \in {r.owner, None}
        BY <2>3, <2>4 DEF Seats
    <2>6. \A f \in Forwards : queue'[f] \in {queue[f], <<>>}
        BY <2>3
    <2>7. \A r \in Seated : queue'[r.fwd] = <<>>
        BY <2>4, <2>6 DEF ForwardsHaveOwners, IsClaimable
    <2>8. ASSUME NEW f \in Forwards, NEW i \in 1..Len(queue'[f]), NEW r \in forwards', r.fwd = f
          PROVE  queue'[f][i] = r.owner
        <3>1. queue'[f] # <<>>
            BY <2>8
        <3>2. r \in forwards /\ queue'[f] = queue[f]
            BY <2>3, <2>6, <2>7, <2>8, <3>1
        <3>. QED BY <2>8, <3>2 DEF Seats
    <2>. QED BY <2>5, <2>8 DEF Seats
<1>7. (\E targets \in SUBSET Conduits : DeliverEvent(targets)) => Same
    BY DEF DeliverEvent, conduitVars, muxVars, forwardVars, driveVars, claimVars
<1>8. (MarkDead) => Same
    BY DEF MarkDead, conduitVars, muxVars, forwardVars, driveVars, claimVars
<1>9. (DriveEnds) => Same
    BY DEF DriveEnds, conduitVars, muxVars, forwardVars, driveVars, claimVars
<1>10. CASE \E f \in Forwards : AdminCloseForward(f)
    <2>1. PICK f \in Forwards : AdminCloseForward(f)
        BY <1>10
    <2>2. /\ forwards' \in SUBSET forwards
          /\ \A g \in Forwards : queue'[g] \in {queue[g], <<>>}
        BY <2>1 DEF AdminCloseForward, TypeOK, ForwardTypes
    <2>. QED BY <2>2 DEF Seats
<1>11. CASE \E f \in Forwards : DeliverTcpAccepted(f)
    <2>1. PICK f \in Forwards : DeliverTcpAccepted(f)
        BY <1>11
    <2>2. PICK o \in Conduits : /\ o = CHOOSE x \in Conduits : IsForwardOwner(f, x)
                                /\ IsForwardOwner(f, o)
        BY <2>1, ClaimableOwned DEF DeliverTcpAccepted, TypeOK
    <2>3. UNCHANGED forwards /\ queue' = [queue EXCEPT ![f] = Append(@, o)]
        <3>1. UNCHANGED forwards
            BY <2>1 DEF DeliverTcpAccepted
        <3>2. queue' = [queue EXCEPT ![f] = Append(queue[f], CHOOSE x \in Conduits : IsForwardOwner(f, x))]
            BY <2>1, Zenon DEF DeliverTcpAccepted
        <3>. QED BY <2>2, <3>1, <3>2, Zenon
    <2>4. \A r \in forwards : r.fwd = f => r.owner = o
        BY <2>2 DEF IsForwardOwner, Registered, ForwardsHaveOwners
    <2>5. queue[f] \in Seq(Conduits)
        BY DEF TypeOK, ForwardTypes
    <2>6. /\ Len(Append(queue[f], o)) = Len(queue[f]) + 1 /\ Len(queue[f]) \in Nat
          /\ Append(queue[f], o)[Len(queue[f]) + 1] = o
          /\ \A i \in 1..Len(queue[f]) : Append(queue[f], o)[i] = queue[f][i]
        BY <2>5
    <2>7. queue'[f] = Append(queue[f], o) /\ \A g \in Forwards : g # f => queue'[g] = queue[g]
        <3>1. PICK v : v = Append(queue[f], o)
            OBVIOUS
        <3>2. queue' = [queue EXCEPT ![f] = v]
            BY <2>3, <3>1
        <3>. QED BY <3>1, <3>2 DEF TypeOK, ForwardTypes
    <2>8. \A i \in 1..Len(queue'[f]) : queue'[f][i] = o \/ i \in 1..Len(queue[f])
        BY <2>6, <2>7
    <2>9. \A i \in 1..Len(queue'[f]) : \A r \in forwards : r.fwd = f => queue'[f][i] = r.owner
        BY <2>4, <2>6, <2>7, <2>8 DEF Seats
    <2>10. \A g \in Forwards : \A i \in 1..Len(queue'[g]) : \A r \in forwards :
              r.fwd = g => queue'[g][i] = r.owner
        BY <2>7, <2>9 DEF Seats
    <2>. QED BY <2>3, <2>10 DEF Seats
<1>12. CASE \E keep \in [Forwards -> 0..MaxTunnels] : SweepExpiredArrivals(keep)
    <2>1. PICK keep \in [Forwards -> 0..MaxTunnels] : SweepExpiredArrivals(keep)
        BY <1>12
    <2>2. UNCHANGED forwards
        BY <2>1 DEF SweepExpiredArrivals
    <2>3. \A f \in Forwards : \A i \in 1..Len(queue'[f]) :
              \E j \in 1..Len(queue[f]) : queue'[f][i] = queue[f][j]
        BY <2>1, ExpireEffect
    <2>. QED BY <2>2, <2>3 DEF Seats
<1>13. CASE \E k \in Claims : ClaimStep(k)
    <2>1. PICK k \in Claims : ClaimStep(k)
        BY <1>13
    <2>2. UNCHANGED forwards
        BY <2>1, ClaimTakes
    <2>3. \A f \in Forwards : \A i \in 1..Len(queue'[f]) :
              \E j \in 1..Len(queue[f]) : queue'[f][i] = queue[f][j]
        BY <2>1, ClaimTakes
    <2>. QED BY <2>2, <2>3 DEF Seats
<1>14. (UNCHANGED vars) => Same
    BY DEF vars, conduitVars, muxVars, forwardVars, driveVars, claimVars
<1>. HIDE DEF Same, vars
<1>. QED BY <1>1, <1>2, <1>3, <1>4, <1>5, <1>6, <1>7, <1>8, <1>9, <1>10, <1>11, <1>12, <1>13, <1>14, Steps

-----------------------------------------------------------------------------
(* Claims *)

Waiting == {"enabled", "parked"}

\* ClaimPool::try_acquire, when it succeeds.
Acquired(owner) ==
    /\ pool.perOwner[owner] < MaxPerConduit
    /\ pool' = [total |-> pool.total + 1, perOwner |-> [pool.perOwner EXCEPT ![owner] = @ + 1]]

\* A step of claim k makes it q; what the step asks of and does to the pool and
\* the queue.
Becomes(k, q) ==
    /\ q \in ClaimRec
    /\ claim' = [claim EXCEPT ![k] = q]
    /\ q.st = "granted" =>
           /\ q.token = claim[k].token /\ claim[k].fwd \in Forwards
           /\ AdmitsClaim(claim[k].fwd, claim[k].token)
           /\ queue[claim[k].fwd] # <<>> /\ q.got = Head(queue[claim[k].fwd])
    /\ q.st = "parked" => queue[q.fwd] = <<>> /\ UNCHANGED queue
    /\ \/ /\ claim[k].st \in Waiting <=> q.st \in Waiting
          /\ q.st \in Waiting => q.bucket = claim[k].bucket
          /\ UNCHANGED pool
       \/ /\ claim[k].st \notin Waiting /\ q.st \in Waiting
          /\ q.bucket = claim[k].bucket
          /\ Acquired(claim[k].bucket)
       \/ /\ claim[k].st \in Waiting /\ q.st \notin Waiting
          /\ Release(claim[k].bucket)

LEMMA ClaimEffect ==
    ASSUME TypeOK, NEW k \in Claims, ClaimStep(k)
    PROVE  \E q : Becomes(k, q)
<1>1. claim[k] \in ClaimRec /\ claim[k].bucket \in Owners
    BY DEF TypeOK, ClaimTypes, ClaimRec
<1>2. ASSUME NEW f \in Forwards, NEW token \in Conduits, StartClaim(k, f, token)
      PROVE  \E q : Becomes(k, q)
    <2>1. PICK owner \in Owners :
              SetClaim(k, [Idle EXCEPT !.st = "lookup", !.fwd = f, !.token = token,
                                       !.bucket = owner])
        BY <1>2 DEF StartClaim, Owners
    <2>2. PICK q : q = [Idle EXCEPT !.st = "lookup", !.fwd = f, !.token = token, !.bucket = owner]
        OBVIOUS
    <2>3. q \in ClaimRec /\ q.st = "lookup"
        BY <2>2, IdleClaim DEF ClaimRec, ClaimStates, Owners
    <2>4. claim[k].st = "idle" /\ UNCHANGED pool
        BY <1>2 DEF StartClaim
    <2>5. Becomes(k, q)
        BY <2>1, <2>2, <2>3, <2>4 DEF Becomes, SetClaim, Waiting
    <2>. QED BY <2>5
<1>3. CASE AcquireClaim(k)
    <2>1. claim[k].st = "lookup"
        BY <1>3 DEF AcquireClaim
    <2>2. CASE pool.total < MaxParked /\ pool.perOwner[claim[k].bucket] < MaxPerConduit
        <3>1. PICK q : q = [claim[k] EXCEPT !.st = "enabled"]
            OBVIOUS
        <3>2. q \in ClaimRec /\ q.st = "enabled" /\ q.bucket = claim[k].bucket
            BY <1>1, <3>1, MovedClaim DEF ClaimStates
        <3>3. Becomes(k, q)
            BY <1>3, <2>1, <2>2, <3>1, <3>2 DEF Becomes, SetClaim, Waiting, AcquireClaim, Acquired
        <3>. QED BY <3>3
    <2>3. CASE ~(pool.total < MaxParked /\ pool.perOwner[claim[k].bucket] < MaxPerConduit)
        <3>1. Becomes(k, Idle)
            BY <1>3, <2>1, <2>3, IdleClaim DEF Becomes, SetClaim, Waiting, AcquireClaim
        <3>. QED BY <3>1
    <2>. QED BY <2>2, <2>3
<1>4. CASE CheckClaim(k)
    <2>. DEFINE f == claim[k].fwd
    <2>1. claim[k].st = "enabled" /\ f \in Forwards
        BY <1>4 DEF CheckClaim, TypeOK, ClaimTypes
    <2>2. CASE ~AdmitsClaim(f, claim[k].token)
        <3>1. Becomes(k, Idle)
            BY <1>4, <2>1, <2>2, IdleClaim DEF Becomes, SetClaim, Waiting, CheckClaim
        <3>. QED BY <3>1
    <2>3. CASE AdmitsClaim(f, claim[k].token) /\ queue[f] # <<>>
        <3>1. PICK q : q = [claim[k] EXCEPT !.st = "granted", !.got = Head(queue[f])]
            OBVIOUS
        <3>2. Head(queue[f]) \in Owners
            BY <2>1, <2>3 DEF TypeOK, ForwardTypes, Owners
        <3>3. /\ q \in ClaimRec /\ q.st = "granted" /\ q.token = claim[k].token
              /\ q.got = Head(queue[f])
            BY <1>1, <3>1, <3>2 DEF ClaimRec, ClaimStates
        <3>4. claim' = [claim EXCEPT ![k] = q] /\ Release(claim[k].bucket)
            BY <1>4, <2>3, <3>1 DEF SetClaim, CheckClaim
        <3>5. Becomes(k, q)
            BY <2>1, <2>3, <3>3, <3>4 DEF Becomes, Waiting
        <3>. QED BY <3>5
    <2>4. CASE AdmitsClaim(f, claim[k].token) /\ queue[f] = <<>>
        <3>1. PICK q : q = [claim[k] EXCEPT !.st = "parked"]
            OBVIOUS
        <3>2. /\ q \in ClaimRec /\ q.st = "parked" /\ q.bucket = claim[k].bucket
              /\ q.fwd = claim[k].fwd
            BY <1>1, <3>1, MovedClaim DEF ClaimStates
        <3>3. claim' = [claim EXCEPT ![k] = q] /\ UNCHANGED <<queue, pool>>
            BY <1>4, <2>4, <3>1 DEF SetClaim, CheckClaim
        <3>4. Becomes(k, q)
            BY <2>1, <2>4, <3>2, <3>3 DEF Becomes, Waiting
        <3>. QED BY <3>4
    <2>. QED BY <2>2, <2>3, <2>4
<1>5. CASE WakeClaim(k)
    <2>1. PICK q : q = [claim[k] EXCEPT !.st = "enabled", !.notified = FALSE]
        OBVIOUS
    <2>2. q \in ClaimRec /\ q.st = "enabled" /\ q.bucket = claim[k].bucket
        BY <1>1, <2>1, WokenClaim
    <2>3. claim[k].st = "parked" /\ UNCHANGED pool /\ claim' = [claim EXCEPT ![k] = q]
        BY <1>5, <2>1 DEF WakeClaim, SetClaim
    <2>4. Becomes(k, q)
        BY <2>2, <2>3 DEF Becomes, Waiting
    <2>. QED BY <2>4
<1>6. CASE TimeoutClaim(k)
    <2>1. Becomes(k, Idle)
        BY <1>6, IdleClaim DEF Becomes, SetClaim, Waiting, TimeoutClaim
    <2>. QED BY <2>1
<1>7. CASE EndSplice(k)
    <2>1. Becomes(k, Idle)
        BY <1>7, IdleClaim DEF Becomes, SetClaim, Waiting, EndSplice
    <2>. QED BY <2>1
<1>. QED BY <1>2, <1>3, <1>4, <1>5, <1>6, <1>7 DEF ClaimStep

\* A claim gets an arrival of the CLI whose token it shows.
LEMMA NoMisdeliveryKept ==
    ASSUME TypeOK, ForwardsHaveOwners, Seats, NoMisdelivery, [Next]_vars
    PROVE  NoMisdelivery'
<1>. DEFINE Same == UNCHANGED <<claim>>
<1>1. CASE Same
    BY <1>1 DEF NoMisdelivery
<1>2. (\E c \in Conduits : RegisterConduit(c)) => Same
    BY DEF RegisterConduit, conduitVars, muxVars, forwardVars, driveVars, claimVars
<1>3. CASE \E c \in Conduits : Leaves(c)
    <2>1. claim' = NotifyWaiters
        BY <1>3 DEF Leaves, Unregister
    <2>2. claim \in [Claims -> ClaimRec]
        BY DEF TypeOK, ClaimTypes
    <2>. QED BY <2>1, <2>2, NotifyEffect DEF NoMisdelivery
<1>4. (\E c \in Conduits : ReceiveInbound(c)) => Same
    BY DEF ReceiveInbound, conduitVars, muxVars, forwardVars, driveVars, claimVars
<1>5. (\E c \in Conduits : \E kind \in Kinds : \E arg : Asks(c, kind, arg)) => Same
    BY DEF Asks, SendRequest, conduitVars, muxVars, forwardVars, driveVars, claimVars
<1>6. (\E w \in wire : \E ans : Answered(w, ans)) => Same
    BY DEF Answered, DeliverResponse, conduitVars, muxVars, forwardVars, driveVars, claimVars
<1>7. (\E targets \in SUBSET Conduits : DeliverEvent(targets)) => Same
    BY DEF DeliverEvent, conduitVars, muxVars, forwardVars, driveVars, claimVars
<1>8. (MarkDead) => Same
    BY DEF MarkDead, conduitVars, muxVars, forwardVars, driveVars, claimVars
<1>9. (DriveEnds) => Same
    BY DEF DriveEnds, conduitVars, muxVars, forwardVars, driveVars, claimVars
<1>10. CASE \E f \in Forwards : AdminCloseForward(f)
    <2>1. claim' = NotifyWaiters
        BY <1>10 DEF AdminCloseForward
    <2>2. claim \in [Claims -> ClaimRec]
        BY DEF TypeOK, ClaimTypes
    <2>. QED BY <2>1, <2>2, NotifyEffect DEF NoMisdelivery
<1>11. CASE \E f \in Forwards : DeliverTcpAccepted(f)
    <2>1. claim' = NotifyWaiters
        BY <1>11 DEF DeliverTcpAccepted
    <2>2. claim \in [Claims -> ClaimRec]
        BY DEF TypeOK, ClaimTypes
    <2>. QED BY <2>1, <2>2, NotifyEffect DEF NoMisdelivery
<1>12. (\E keep \in [Forwards -> 0..MaxTunnels] : SweepExpiredArrivals(keep)) => Same
    BY DEF SweepExpiredArrivals, conduitVars, muxVars, forwardVars, driveVars, claimVars
<1>13. CASE \E k \in Claims : ClaimStep(k)
    <2>1. PICK k \in Claims : ClaimStep(k)
        BY <1>13
    <2>2. PICK q : Becomes(k, q)
        BY <2>1, ClaimEffect
    <2>3. q.st = "granted" => q.got = q.token
        <3>. SUFFICES ASSUME q.st = "granted" PROVE q.got = q.token
            OBVIOUS
        <3>. DEFINE f == claim[k].fwd
        <3>1. /\ q.token = claim[k].token /\ f \in Forwards /\ AdmitsClaim(f, claim[k].token)
              /\ queue[f] # <<>> /\ q.got = Head(queue[f])
            BY <2>2 DEF Becomes
        <3>2. PICK r \in forwards : r.fwd = f /\ r.token = claim[k].token /\ r.token # None
            BY <3>1 DEF AdmitsClaim, Registered
        <3>3. r.token = r.owner
            BY <3>2 DEF Seats
        <3>4. queue[f] \in Seq(Conduits)
            BY <3>1 DEF TypeOK, ForwardTypes
        <3>5. 1 \in 1..Len(queue[f]) /\ Head(queue[f]) = queue[f][1]
            BY <3>1, <3>4
        <3>6. queue[f][1] = r.owner
            BY <3>1, <3>2, <3>5 DEF Seats
        <3>. QED BY <3>1, <3>2, <3>3, <3>5, <3>6
    <2>4. claim' = [claim EXCEPT ![k] = q]
        BY <2>2 DEF Becomes
    <2>. QED BY <2>3, <2>4 DEF NoMisdelivery, TypeOK, ClaimTypes
<1>14. (UNCHANGED vars) => Same
    BY DEF vars, conduitVars, muxVars, forwardVars, driveVars, claimVars
<1>. HIDE DEF Same, vars
<1>. QED BY <1>1, <1>2, <1>3, <1>4, <1>5, <1>6, <1>7, <1>8, <1>9, <1>10, <1>11, <1>12, <1>13, <1>14, Steps

\* A claim that sleeps unrung has nothing to take.
LEMMA NoLostWakeupKept ==
    ASSUME TypeOK, Ids, ForwardsHaveOwners, NoLostWakeup, [Next]_vars
    PROVE  NoLostWakeup'
<1>. DEFINE Same == UNCHANGED <<claim, forwards, queue>>
<1>1. CASE Same
    BY <1>1 DEF NoLostWakeup, AdmitsClaim, Registered
<1>2. (\E c \in Conduits : RegisterConduit(c)) => Same
    BY DEF RegisterConduit, conduitVars, muxVars, forwardVars, driveVars, claimVars
<1>3. CASE \E c \in Conduits : Leaves(c)
    <2>1. claim' = NotifyWaiters
        BY <1>3 DEF Leaves, Unregister
    <2>2. claim \in [Claims -> ClaimRec]
        BY DEF TypeOK, ClaimTypes
    <2>3. \A k \in Claims : claim'[k].st = "parked" => claim'[k].notified
        BY <2>1, <2>2, NotifyEffect
    <2>. QED BY <2>3 DEF NoLostWakeup
<1>4. (\E c \in Conduits : ReceiveInbound(c)) => Same
    BY DEF ReceiveInbound, conduitVars, muxVars, forwardVars, driveVars, claimVars
<1>5. (\E c \in Conduits : \E kind \in Kinds : \E arg : Asks(c, kind, arg)) => Same
    BY DEF Asks, SendRequest, conduitVars, muxVars, forwardVars, driveVars, claimVars
<1>6. CASE \E w \in wire : \E ans : Answered(w, ans)
    <2>1. PICK w, ans : w \in wire /\ Answered(w, ans)
        BY <1>6
    <2>2. ans \in Answers(w.kind)
        BY <2>1 DEF Answered
    <2>. DEFINE Shut == ClosedBy(w.id, ans)
                Seated == NewSeats(w.id, ans)
    <2>3. /\ forwards' = {r \in forwards : r.fwd \notin Shut} \cup Seated
          /\ queue' = [f \in Forwards |-> IF f \in Shut THEN <<>> ELSE queue[f]]
          /\ UNCHANGED claim
        BY <2>1, AnswerEffect
    <2>4. \A r \in Seated : Registered(r.fwd) = {}
        BY <2>2, NewSeat DEF TypeOK
    <2>. HIDE DEF Shut, Seated
    <2>. SUFFICES ASSUME NEW k \in Claims, claim[k].st = "parked", ~claim[k].notified,
                         AdmitsClaim(claim[k].fwd, claim[k].token)'
                  PROVE  queue'[claim[k].fwd] = <<>>
        BY <2>3 DEF NoLostWakeup
    <2>. DEFINE f == claim[k].fwd
    <2>5. f \in Forwards
        BY DEF TypeOK, ClaimTypes
    <2>6. PICK r \in forwards' : r.fwd = f /\ r.token = claim[k].token /\ claim[k].token # None
        BY <2>3 DEF AdmitsClaim, Registered
    <2>7. CASE r \in forwards
        <3>1. queue[f] = <<>>
            BY <2>6, <2>7 DEF NoLostWakeup, AdmitsClaim, Registered
        <3>. QED BY <2>3, <2>5, <3>1
    <2>8. CASE r \in Seated
        <3>1. queue[f] = <<>>
            BY <2>4, <2>5, <2>6, <2>8 DEF ForwardsHaveOwners, IsClaimable
        <3>. QED BY <2>3, <2>5, <3>1
    <2>. QED BY <2>3, <2>7, <2>8
<1>7. (\E targets \in SUBSET Conduits : DeliverEvent(targets)) => Same
    BY DEF DeliverEvent, conduitVars, muxVars, forwardVars, driveVars, claimVars
<1>8. (MarkDead) => Same
    BY DEF MarkDead, conduitVars, muxVars, forwardVars, driveVars, claimVars
<1>9. (DriveEnds) => Same
    BY DEF DriveEnds, conduitVars, muxVars, forwardVars, driveVars, claimVars
<1>10. CASE \E f \in Forwards : AdminCloseForward(f)
    <2>1. claim' = NotifyWaiters
        BY <1>10 DEF AdminCloseForward
    <2>2. claim \in [Claims -> ClaimRec]
        BY DEF TypeOK, ClaimTypes
    <2>3. \A k \in Claims : claim'[k].st = "parked" => claim'[k].notified
        BY <2>1, <2>2, NotifyEffect
    <2>. QED BY <2>3 DEF NoLostWakeup
<1>11. CASE \E f \in Forwards : DeliverTcpAccepted(f)
    <2>1. claim' = NotifyWaiters
        BY <1>11 DEF DeliverTcpAccepted
    <2>2. claim \in [Claims -> ClaimRec]
        BY DEF TypeOK, ClaimTypes
    <2>3. \A k \in Claims : claim'[k].st = "parked" => claim'[k].notified
        BY <2>1, <2>2, NotifyEffect
    <2>. QED BY <2>3 DEF NoLostWakeup
<1>12. CASE \E keep \in [Forwards -> 0..MaxTunnels] : SweepExpiredArrivals(keep)
    <2>1. PICK keep \in [Forwards -> 0..MaxTunnels] : SweepExpiredArrivals(keep)
        BY <1>12
    <2>2. UNCHANGED <<forwards, claim>>
        BY <2>1 DEF SweepExpiredArrivals, claimVars
    <2>3. \A f \in Forwards : queue'[f] # <<>> => queue[f] # <<>>
        BY <2>1, ExpireEffect
    <2>4. \A k \in Claims : claim[k].st = "parked" => claim[k].fwd \in Forwards
        BY DEF TypeOK, ClaimTypes
    <2>. QED BY <2>2, <2>3, <2>4 DEF NoLostWakeup, AdmitsClaim, Registered
<1>13. CASE \E k \in Claims : ClaimStep(k)
    <2>1. PICK k \in Claims : ClaimStep(k)
        BY <1>13
    <2>2. PICK q : Becomes(k, q)
        BY <2>1, ClaimEffect
    <2>3. UNCHANGED forwards /\ \A f \in Forwards : queue'[f] # <<>> => queue[f] # <<>>
        BY <2>1, ClaimTakes
    <2>4. \A c \in Claims : claim[c].st = "parked" => claim[c].fwd \in Forwards
        BY DEF TypeOK, ClaimTypes
    <2>5. claim'[k] = q /\ \A c \in Claims : c # k => claim'[c] = claim[c]
        BY <2>2 DEF Becomes, TypeOK, ClaimTypes
    <2>6. claim'[k].st = "parked" => queue'[claim'[k].fwd] = <<>>
        BY <2>2, <2>5 DEF Becomes
    <2>7. ASSUME NEW c \in Claims, c # k, claim'[c].st = "parked", ~claim'[c].notified,
                 AdmitsClaim(claim[c].fwd, claim[c].token)'
          PROVE  queue'[claim[c].fwd]= <<>>
        <3>1. AdmitsClaim(claim[c].fwd, claim[c].token)
            BY <2>3, <2>5, <2>7 DEF AdmitsClaim, Registered
        <3>2. claim[c].fwd \in Forwards /\ queue[claim[c].fwd] = <<>>
            BY <2>4, <2>5, <2>7, <3>1 DEF NoLostWakeup
        <3>. QED BY <2>3, <2>5, <2>7, <3>2
    <2>. QED BY <2>5, <2>6, <2>7 DEF NoLostWakeup
<1>14. (UNCHANGED vars) => Same
    BY DEF vars, conduitVars, muxVars, forwardVars, driveVars, claimVars
<1>. HIDE DEF Same, vars
<1>. QED BY <1>1, <1>2, <1>3, <1>4, <1>5, <1>6, <1>7, <1>8, <1>9, <1>10, <1>11, <1>12, <1>13, <1>14, Steps

-----------------------------------------------------------------------------
(* The budgets *)

\* The long polls counted stay within the budget and cover those at the target.
LEMMA PollsKept ==
    ASSUME TypeOK, Polls, [Next]_vars
    PROVE  Polls'
<1>. DEFINE Same == UNCHANGED <<longPoll, wire>>
<1>1. CASE Same
    BY <1>1 DEF Polls
<1>2. (\E c \in Conduits : RegisterConduit(c)) => Same
    BY DEF RegisterConduit, conduitVars, muxVars, forwardVars, driveVars, claimVars
<1>3. CASE \E c \in Conduits : Leaves(c)
    BY <1>3 DEF Leaves, Unregister, Polls
<1>4. (\E c \in Conduits : ReceiveInbound(c)) => Same
    BY DEF ReceiveInbound, conduitVars, muxVars, forwardVars, driveVars, claimVars
<1>5. CASE \E c \in Conduits : \E kind \in Kinds : \E arg : Asks(c, kind, arg)
    <2>1. PICK c, kind, arg : c \in Conduits /\ kind \in Kinds /\ SendRequest(c, kind, arg)
        BY <1>5 DEF Asks
    <2>2. /\ wire' = wire \cup {[id |-> nextId, kind |-> kind]}
          /\ longPoll' = IF kind = "poll" THEN longPoll \cup {nextId} ELSE longPoll
          /\ kind = "poll" => Cardinality(longPoll) < MaxLongPoll
        BY <2>1 DEF SendRequest
    <2>3. IsFiniteSet(longPoll) /\ Cardinality(longPoll) \in Nat /\ MaxLongPoll \in Nat
        BY FS_CardinalityType, Limits DEF Polls
    <2>4. /\ IsFiniteSet(longPoll \cup {nextId})
          /\ Cardinality(longPoll \cup {nextId}) \in {Cardinality(longPoll), Cardinality(longPoll) + 1}
        BY <2>3, FS_AddElement
    <2>5. IsFiniteSet(longPoll') /\ Cardinality(longPoll') <= MaxLongPoll
        <3>1. CASE kind = "poll"
            <4>1. longPoll' = longPoll \cup {nextId} /\ Cardinality(longPoll) < MaxLongPoll
                BY <2>2, <3>1
            <4>. QED BY <2>3, <2>4, <4>1
        <3>2. CASE kind # "poll"
            BY <2>2, <3>2 DEF Polls
        <3>. QED BY <3>1, <3>2
    <2>6. \A w \in wire' : w.kind = "poll" => w.id \in longPoll'
        BY <2>2 DEF Polls
    <2>. QED BY <2>5, <2>6 DEF Polls
<1>6. CASE \E w \in wire : \E ans : Answered(w, ans)
    <2>1. PICK w, ans : w \in wire /\ Answered(w, ans)
        BY <1>6
    <2>2. wire' = {x \in wire : x.id # w.id} /\ longPoll' = longPoll \ {w.id}
        BY <2>1, AnswerEffect
    <2>3. IsFiniteSet(longPoll) /\ Cardinality(longPoll) \in Nat /\ MaxLongPoll \in Nat
        BY FS_CardinalityType, Limits DEF Polls
    <2>4. longPoll' \in SUBSET longPoll
        BY <2>2
    <2>5. /\ IsFiniteSet(longPoll') /\ Cardinality(longPoll') <= Cardinality(longPoll)
          /\ Cardinality(longPoll') \in Nat
        BY <2>3, <2>4, FS_Subset, FS_CardinalityType
    <2>6. Cardinality(longPoll') <= MaxLongPoll
        BY <2>3, <2>5 DEF Polls
    <2>7. \A x \in wire' : x.kind = "poll" => x.id \in longPoll'
        BY <2>2 DEF Polls
    <2>. QED BY <2>5, <2>6, <2>7 DEF Polls
<1>7. (\E targets \in SUBSET Conduits : DeliverEvent(targets)) => Same
    BY DEF DeliverEvent, conduitVars, muxVars, forwardVars, driveVars, claimVars
<1>8. (MarkDead) => Same
    BY DEF MarkDead, conduitVars, muxVars, forwardVars, driveVars, claimVars
<1>9. CASE DriveEnds
    BY <1>9 DEF DriveEnds, Polls
<1>10. CASE \E f \in Forwards : AdminCloseForward(f)
    <2>1. PICK f \in Forwards : AdminCloseForward(f)
        BY <1>10
    <2>2. wire' \in {wire, wire \cup {[id |-> BareId, kind |-> "rfwdClose"]}} /\ UNCHANGED longPoll
        BY <2>1, Zenon DEF AdminCloseForward
    <2>3. \A w \in wire' : w \in wire \/ w.kind = "rfwdClose"
        BY <2>2
    <2>. QED BY <2>2, <2>3 DEF Polls
<1>11. (\E f \in Forwards : DeliverTcpAccepted(f)) => Same
    BY DEF DeliverTcpAccepted, conduitVars, muxVars, forwardVars, driveVars, claimVars
<1>12. (\E keep \in [Forwards -> 0..MaxTunnels] : SweepExpiredArrivals(keep)) => Same
    BY DEF SweepExpiredArrivals, conduitVars, muxVars, forwardVars, driveVars, claimVars
<1>13. (\E k \in Claims : ClaimStep(k)) => Same
    BY DEF ClaimStep, StartClaim, AcquireClaim, CheckClaim, WakeClaim, TimeoutClaim, EndSplice, conduitVars, muxVars, forwardVars, driveVars, claimVars
<1>14. (UNCHANGED vars) => Same
    BY DEF vars, conduitVars, muxVars, forwardVars, driveVars, claimVars
<1>. HIDE DEF Same, vars
<1>. QED BY <1>1, <1>2, <1>3, <1>4, <1>5, <1>6, <1>7, <1>8, <1>9, <1>10, <1>11, <1>12, <1>13, <1>14, Steps

\* Permits are counted where they were taken.
LEMMA PermitsKept ==
    ASSUME TypeOK, Permits, [Next]_vars
    PROVE  Permits'
<1>. DEFINE Same == UNCHANGED <<claim, pool>>
<1>1. CASE Same
    BY <1>1 DEF Permits, Holders, HoldersOf
<1>2. (\E c \in Conduits : RegisterConduit(c)) => Same
    BY DEF RegisterConduit, conduitVars, muxVars, forwardVars, driveVars, claimVars
<1>3. CASE \E c \in Conduits : Leaves(c)
    <2>1. claim' = NotifyWaiters /\ UNCHANGED pool
        BY <1>3 DEF Leaves, Unregister
    <2>2. claim \in [Claims -> ClaimRec]
        BY DEF TypeOK, ClaimTypes
    <2>3. \A k \in Claims : claim'[k].st = claim[k].st /\ claim'[k].bucket = claim[k].bucket
        BY <2>1, <2>2, NotifyEffect
    <2>4. Holders' = Holders
        BY <2>3 DEF Holders
    <2>5. \A o \in Owners : HoldersOf(o)' = HoldersOf(o)
        BY <2>3, <2>4 DEF HoldersOf, Holders
    <2>. QED BY <2>1, <2>4, <2>5 DEF Permits
<1>4. (\E c \in Conduits : ReceiveInbound(c)) => Same
    BY DEF ReceiveInbound, conduitVars, muxVars, forwardVars, driveVars, claimVars
<1>5. (\E c \in Conduits : \E kind \in Kinds : \E arg : Asks(c, kind, arg)) => Same
    BY DEF Asks, SendRequest, conduitVars, muxVars, forwardVars, driveVars, claimVars
<1>6. (\E w \in wire : \E ans : Answered(w, ans)) => Same
    BY DEF Answered, DeliverResponse, conduitVars, muxVars, forwardVars, driveVars, claimVars
<1>7. (\E targets \in SUBSET Conduits : DeliverEvent(targets)) => Same
    BY DEF DeliverEvent, conduitVars, muxVars, forwardVars, driveVars, claimVars
<1>8. (MarkDead) => Same
    BY DEF MarkDead, conduitVars, muxVars, forwardVars, driveVars, claimVars
<1>9. (DriveEnds) => Same
    BY DEF DriveEnds, conduitVars, muxVars, forwardVars, driveVars, claimVars
<1>10. CASE \E f \in Forwards : AdminCloseForward(f)
    <2>1. claim' = NotifyWaiters /\ UNCHANGED pool
        BY <1>10 DEF AdminCloseForward
    <2>2. claim \in [Claims -> ClaimRec]
        BY DEF TypeOK, ClaimTypes
    <2>3. \A k \in Claims : claim'[k].st = claim[k].st /\ claim'[k].bucket = claim[k].bucket
        BY <2>1, <2>2, NotifyEffect
    <2>4. Holders' = Holders
        BY <2>3 DEF Holders
    <2>5. \A o \in Owners : HoldersOf(o)' = HoldersOf(o)
        BY <2>3, <2>4 DEF HoldersOf, Holders
    <2>. QED BY <2>1, <2>4, <2>5 DEF Permits
<1>11. CASE \E f \in Forwards : DeliverTcpAccepted(f)
    <2>1. claim' = NotifyWaiters /\ UNCHANGED pool
        BY <1>11 DEF DeliverTcpAccepted
    <2>2. claim \in [Claims -> ClaimRec]
        BY DEF TypeOK, ClaimTypes
    <2>3. \A k \in Claims : claim'[k].st = claim[k].st /\ claim'[k].bucket = claim[k].bucket
        BY <2>1, <2>2, NotifyEffect
    <2>4. Holders' = Holders
        BY <2>3 DEF Holders
    <2>5. \A o \in Owners : HoldersOf(o)' = HoldersOf(o)
        BY <2>3, <2>4 DEF HoldersOf, Holders
    <2>. QED BY <2>1, <2>4, <2>5 DEF Permits
<1>12. (\E keep \in [Forwards -> 0..MaxTunnels] : SweepExpiredArrivals(keep)) => Same
    BY DEF SweepExpiredArrivals, conduitVars, muxVars, forwardVars, driveVars, claimVars
<1>13. CASE \E k \in Claims : ClaimStep(k)
    <2>1. PICK k \in Claims : ClaimStep(k)
        BY <1>13
    <2>2. PICK q : Becomes(k, q)
        BY <2>1, ClaimEffect
    <2>3. PICK b \in Owners : b = claim[k].bucket
        BY DEF TypeOK, ClaimTypes, ClaimRec
    <2>4. claim'[k] = q /\ \A c \in Claims : c # k => claim'[c] = claim[c]
        BY <2>2 DEF Becomes, TypeOK, ClaimTypes
    <2>5. \A c \in Claims : c # k => claim'[c].st = claim[c].st /\ claim'[c].bucket = claim[c].bucket
        BY <2>4
    <2>6. /\ IsFiniteSet(Holders) /\ Cardinality(Holders) \in Nat
          /\ \A o \in Owners : IsFiniteSet(HoldersOf(o)) /\ Cardinality(HoldersOf(o)) \in Nat
        <3>1. \A o \in Owners : HoldersOf(o) \in SUBSET Holders
            BY DEF HoldersOf
        <3>. QED BY <3>1, FS_Subset, FS_CardinalityType DEF Permits
    <2>7. /\ pool.total \in Int /\ pool.perOwner \in [Owners -> Int]
          /\ MaxPerConduit \in Nat
        BY Limits DEF TypeOK, ClaimTypes
    <2>8. CASE /\ claim[k].st \in Waiting <=> q.st \in Waiting
               /\ q.st \in Waiting => q.bucket = claim[k].bucket
               /\ UNCHANGED pool
        <3>1. Holders' = Holders
            BY <2>4, <2>8 DEF Holders, Waiting
        <3>2. \A o \in Owners : HoldersOf(o)' = HoldersOf(o)
            BY <2>4, <2>8, <3>1 DEF HoldersOf, Holders, Waiting
        <3>. QED BY <2>8, <3>1, <3>2 DEF Permits
    <2>9. CASE /\ claim[k].st \notin Waiting /\ q.st \in Waiting
               /\ q.bucket = claim[k].bucket
               /\ Acquired(claim[k].bucket)
        <3>1. Holders' = Holders \cup {k} /\ k \notin Holders
            BY <2>4, <2>9 DEF Holders, Waiting
        <3>2. \A o \in Owners : o # b => HoldersOf(o)' = HoldersOf(o)
            BY <2>3, <2>4, <2>5, <2>9, <3>1 DEF HoldersOf, Holders
        <3>3. HoldersOf(b)' = HoldersOf(b) \cup {k} /\ k \notin HoldersOf(b)
            BY <2>3, <2>4, <2>5, <2>9, <3>1 DEF HoldersOf, Holders
        <3>4. IsFiniteSet(Holders') /\ Cardinality(Holders') = Cardinality(Holders) + 1
            BY <2>6, <3>1, FS_AddElement
        <3>5. Cardinality(HoldersOf(b)') = Cardinality(HoldersOf(b)) + 1
            BY <2>6, <3>3, FS_AddElement
        <3>6. /\ pool'.total = pool.total + 1 /\ pool'.perOwner[b] = pool.perOwner[b] + 1
              /\ pool.perOwner[b] \in Int /\ pool.perOwner[b] < MaxPerConduit
              /\ \A o \in Owners : o # b => pool'.perOwner[o] = pool.perOwner[o]
            BY <2>7, <2>9, <2>3 DEF Acquired
        <3>7. pool'.total = Cardinality(Holders')
            BY <3>4, <3>6 DEF Permits
        <3>8. pool'.perOwner[b] = Cardinality(HoldersOf(b)') /\ pool'.perOwner[b] <= MaxPerConduit
            BY <2>7, <3>5, <3>6 DEF Permits
        <3>9. \A o \in Owners : o # b => /\ pool'.perOwner[o] = Cardinality(HoldersOf(o)')
                                         /\ pool'.perOwner[o] <= MaxPerConduit
            BY <3>2, <3>6 DEF Permits
        <3>. QED BY <3>4, <3>7, <3>8, <3>9 DEF Permits
    <2>10. CASE /\ claim[k].st \in Waiting /\ q.st \notin Waiting
               /\ Release(claim[k].bucket)
        <3>1. Holders' = Holders \ {k} /\ k \in Holders
            BY <2>4, <2>10 DEF Holders, Waiting
        <3>2. \A o \in Owners : o # b => HoldersOf(o)' = HoldersOf(o)
            BY <2>3, <2>4, <2>5, <2>10, <3>1 DEF HoldersOf, Holders
        <3>3. HoldersOf(b)' = HoldersOf(b) \ {k} /\ k \in HoldersOf(b)
            BY <2>3, <2>4, <2>5, <2>10, <3>1 DEF HoldersOf, Holders
        <3>4. IsFiniteSet(Holders') /\ Cardinality(Holders') = Cardinality(Holders) - 1
            BY <2>6, <3>1, FS_RemoveElement
        <3>5. Cardinality(HoldersOf(b)') = Cardinality(HoldersOf(b)) - 1
            BY <2>6, <3>3, FS_RemoveElement
        <3>6. /\ pool'.total = pool.total - 1 /\ pool'.perOwner[b] = pool.perOwner[b] - 1
              /\ pool.perOwner[b] \in Int
              /\ \A o \in Owners : o # b => pool'.perOwner[o] = pool.perOwner[o]
            BY <2>7, <2>10, <2>3 DEF Release
        <3>7. pool'.total = Cardinality(Holders')
            BY <3>4, <3>6 DEF Permits
        <3>8. pool'.perOwner[b] = Cardinality(HoldersOf(b)') /\ pool'.perOwner[b] <= MaxPerConduit
            BY <2>7, <3>5, <3>6 DEF Permits
        <3>9. \A o \in Owners : o # b => /\ pool'.perOwner[o] = Cardinality(HoldersOf(o)')
                                         /\ pool'.perOwner[o] <= MaxPerConduit
            BY <3>2, <3>6 DEF Permits
        <3>. QED BY <3>4, <3>7, <3>8, <3>9 DEF Permits
    <2>. QED BY <2>2, <2>8, <2>9, <2>10 DEF Becomes
<1>14. (UNCHANGED vars) => Same
    BY DEF vars, conduitVars, muxVars, forwardVars, driveVars, claimVars
<1>. HIDE DEF Same, vars
<1>. QED BY <1>1, <1>2, <1>3, <1>4, <1>5, <1>6, <1>7, <1>8, <1>9, <1>10, <1>11, <1>12, <1>13, <1>14, Steps

-----------------------------------------------------------------------------
(* The death of the hub *)

\* A message put behind HostDead, or taken from before it, leaves it there.
LEMMA ToldStays ==
    ASSUME NEW q \in Seq({"msg", "dead"}), NEW i \in 1..Len(q), q[i] = "dead"
    PROVE  /\ \E j \in 1..Len(Append(q, "msg")) : Append(q, "msg")[j] = "dead"
           /\ Head(q) = "msg" => \E j \in 1..Len(Tail(q)) : Tail(q)[j] = "dead"
<1>1. /\ Len(Append(q, "msg")) = Len(q) + 1 /\ Len(q) \in Nat
      /\ Append(q, "msg")[i] = q[i]
    OBVIOUS
<1>2. i \in 1..Len(Append(q, "msg"))
    BY <1>1
<1>3. ASSUME Head(q) = "msg" PROVE \E j \in 1..Len(Tail(q)) : Tail(q)[j] = "dead"
    <2>1. q # <<>> /\ Head(q) = q[1] /\ i # 1
        BY <1>3
    <2>2. Len(Tail(q)) = Len(q) - 1 /\ \A j \in 1..(Len(q) - 1) : Tail(q)[j] = q[j + 1]
        BY <2>1
    <2>3. i - 1 \in 1..Len(Tail(q)) /\ Tail(q)[i - 1] = q[i]
        BY <1>1, <2>1, <2>2
    <2>. QED BY <2>3
<1>. QED BY <1>1, <1>2, <1>3

\* No conduit of a dead hub is left unaware.
LEMMA HeardKept ==
    ASSUME TypeOK, MuxBooksAgree, Heard, [Next]_vars
    PROVE  Heard'
<1>. DEFINE Same == UNCHANGED <<task, inboxes, inbox, dead, sweep>>
<1>1. CASE Same
    BY <1>1 DEF Heard, Told
<1>2. CASE \E c \in Conduits : RegisterConduit(c)
    <2>1. PICK c \in Conduits : RegisterConduit(c)
        BY <1>2
    <2>2. /\ inbox' = [inbox EXCEPT ![c] = IF dead THEN <<"dead">> ELSE <<>>]
          /\ inboxes' = inboxes \cup {c} /\ task' = [task EXCEPT ![c] = "up"]
          /\ UNCHANGED <<dead, sweep>>
        BY <2>1 DEF RegisterConduit, driveVars
    <2>3. \A d \in Conduits : d # c => inbox'[d] = inbox[d] /\ task'[d] = task[d]
        BY <2>2 DEF TypeOK, ConduitTypes
    <2>4. CASE dead
        <3>1. inbox' = [inbox EXCEPT ![c] = <<"dead">>]
            BY <2>2, <2>4, Zenon
        <3>2. inbox'[c] = <<"dead">>
            BY <3>1 DEF TypeOK, ConduitTypes
        <3>3. Told(c)'
            <4>1. 1 \in 1..Len(<<"dead">>) /\ <<"dead">>[1] = "dead"
                OBVIOUS
            <4>. QED BY <3>2, <4>1 DEF Told
        <3>4. \A d \in inboxes : d # c /\ task[d] = "up" => d \in sweep \/ Told(d)'
            BY <2>3, <2>4 DEF Heard, Told, TypeOK, ConduitTypes
        <3>5. \A d \in inboxes' : task'[d] = "up" => d \in sweep' \/ Told(d)'
            BY <2>2, <2>3, <3>3, <3>4 DEF TypeOK, ConduitTypes
        <3>. QED BY <3>5 DEF Heard
    <2>5. CASE ~dead
        BY <2>2, <2>5, Zenon DEF Heard
    <2>. QED BY <2>4, <2>5
<1>3. CASE \E c \in Conduits : Leaves(c)
    <2>1. PICK c \in Conduits : Leaves(c)
        BY <1>3
    <2>2. /\ inboxes' = inboxes \ {c} /\ UNCHANGED dead
          /\ \A d \in inboxes' : inbox'[d] = inbox[d] /\ task'[d] = task[d]
                                 /\ (d \in sweep => d \in sweep')
        BY <2>1 DEF Leaves, Unregister, TypeOK, ConduitTypes
    <2>. QED BY <2>2 DEF Heard, Told
<1>4. CASE \E c \in Conduits : ReceiveInbound(c)
    <2>1. PICK c \in Conduits : ReceiveInbound(c)
        BY <1>4
    <2>2. /\ inbox[c] # <<>> /\ Head(inbox[c]) = "msg"
          /\ inbox'[c] = Tail(inbox[c]) /\ \A d \in Conduits : d # c => inbox'[d] = inbox[d]
          /\ UNCHANGED <<task, inboxes, dead, sweep>>
        BY <2>1 DEF ReceiveInbound, driveVars, TypeOK, ConduitTypes
    <2>3. Told(c) => Told(c)'
        <3>1. inbox[c] \in Seq({"msg", "dead"})
            BY DEF TypeOK, ConduitTypes
        <3>. SUFFICES ASSUME NEW i \in 1..Len(inbox[c]), inbox[c][i] = "dead"
                      PROVE  Told(c)'
            BY DEF Told
        <3>. QED BY <2>2, <3>1, ToldStays DEF Told
    <2>4. \A d \in inboxes : Told(d) => Told(d)'
        BY <2>2, <2>3 DEF Told, TypeOK, ConduitTypes
    <2>. QED BY <2>2, <2>4 DEF Heard
<1>5. (\E c \in Conduits : \E kind \in Kinds : \E arg : Asks(c, kind, arg)) => Same
    BY DEF Asks, SendRequest, conduitVars, muxVars, forwardVars, driveVars, claimVars
<1>6. CASE \E w \in wire : \E ans : Answered(w, ans)
    <2>1. PICK w, ans : w \in wire /\ Answered(w, ans)
        BY <1>6
    <2>2. /\ inbox' = [c \in Conduits |-> IF c \in Asked(w.id) /\ CanSend(c)
                                          THEN Append(inbox[c], "msg") ELSE inbox[c]]
          /\ UNCHANGED <<task, inboxes, dead, sweep>>
        BY <2>1, AnswerEffect

    <2>3. ASSUME NEW c \in inboxes, Told(c)
          PROVE  Told(c)'
        <3>1. c \in Conduits /\ inbox[c] \in Seq({"msg", "dead"})
            BY DEF TypeOK, ConduitTypes
        <3>2. PICK i \in 1..Len(inbox[c]) : inbox[c][i] = "dead"
            BY <2>3 DEF Told
        <3>3. inbox'[c] \in {inbox[c], Append(inbox[c], "msg")}
            BY <2>2, <3>1
        <3>. QED BY <3>1, <3>2, <3>3, ToldStays DEF Told
    <2>. QED BY <2>2, <2>3 DEF Heard
<1>7. CASE \E targets \in SUBSET Conduits : DeliverEvent(targets)
    <2>1. PICK targets \in SUBSET Conduits : DeliverEvent(targets)
        BY <1>7
    <2>2. /\ inbox' = [c \in Conduits |-> IF c \in targets /\ CanSend(c)
                                          THEN Append(inbox[c], "msg") ELSE inbox[c]]
          /\ UNCHANGED <<task, inboxes, dead, sweep>>
        BY <2>1 DEF DeliverEvent

    <2>3. ASSUME NEW c \in inboxes, Told(c)
          PROVE  Told(c)'
        <3>1. c \in Conduits /\ inbox[c] \in Seq({"msg", "dead"})
            BY DEF TypeOK, ConduitTypes
        <3>2. PICK i \in 1..Len(inbox[c]) : inbox[c][i] = "dead"
            BY <2>3 DEF Told
        <3>3. inbox'[c] \in {inbox[c], Append(inbox[c], "msg")}
            BY <2>2, <3>1
        <3>. QED BY <3>1, <3>2, <3>3, ToldStays DEF Told
    <2>. QED BY <2>2, <2>3 DEF Heard
<1>8. CASE MarkDead
    <2>1. inboxes' = inboxes /\ sweep' = present
        BY <1>8 DEF MarkDead, conduitVars
    <2>. QED BY <2>1 DEF Heard, MuxBooksAgree
<1>9. (DriveEnds) => Same
    BY DEF DriveEnds, conduitVars, muxVars, forwardVars, driveVars, claimVars
<1>10. (\E f \in Forwards : AdminCloseForward(f)) => Same
    BY DEF AdminCloseForward, conduitVars, muxVars, forwardVars, driveVars, claimVars
<1>11. (\E f \in Forwards : DeliverTcpAccepted(f)) => Same
    BY DEF DeliverTcpAccepted, conduitVars, muxVars, forwardVars, driveVars, claimVars
<1>12. (\E keep \in [Forwards -> 0..MaxTunnels] : SweepExpiredArrivals(keep)) => Same
    BY DEF SweepExpiredArrivals, conduitVars, muxVars, forwardVars, driveVars, claimVars
<1>13. (\E k \in Claims : ClaimStep(k)) => Same
    BY DEF ClaimStep, StartClaim, AcquireClaim, CheckClaim, WakeClaim, TimeoutClaim, EndSplice, conduitVars, muxVars, forwardVars, driveVars, claimVars
<1>14. (UNCHANGED vars) => Same
    BY DEF vars, conduitVars, muxVars, forwardVars, driveVars, claimVars
<1>. HIDE DEF Same, vars
<1>. QED BY <1>1, <1>2, <1>3, <1>4, <1>5, <1>6, <1>7, <1>8, <1>9, <1>10, <1>11, <1>12, <1>13, <1>14, Steps

-----------------------------------------------------------------------------
(* The invariant *)

LEMMA HubInit ==
    ASSUME Init
    PROVE  HubInv
<1>. USE DEF Init
<1>1. TypeOK
    <2>1. ConduitTypes /\ MuxTypes /\ ForwardTypes /\ DriveTypes
        <3>1. <<>> \in Seq({"msg", "dead"}) /\ <<>> \in Seq(Conduits)
            OBVIOUS
        <3>2. dead \in BOOLEAN /\ driving \in BOOLEAN
            BY Zenon
        <3>. QED BY <3>1, <3>2 DEF ConduitTypes, MuxTypes, ForwardTypes, DriveTypes
    <2>2. ClaimTypes
        BY IdleClaim DEF ClaimTypes, Owners
    <2>. QED BY <2>1, <2>2 DEF TypeOK
<1>2. Ids /\ MuxBooksAgree /\ Seats
    BY DEF Ids, MuxBooksAgree, Seats
<1>3. ForwardsHaveOwners
    BY DEF ForwardsHaveOwners
<1>4. \A k \in Claims : claim[k].st = "idle"
    BY IdleClaim
<1>5. NoMisdelivery /\ NoLostWakeup
    BY <1>4 DEF NoMisdelivery, NoLostWakeup
<1>6. Polls
    BY FS_EmptySet, Limits DEF Polls
<1>7. Permits
    <2>1. Holders = {} /\ \A o \in Owners : HoldersOf(o) = {}
        BY <1>4 DEF Holders, HoldersOf
    <2>2. pool.total = 0 /\ \A o \in Owners : pool.perOwner[o] = 0
        BY DEF Owners
    <2>3. Cardinality({}) = 0 /\ IsFiniteSet({}) /\ 0 <= MaxPerConduit
        BY FS_EmptySet, Limits
    <2>. HIDE DEF Init
    <2>. QED BY <2>1, <2>2, <2>3 DEF Permits
<1>8. Heard
    BY Zenon DEF Heard
<1>. QED BY <1>1, <1>2, <1>3, <1>5, <1>6, <1>7, <1>8 DEF HubInv

\* The invariant of the hub: every action keeps it.
THEOREM HubInvariant == Spec => []HubInv
<1>1. Init => HubInv
    BY HubInit
<1>2. HubInv /\ [Next]_vars => HubInv'
    <2>. SUFFICES ASSUME HubInv, [Next]_vars PROVE HubInv'
        OBVIOUS
    <2>. USE DEF HubInv
    <2>1. TypeOK'
        BY ConduitTypesKept, MuxTypesKept, ForwardTypesKept, DriveTypesKept, ClaimTypesKept DEF TypeOK
    <2>2. Ids' /\ MuxBooksAgree'
        BY IdsKept, BooksKept
    <2>3. ForwardsHaveOwners' /\ Seats'
        BY OwnersKept, SeatsKept
    <2>4. NoMisdelivery' /\ NoLostWakeup'
        BY NoMisdeliveryKept, NoLostWakeupKept
    <2>5. Polls' /\ Permits' /\ Heard'
        BY PollsKept, PermitsKept, HeardKept
    <2>. QED BY <2>1, <2>2, <2>3, <2>4, <2>5
<1>. QED BY <1>1, <1>2, PTL DEF Spec

\* No registry entry outlives its conduit, a forward has one registration, and
\* arrivals wait only where somebody can claim them (unregister_conduit and
\* deliver_response against late answers, overflow and death).
THEOREM RegistryOwned == Spec => []ForwardsHaveOwners
<1>1. HubInv => ForwardsHaveOwners
    BY DEF HubInv
<1>. QED BY <1>1, HubInvariant, PTL

\* claim_tcp_accepted never hands a stream to a CLI whose token it was not
\* accepted for, whoever registers the forward_id again meanwhile.
THEOREM ClaimsGetTheirOwn == Spec => []NoMisdelivery
<1>1. HubInv => NoMisdelivery
    BY DEF HubInv
<1>. QED BY <1>1, HubInvariant, PTL

\* A parked claim that nobody rang has nothing to take: claim_tcp_accepted enables
\* its waiter before it looks.
THEOREM WakeupsArrive == Spec => []NoLostWakeup
<1>1. HubInv => NoLostWakeup
    BY DEF HubInv
<1>. QED BY <1>1, HubInvariant, PTL

\* Requests in flight, subscriptions and inboxes name only conduits that are
\* registered and run, whoever is thrown out meanwhile (ConduitMux).
THEOREM BooksAgree == Spec => []MuxBooksAgree
<1>1. HubInv => MuxBooksAgree
    BY DEF HubInv
<1>. QED BY <1>1, HubInvariant, PTL

\* The target never holds more long polls than the budget: each one at the target
\* is one the hub counts, under an id of its own.
LEMMA BudgetFollows ==
    ASSUME TypeOK, Polls
    PROVE  LongPollBudget
<1>. DEFINE held == {w \in wire : w.kind = "poll"}
            ids == [w \in held |-> w.id]
<1>1. \A w \in held : w = [id |-> w.id, kind |-> "poll"] /\ w.id \in longPoll
    BY DEF TypeOK, MuxTypes, Polls
<1>2. ids \in [held -> longPoll]
    BY <1>1
<1>3. \A v, w \in held : ids[v] = ids[w] => v = w
    BY <1>1
<1>4. ids \in Injection(held, longPoll)
    BY <1>2, <1>3 DEF Injection, IsInjective
<1>. HIDE DEF ids, held
<1>5. IsFiniteSet(held) /\ Cardinality(held) <= Cardinality(longPoll)
    BY <1>4, FS_Injection DEF Polls
<1>6. /\ Cardinality(held) \in Nat /\ Cardinality(longPoll) \in Nat
      /\ Cardinality(longPoll) <= MaxLongPoll /\ MaxLongPoll \in Nat
    BY <1>5, FS_CardinalityType, Limits DEF Polls
<1>7. Cardinality(held) <= MaxLongPoll
    BY <1>5, <1>6
<1>. QED BY <1>7 DEF LongPollBudget, held

\* MAX_INFLIGHT_LONG_POLL_PER_HUB bounds what the target holds, though the
\* conduits that asked come and go.
THEOREM PollsBounded == Spec => []LongPollBudget
<1>1. HubInv => LongPollBudget
    BY BudgetFollows DEF HubInv
<1>. QED BY <1>1, HubInvariant, PTL

\* ClaimPool counts the permits alive, in all and in the share each was taken from.
THEOREM PoolExact == Spec => []ClaimPoolExact
<1>1. HubInv => ClaimPoolExact
    <2>. SUFFICES ASSUME Permits PROVE ClaimPoolExact
        BY DEF HubInv
    <2>1. \A o \in Owners :
              HoldersOf(o) = {k \in Claims : claim[k].st \in {"enabled", "parked"}
                                             /\ claim[k].bucket = o}
        BY DEF HoldersOf, Holders
    <2>. QED BY <2>1 DEF Permits, ClaimPoolExact, Holders, Owners
<1>. QED BY <1>1, HubInvariant, PTL

\* When mark_dead has returned, every conduit still running hears of it.
THEOREM DeathReachesAll == Spec => []DeadIsHeard
<1>1. HubInv => DeadIsHeard
    <2>1. Heard => DeadIsHeard
        BY DEF Heard, Told, DeadIsHeard
    <2>. QED BY <2>1 DEF HubInv
<1>. QED BY <1>1, HubInvariant, PTL
=============================================================================
