---------------------------- MODULE BrokerProofs ----------------------------
(***************************************************************************)
(* Proofs about the broker, for every number of sessions, handlers and     *)
(* principals and every value of the caps and times:                       *)
(*   - the caps hold whatever opens race (QuotaHeld);                      *)
(*   - a drain that ended in time leaves no session (DrainLeavesNothing);  *)
(*   - a resume token has one winner (OneWinnerPerToken);                  *)
(*   - attachments are counted exactly (AttachCountExact);                 *)
(*   - the reaper is in time: sessions (ReapedInTime), the credentials of  *)
(*     attached ones (LapseIsShort) and of dropped ones                    *)
(*     (NoStrayCredential).                                                *)
(*                                                                         *)
(* Each rests on a strengthening that is inductive: Quotas on Slots (a     *)
(* handler between reserve_slot and its insert holds exactly one slot),    *)
(* Drained on the snapshot of close_all, Tokens on the generations the     *)
(* winners hold.  Steps are of two kinds: those of one handler, and those  *)
(* of the background (actors, reaper, drain, clock), which open no session *)
(* and issue no token.  The times rest on InTime, which says of some       *)
(* moment T, that of the reaper's last Decide, what was not yet due then   *)
(* and how far the clock can be past it.                                   *)
(***************************************************************************)
EXTENDS Broker, FiniteSetTheorems, TLAPS

-----------------------------------------------------------------------------
(* The invariant *)

States == {"none", "live", "closing", "closed", "gone"}
Steps == {"idle", "reserved", "inserted", "verified", "found", "rotated",
          "missed", "ticketed", "attached"}
SessionRec == [st : States, opener : Principals \union {None}, attached : Int,
               base : Nat, exited : BOOLEAN, closeBy : Nat, closedAt : Nat]
CredRec == [gen : Nat, expires : Nat, known : BOOLEAN]
TaskRec == [at : Steps, s : Sessions \union {None}, gen : Nat, until : Nat]
SlotRec == [holder : Handlers, opener : Principals]
DrainRec == [at : {"no", "flagged", "closing", "done", "cut"}, left : SUBSET Sessions]

\* The handler works on a session.
Busy(h) == task[h].at \notin {"idle", "reserved"}
\* The handler redeemed a token, or holds the first attach of its session.
Winner(h) == task[h].at \in {"rotated", "ticketed", "attached"}

\* Types, without the bounds of the instances that are model-checked.
Typed ==
    /\ now \in Nat
    /\ registry \in [Sessions -> SessionRec]
    /\ inFlight \subseteq SlotRec
    /\ cred \in [Sessions -> CredRec]
    /\ drain \in DrainRec
    /\ task \in [Handlers -> TaskRec]
    /\ \A s \in DOMAIN reaper.deadline : reaper.deadline[s] \in Nat
    /\ reaper = [at |-> reaper.at, wake |-> reaper.wake, doomed |-> reaper.doomed,
                 expired |-> reaper.expired, deadline |-> reaper.deadline]
    /\ \A h \in Handlers : Busy(h) => task[h].s \in Sessions

\* A handler is between reserve_slot and the insert exactly while it holds a slot.
Slots ==
    /\ \A slot \in inFlight : task[slot.holder].at = "reserved"
    /\ \A h \in Handlers : task[h].at = "reserved" => \E slot \in inFlight : slot.holder = h
    /\ \A a, b \in inFlight : a.holder = b.holder => a = b

LiveOf(p) == {s \in LiveSessions : registry[s].opener = p}
SlotsOf(p) == {slot \in inFlight : slot.opener = p}

\* The caps count live sessions and reservations together.
Quotas ==
    /\ IsFiniteSet(inFlight)
    /\ Cardinality(LiveSessions) + Cardinality(inFlight) <= MaxSessions
    /\ \A p \in Principals : Cardinality(LiveOf(p)) + Cardinality(SlotsOf(p)) <= MaxPerPrincipal

\* The snapshot of close_all holds every session that is still live.
Drained ==
    /\ drain.at = "closing" => LiveSessions \subseteq drain.left
    /\ DrainLeavesNothing

\* Generations only grow: a token is stored once per session, before anyone else
\* can hold one, and a winner's token is behind the stored one.
Tokens ==
    /\ \A s \in Sessions : registry[s].st = "none" =>
           cred[s].gen = 0 /\ \A h \in Handlers : Busy(h) => task[h].s # s
    /\ \A h \in Handlers : task[h].at = "inserted" =>
           /\ task[h].gen = 0 /\ cred[task[h].s].gen = 0
           /\ \A k \in Handlers : k # h /\ Busy(k) => task[k].s # task[h].s
    /\ \A h \in Handlers : Winner(h) =>
           cred[task[h].s].gen = 0 \/ task[h].gen < cred[task[h].s].gen
    /\ OneWinnerPerToken

BrokerInv == Typed /\ Slots /\ Quotas /\ Drained /\ Tokens

-----------------------------------------------------------------------------
(* What a step may do to sessions and credentials *)

\* No session becomes live that was not, and no id becomes free again.
NoNewSession ==
    \A s \in Sessions :
        /\ registry'[s].st \in {"live", "closing"} =>
              registry[s].st \in {"live", "closing"} /\ registry'[s].opener = registry[s].opener
        /\ registry'[s].st = "none" => registry[s].st = "none"

\* No token is issued or rotated; some may be forgotten.
NoNewToken == \A s \in Sessions : cred'[s].gen = 0 \/ cred'[s].gen = cred[s].gen

\* A step of an actor, the reaper, the drain or the clock.
Background ==
    /\ UNCHANGED <<inFlight, task>>
    /\ now' \in Nat
    /\ registry' \in [Sessions -> SessionRec]
    /\ cred' \in [Sessions -> CredRec]
    /\ drain' \in DrainRec
    /\ \A s \in DOMAIN reaper'.deadline : reaper'.deadline[s] \in Nat
    /\ reaper' = [at |-> reaper'.at, wake |-> reaper'.wake, doomed |-> reaper'.doomed,
                  expired |-> reaper'.expired, deadline |-> reaper'.deadline]
    /\ NoNewSession
    /\ NoNewToken

-----------------------------------------------------------------------------
(* Records *)

\* The constant records have their types.
LEMMA ConstantRecords ==
    /\ NoSession \in SessionRec /\ NoSession.st = "none"
    /\ NoCred \in CredRec /\ NoCred.gen = 0
    /\ Idle \in TaskRec /\ Idle.at = "idle" /\ Idle.gen = 0
  BY DEF NoSession, NoCred, Idle, SessionRec, CredRec, TaskRec, States, Steps, None

\* The record of a new session.
LEMMA FreshSession ==
  ASSUME NEW r \in SessionRec, NEW o \in Principals, NEW t \in Nat
  PROVE  /\ [r EXCEPT !.st = "live", !.base = t, !.opener = o] \in SessionRec
         /\ [r EXCEPT !.st = "live", !.base = t, !.opener = o].st = "live"
         /\ [r EXCEPT !.st = "live", !.base = t, !.opener = o].opener = o
  BY DEF SessionRec, States

\* The updates of a session's record that the actions make.
LEMMA SessionUpdates ==
  ASSUME NEW r \in SessionRec
  PROVE  /\ \A x \in Int : [r EXCEPT !.attached = x] \in SessionRec
         /\ \A x \in Int, y \in Nat : [r EXCEPT !.attached = x, !.base = y] \in SessionRec
         /\ \A y \in Nat : [r EXCEPT !.exited = TRUE, !.base = y] \in SessionRec
         /\ \A y \in Nat : [r EXCEPT !.st = "closing", !.closeBy = y] \in SessionRec
         /\ \A y \in Nat : [r EXCEPT !.st = "closed", !.closedAt = y, !.closeBy = 0] \in SessionRec
         /\ [r EXCEPT !.st = "gone"] \in SessionRec
  BY DEF SessionRec, States

\* Replacing one session's record by one that is no more live than it was.
LEMMA OneSession ==
  ASSUME registry \in [Sessions -> SessionRec], NEW s \in Sessions, NEW r \in SessionRec,
         registry' = [registry EXCEPT ![s] = r],
         r.st \in {"live", "closing"} =>
            registry[s].st \in {"live", "closing"} /\ r.opener = registry[s].opener,
         r.st = "none" => registry[s].st = "none"
  PROVE  registry' \in [Sessions -> SessionRec] /\ NoNewSession
  BY DEF NoNewSession

\* Replacing one handler's record.
LEMMA TaskUpdate ==
  ASSUME task \in [Handlers -> TaskRec], NEW h \in Handlers, NEW r \in TaskRec,
         task' = [task EXCEPT ![h] = r]
  PROVE  /\ task' \in [Handlers -> TaskRec]
         /\ task'[h] = r
         /\ \A k \in Handlers \ {h} : task'[k] = task[k]
  OBVIOUS

-----------------------------------------------------------------------------
(* Background steps *)

\* Forgetting or re-anchoring credentials, one by one.
LEMMA ForgetOne ==
  ASSUME cred \in [Sessions -> CredRec], NEW s \in Sessions,
         cred' = [cred EXCEPT ![s] = NoCred]
  PROVE  cred' \in [Sessions -> CredRec] /\ NoNewToken
  BY ConstantRecords DEF NoNewToken

\* SessionHandle::close opens no session.
LEMMA AskCloseKeeps ==
  ASSUME Typed, NEW s \in Sessions, NEW q, AskClose(q, s)
  PROVE  registry' \in [Sessions -> SessionRec] /\ NoNewSession
<1>1. CASE registry[s].st = "live"
  <2> DEFINE r == [registry[s] EXCEPT !.st = "closing", !.closeBy = now + CloseMax]
  <2>1. now + CloseMax \in Nat
    BY BrokerConstants DEF Typed
  <2>2. registry[s] \in SessionRec
    BY DEF Typed
  <2>3. r \in SessionRec
    BY <2>1, <2>2, SessionUpdates
  <2>4. r.st = "closing" /\ r.opener = registry[s].opener
    BY <2>2 DEF SessionRec
  <2>5. registry' = [registry EXCEPT ![s] = r]
    BY <1>1 DEF AskClose
  <2> HIDE DEF r
  <2> QED
    BY <1>1, <2>3, <2>4, <2>5, OneSession DEF Typed
<1>2. CASE registry[s].st # "live"
  BY <1>2 DEF AskClose, Typed, NoNewSession
<1> QED
  BY <1>1, <1>2

\* The child's exit.
LEMMA ExitIsBackground ==
  ASSUME Typed, NEW s \in Sessions, Exit(s)
  PROVE  Background
<1> DEFINE r == [registry[s] EXCEPT !.exited = TRUE, !.base = now]
<1>1. registry[s] \in SessionRec /\ now \in Nat
  BY DEF Typed
<1>2. r \in SessionRec
  BY <1>1, SessionUpdates
<1>3. r.st = registry[s].st /\ r.opener = registry[s].opener
  BY <1>1 DEF SessionRec
<1>4. registry' = [registry EXCEPT ![s] = r]
  BY DEF Exit
<1> HIDE DEF r
<1>5. registry' \in [Sessions -> SessionRec] /\ NoNewSession
  BY <1>2, <1>3, <1>4, OneSession DEF Typed
<1> QED
  BY <1>5 DEF Background, Typed, NoNewToken, Exit

\* mark_closed.
LEMMA ActorClosesIsBackground ==
  ASSUME Typed, NEW s \in Sessions, ActorCloses(s)
  PROVE  Background
<1> DEFINE r == [registry[s] EXCEPT !.st = "closed", !.closedAt = now, !.closeBy = 0]
<1>1. registry[s] \in SessionRec /\ now \in Nat
  BY DEF Typed
<1>2. r \in SessionRec
  BY <1>1, SessionUpdates
<1>3. r.st = "closed"
  BY <1>1 DEF SessionRec
<1>4. registry' = [registry EXCEPT ![s] = r]
  BY DEF ActorCloses
<1> HIDE DEF r
<1>5. registry' \in [Sessions -> SessionRec] /\ NoNewSession
  BY <1>2, <1>3, <1>4, OneSession DEF Typed
<1> QED
  BY <1>5 DEF Background, Typed, NoNewToken, ActorCloses

\* The three callers of close, and the three forgets after it.
LEMMA ClosesAreBackground ==
  ASSUME Typed, NEW s \in Sessions,
         \/ CloseSession(s) \/ ReaperCloses(s) \/ DrainCloses(s)
         \/ ForgetAfterClose(s) \/ ReaperForgets(s) \/ DrainForgets(s)
  PROVE  Background
<1>1. CASE CloseSession(s) \/ ReaperCloses(s) \/ DrainCloses(s)
  <2>1. registry' \in [Sessions -> SessionRec] /\ NoNewSession
    BY <1>1, AskCloseKeeps DEF CloseSession, ReaperCloses, DrainCloses
  <2> QED
    BY <1>1, <2>1 DEF CloseSession, ReaperCloses, DrainCloses, Background, Typed, NoNewToken
<1>2. CASE ForgetAfterClose(s) \/ ReaperForgets(s) \/ DrainForgets(s)
  <2>1. cred' \in [Sessions -> CredRec] /\ NoNewToken
    BY <1>2, ForgetOne DEF ForgetAfterClose, ReaperForgets, DrainForgets, Typed
  <2>2. NoNewSession
    BY <1>2 DEF ForgetAfterClose, ReaperForgets, DrainForgets, NoNewSession
  <2>3. CASE ForgetAfterClose(s)
    BY <2>1, <2>2, <2>3 DEF ForgetAfterClose, Background, Typed
  <2>4. CASE ReaperForgets(s)
    <3>1. /\ \A q \in DOMAIN reaper'.deadline : reaper'.deadline[q] \in Nat
          /\ reaper' = [at |-> reaper'.at, wake |-> reaper'.wake, doomed |-> reaper'.doomed,
                        expired |-> reaper'.expired, deadline |-> reaper'.deadline]
      BY <2>4 DEF ReaperForgets, Typed
    <3> QED
      BY <2>1, <2>2, <2>4, <3>1 DEF ReaperForgets, Background, Typed
  <2>5. CASE DrainForgets(s)
    <3>1. drain' \in DrainRec
      BY <2>5 DEF DrainForgets, Typed, DrainRec
    <3> QED
      BY <2>1, <2>2, <2>5, <3>1 DEF DrainForgets, Background, Typed
  <2> QED
    BY <1>2, <2>3, <2>4, <2>5
<1> QED
  BY <1>1, <1>2

\* reap_once, step by step.
LEMMA ReaperIsBackground ==
  ASSUME Typed, Decide \/ RemoveExpired \/ SyncExpiry \/ ReaperSleeps
  PROVE  Background
<1>1. CASE Decide
  <2>1. \A s \in Sessions : Deadline(s) \in Nat
    <3> SUFFICES ASSUME NEW s \in Sessions PROVE Deadline(s) \in Nat
      OBVIOUS
    <3>1. registry[s].base \in Nat /\ now \in Nat /\ Ttl \in Nat
      BY BrokerConstants DEF Typed, SessionRec
    <3> QED
      BY <3>1 DEF Deadline
  <2> DEFINE d == [s \in Registered |-> Deadline(s)]
  <2>2. \A s \in DOMAIN d : d[s] \in Nat
    BY <2>1 DEF Registered
  <2> HIDE DEF d
  <2>3. /\ reaper'.deadline = d
        /\ reaper' = [at |-> reaper'.at, wake |-> reaper'.wake, doomed |-> reaper'.doomed,
                      expired |-> reaper'.expired, deadline |-> reaper'.deadline]
    BY <1>1 DEF Decide, Typed, d
  <2> QED
    BY <1>1, <2>2, <2>3 DEF Decide, Background, Typed, NoNewSession, NoNewToken
<1>2. CASE RemoveExpired
  <2> DEFINE g == [NoSession EXCEPT !.st = "gone"]
  <2>1. g \in SessionRec /\ g.st = "gone"
    BY ConstantRecords, SessionUpdates DEF SessionRec
  <2>2. registry' = [s \in Sessions |-> IF s \in reaper.expired THEN g ELSE registry[s]]
    BY <1>2 DEF RemoveExpired
  <2> HIDE DEF g
  <2>3. registry' \in [Sessions -> SessionRec] /\ NoNewSession
    BY <2>1, <2>2 DEF NoNewSession, Typed
  <2>4. /\ \A q \in DOMAIN reaper'.deadline : reaper'.deadline[q] \in Nat
        /\ reaper' = [at |-> reaper'.at, wake |-> reaper'.wake, doomed |-> reaper'.doomed,
                      expired |-> reaper'.expired, deadline |-> reaper'.deadline]
    BY <1>2 DEF RemoveExpired, Typed
  <2> QED
    BY <1>2, <2>3, <2>4 DEF RemoveExpired, Background, Typed, NoNewToken
<1>3. CASE SyncExpiry
  <2>1. ASSUME NEW s \in Sessions
        PROVE  cred'[s] \in CredRec /\ (cred'[s].gen = 0 \/ cred'[s].gen = cred[s].gen)
    <3>1. CASE cred[s].gen > 0 /\ s \in DOMAIN reaper.deadline
      <4>1. reaper.deadline[s] \in Nat /\ cred[s] \in CredRec
        BY <3>1 DEF Typed
      <4>2. cred'[s] = [cred[s] EXCEPT !.expires = reaper.deadline[s]]
        BY <1>3, <3>1 DEF SyncExpiry
      <4> QED
        BY <4>1, <4>2 DEF CredRec
    <3>2. CASE ~(cred[s].gen > 0 /\ s \in DOMAIN reaper.deadline)
      <4>1. cred'[s] = cred[s] \/ cred'[s] = NoCred
        BY <1>3, <3>2 DEF SyncExpiry
      <4> QED
        BY <4>1, ConstantRecords DEF Typed
    <3> QED
      BY <3>1, <3>2
  <2>2. DOMAIN cred' = Sessions /\ cred' = [s \in Sessions |-> cred'[s]]
    BY <1>3 DEF SyncExpiry
  <2>3. cred' \in [Sessions -> CredRec] /\ NoNewToken
    BY <2>1, <2>2 DEF NoNewToken
  <2>4. /\ \A q \in DOMAIN reaper'.deadline : reaper'.deadline[q] \in Nat
        /\ reaper' = [at |-> reaper'.at, wake |-> reaper'.wake, doomed |-> reaper'.doomed,
                      expired |-> reaper'.expired, deadline |-> reaper'.deadline]
    BY <1>3 DEF SyncExpiry, Typed, NoDeadlines
  <2> QED
    BY <1>3, <2>3, <2>4 DEF SyncExpiry, Background, Typed, NoNewSession
<1>4. CASE ReaperSleeps
  <2>1. /\ \A q \in DOMAIN reaper'.deadline : reaper'.deadline[q] \in Nat
        /\ reaper' = [at |-> reaper'.at, wake |-> reaper'.wake, doomed |-> reaper'.doomed,
                      expired |-> reaper'.expired, deadline |-> reaper'.deadline]
    BY <1>4 DEF ReaperSleeps, Asleep, NoDeadlines
  <2> QED
    BY <1>4, <2>1 DEF ReaperSleeps, Background, Typed, NoNewSession, NoNewToken
<1> QED
  BY <1>1, <1>2, <1>3, <1>4

\* The drain's own steps and the clock.
LEMMA DrainIsBackground ==
  ASSUME Typed, DrainFlag \/ CloseAll \/ DrainDone \/ DrainTimesOut \/ Advance
  PROVE  Background
<1>1. drain' \in DrainRec
  BY DEF DrainFlag, CloseAll, DrainDone, DrainTimesOut, Advance, Typed, DrainRec, LiveSessions
<1>2. now' \in Nat
  BY DEF DrainFlag, CloseAll, DrainDone, DrainTimesOut, Advance, Typed
<1>3. UNCHANGED <<registry, inFlight, cred, reaper, task>>
  BY DEF DrainFlag, CloseAll, DrainDone, DrainTimesOut, Advance
<1> QED
  BY <1>1, <1>2, <1>3 DEF Background, Typed, NoNewSession, NoNewToken

\* A step that opens no session leaves fewer live ones.
LEMMA FewerLive ==
  ASSUME Typed, NoNewSession
  PROVE  /\ LiveSessions' \subseteq LiveSessions
         /\ \A p \in Principals : LiveOf(p)' \subseteq LiveOf(p)
  BY DEF NoNewSession, LiveSessions, Live, LiveOf

\* Finite sets and their cardinalities.
LEMMA FiniteParts ==
  /\ IsFiniteSet(LiveSessions) /\ Cardinality(LiveSessions) \in Nat
  /\ \A p \in Principals : IsFiniteSet(LiveOf(p)) /\ Cardinality(LiveOf(p)) \in Nat
  /\ IsFiniteSet(inFlight) =>
       /\ Cardinality(inFlight) \in Nat
       /\ \A p \in Principals : IsFiniteSet(SlotsOf(p)) /\ Cardinality(SlotsOf(p)) \in Nat
<1>1. LiveSessions \subseteq Sessions
  BY DEF LiveSessions
<1>2. IsFiniteSet(LiveSessions)
  BY <1>1, BrokerConstants, FS_Subset
<1>3. \A p \in Principals : IsFiniteSet(LiveOf(p))
  <2> SUFFICES ASSUME NEW p \in Principals PROVE IsFiniteSet(LiveOf(p))
    OBVIOUS
  <2>1. LiveOf(p) \subseteq LiveSessions
    BY DEF LiveOf
  <2> QED
    BY <1>2, <2>1, FS_Subset
<1>4. ASSUME IsFiniteSet(inFlight), NEW p \in Principals PROVE IsFiniteSet(SlotsOf(p))
  <2>1. SlotsOf(p) \subseteq inFlight
    BY DEF SlotsOf
  <2> QED
    BY <1>4, <2>1, FS_Subset
<1> QED
  BY <1>2, <1>3, <1>4, FS_CardinalityType

\* The caps survive a step that opens no session and reserves no slot.
LEMMA QuotasShrink ==
  ASSUME Typed, Quotas, NoNewSession, inFlight' \subseteq inFlight
  PROVE  Quotas'
<1>1. IsFiniteSet(inFlight')
  BY FS_Subset DEF Quotas
<1>2. Cardinality(LiveSessions') \in Nat /\ Cardinality(LiveSessions') <= Cardinality(LiveSessions)
  BY FewerLive, FiniteParts, FS_Subset, FS_CardinalityType
<1>3. Cardinality(inFlight') \in Nat /\ Cardinality(inFlight') <= Cardinality(inFlight)
  BY FS_Subset, FS_CardinalityType DEF Quotas
<1>4. Cardinality(LiveSessions) \in Nat /\ Cardinality(inFlight) \in Nat /\ MaxSessions \in Nat
      /\ MaxPerPrincipal \in Nat
  BY FiniteParts, BrokerConstants DEF Quotas
<1>5. (Cardinality(LiveSessions) + Cardinality(inFlight) <= MaxSessions)'
  BY <1>2, <1>3, <1>4 DEF Quotas
<1>6. ASSUME NEW p \in Principals
      PROVE  (Cardinality(LiveOf(p)) + Cardinality(SlotsOf(p)) <= MaxPerPrincipal)'
  <2>1. Cardinality(LiveOf(p)') \in Nat /\ Cardinality(LiveOf(p)') <= Cardinality(LiveOf(p))
    BY FewerLive, FiniteParts, FS_Subset, FS_CardinalityType
  <2>2. SlotsOf(p)' \subseteq SlotsOf(p) /\ IsFiniteSet(SlotsOf(p))
    BY FiniteParts DEF SlotsOf, Quotas
  <2>3. Cardinality(SlotsOf(p)') \in Nat /\ Cardinality(SlotsOf(p)') <= Cardinality(SlotsOf(p))
    BY <2>2, FS_Subset, FS_CardinalityType
  <2>4. Cardinality(LiveOf(p)) + Cardinality(SlotsOf(p)) <= MaxPerPrincipal
        /\ Cardinality(LiveOf(p)) \in Nat /\ Cardinality(SlotsOf(p)) \in Nat
    BY FiniteParts DEF Quotas
  <2> QED
    BY <1>4, <2>1, <2>3, <2>4
<1> QED
  BY <1>1, <1>5, <1>6 DEF Quotas

\* Background steps keep everything but the drain's part.
LEMMA BackgroundKeeps ==
  ASSUME BrokerInv, Background
  PROVE  Typed' /\ Slots' /\ Quotas' /\ Tokens'
<1>1. Typed'
  BY DEF BrokerInv, Background, Typed, Busy
<1>2. Slots'
  BY DEF BrokerInv, Background, Slots
<1>3. Quotas'
  BY QuotasShrink DEF BrokerInv, Background
<1>4. ASSUME NEW s \in Sessions
      PROVE  /\ registry'[s].st = "none" => registry[s].st = "none"
             /\ cred'[s].gen = 0 \/ cred'[s].gen = cred[s].gen
  BY DEF Background, NoNewSession, NoNewToken
<1>5. task' = task /\ \A h \in Handlers : Busy(h) => task[h].s \in Sessions
  BY DEF Background, BrokerInv, Typed
<1>6. \A h \in Handlers : (Busy(h)' <=> Busy(h)) /\ (Winner(h)' <=> Winner(h))
  BY <1>5 DEF Busy, Winner
<1>7. \A h \in Handlers : Winner(h) \/ task[h].at = "inserted" => Busy(h)
  BY DEF Winner, Busy
<1>8. OneWinnerPerToken'
  BY <1>5 DEF BrokerInv, Tokens, OneWinnerPerToken
<1>9. Tokens'
  <2>1. \A s \in Sessions : registry'[s].st = "none" =>
           cred'[s].gen = 0 /\ \A h \in Handlers : Busy(h)' => task'[h].s # s
    BY <1>4, <1>5, <1>6 DEF BrokerInv, Tokens
  <2>2. \A h \in Handlers : task'[h].at = "inserted" =>
           /\ task'[h].gen = 0 /\ cred'[task'[h].s].gen = 0
           /\ \A k \in Handlers : k # h /\ Busy(k)' => task'[k].s # task'[h].s
    BY <1>4, <1>5, <1>6, <1>7 DEF BrokerInv, Tokens
  <2>3. \A h \in Handlers : Winner(h)' =>
           cred'[task'[h].s].gen = 0 \/ task'[h].gen < cred'[task'[h].s].gen
    BY <1>4, <1>5, <1>6, <1>7 DEF BrokerInv, Tokens
  <2> QED
    BY <1>8, <2>1, <2>2, <2>3 DEF Tokens
<1> QED
  BY <1>1, <1>2, <1>3, <1>9

\* A step that leaves the drain alone and opens no session.
LEMMA DrainedKept ==
  ASSUME Typed, Drained, NoNewSession, drain' = drain
  PROVE  Drained'
  BY FewerLive DEF Drained, DrainLeavesNothing

\* The drain's own steps: the snapshot is the live sessions, and one leaves it only
\* when it is live no more.
LEMMA DrainSteps ==
  ASSUME Typed, Drained,
         \/ DrainFlag \/ CloseAll \/ DrainDone \/ DrainTimesOut
         \/ \E s \in Sessions : DrainForgets(s)
  PROVE  Drained'
<1>1. LiveSessions' = LiveSessions
  BY DEF DrainFlag, CloseAll, DrainDone, DrainTimesOut, DrainForgets, LiveSessions, Live
<1>2. CASE \E s \in Sessions : DrainForgets(s)
  <2>1. PICK s \in Sessions : DrainForgets(s)
    BY <1>2
  <2>2. s \notin LiveSessions /\ drain'.at = drain.at /\ drain'.left = drain.left \ {s}
    BY <2>1 DEF DrainForgets, LiveSessions, Typed, DrainRec
  <2> QED
    BY <1>1, <2>2 DEF Drained, DrainLeavesNothing
<1>3. CASE DrainFlag \/ CloseAll \/ DrainDone \/ DrainTimesOut
  <2>1. CASE DrainDone
    <3>1. LiveSessions = {}
      BY <2>1 DEF DrainDone, Drained
    <3> QED
      BY <1>1, <3>1 DEF Drained, DrainLeavesNothing
  <2>2. CASE DrainFlag \/ CloseAll \/ DrainTimesOut
    BY <1>1, <2>2 DEF DrainFlag, CloseAll, DrainTimesOut, Drained, DrainLeavesNothing, Typed, DrainRec
  <2> QED
    BY <1>3, <2>1, <2>2
<1> QED
  BY <1>2, <1>3

-----------------------------------------------------------------------------
(* Steps of one handler *)

\* A handler's step outside reserve_slot and the insert.
LEMMA HandlerKeeps ==
  ASSUME BrokerInv, NEW h \in Handlers, NEW r \in TaskRec, task' = [task EXCEPT ![h] = r],
         task[h].at # "reserved", r.at # "reserved",
         r.at # "idle" => r.s \in Sessions,
         UNCHANGED <<now, inFlight, reaper, drain>>,
         registry' \in [Sessions -> SessionRec], NoNewSession,
         cred' \in [Sessions -> CredRec]
  PROVE  Typed' /\ Slots' /\ Quotas' /\ Drained'
<1>1. /\ task' \in [Handlers -> TaskRec]
      /\ task'[h] = r
      /\ \A k \in Handlers \ {h} : task'[k] = task[k]
  BY TaskUpdate DEF BrokerInv, Typed
<1>2. Typed'
  BY <1>1 DEF BrokerInv, Typed, Busy
<1>3. \A slot \in inFlight : slot.holder \in Handlers
  BY DEF BrokerInv, Typed, SlotRec
<1>4. Slots'
  BY <1>1, <1>3 DEF BrokerInv, Slots
<1> QED
  BY <1>2, <1>4, QuotasShrink, DrainedKept DEF BrokerInv

\* A handler that goes idle, reserves, or moves on with the token it has.
LEMMA TokensKept ==
  ASSUME BrokerInv, NEW h \in Handlers, NEW r \in TaskRec, task' = [task EXCEPT ![h] = r],
         \/ r.at \in {"idle", "reserved"}
         \/ /\ Busy(h) /\ r.s = task[h].s /\ r.gen = task[h].gen /\ r.at # "inserted"
            /\ r.at \in {"rotated", "ticketed", "attached"} => Winner(h),
         NoNewSession, NoNewToken
  PROVE  Tokens'
<1>1. /\ task'[h] = r
      /\ \A k \in Handlers \ {h} : task'[k] = task[k]
  BY TaskUpdate DEF BrokerInv, Typed
<1>2. \A k \in Handlers :
        /\ Busy(k)' => Busy(k) /\ task'[k].s = task[k].s /\ task'[k].gen = task[k].gen
        /\ Winner(k)' => Winner(k)
        /\ task'[k].at = "inserted" => task[k].at = "inserted"
        /\ Busy(k) => task[k].s \in Sessions
        /\ Winner(k)' => Busy(k)'
        /\ task'[k].at = "inserted" => Busy(k)'
  BY <1>1 DEF Busy, Winner, BrokerInv, Typed
<1>3. \A s \in Sessions :
        /\ registry'[s].st = "none" => registry[s].st = "none"
        /\ cred'[s].gen = 0 \/ cred'[s].gen = cred[s].gen
  BY DEF NoNewSession, NoNewToken
<1>4. \A s \in Sessions : registry'[s].st = "none" =>
         cred'[s].gen = 0 /\ \A k \in Handlers : Busy(k)' => task'[k].s # s
  BY <1>2, <1>3 DEF BrokerInv, Tokens
<1>5. \A k \in Handlers : task'[k].at = "inserted" =>
         /\ task'[k].gen = 0 /\ cred'[task'[k].s].gen = 0
         /\ \A j \in Handlers : j # k /\ Busy(j)' => task'[j].s # task'[k].s
  BY <1>2, <1>3 DEF BrokerInv, Tokens
<1>6. \A k \in Handlers : Winner(k)' =>
         cred'[task'[k].s].gen = 0 \/ task'[k].gen < cred'[task'[k].s].gen
  BY <1>2, <1>3 DEF BrokerInv, Tokens
<1>7. OneWinnerPerToken'
  <2>1. \A j, k \in Handlers : j # k /\ Winner(j) /\ Winner(k) /\ task[j].s = task[k].s
           => task[j].gen # task[k].gen
    BY DEF BrokerInv, Tokens, OneWinnerPerToken, Winner
  <2>2. \A j, k \in Handlers : j # k /\ Winner(j)' /\ Winner(k)' /\ task'[j].s = task'[k].s
           => task'[j].gen # task'[k].gen
    BY <1>2, <2>1
  <2> QED
    BY <2>2 DEF OneWinnerPerToken, Winner
<1> QED
  BY <1>4, <1>5, <1>6, <1>7 DEF Tokens

\* The steps that change no session and no token: the lookup, the not-found reply,
\* the end of a ticket.
LEMMA QuietHandlerSteps ==
  ASSUME BrokerInv, NEW h \in Handlers, LookUp(h) \/ ReplyNotFound(h) \/ DropTicket(h)
  PROVE  BrokerInv'
<1>1. /\ UNCHANGED <<now, registry, inFlight, cred, asked, reaper, drain>>
      /\ task[h].at \in {"verified", "missed", "ticketed"}
  BY DEF LookUp, ReplyNotFound, DropTicket
<1>2. task[h] \in TaskRec /\ Busy(h) /\ task[h].s \in Sessions
  BY <1>1 DEF BrokerInv, Typed, Busy
<1>3. PICK r \in TaskRec :
        /\ task' = [task EXCEPT ![h] = r]
        /\ \/ r.at = "idle"
           \/ r.at \in {"found", "missed"} /\ r.s = task[h].s /\ r.gen = task[h].gen
  <2>1. CASE ReplyNotFound(h) \/ DropTicket(h)
    BY <2>1, ConstantRecords DEF ReplyNotFound, DropTicket
  <2>2. CASE LookUp(h)
    <3> DEFINE f == [task[h] EXCEPT !.at = "found"]
               m == [task[h] EXCEPT !.at = "missed"]
    <3>1. /\ f \in TaskRec /\ f.at = "found" /\ f.s = task[h].s /\ f.gen = task[h].gen
          /\ m \in TaskRec /\ m.at = "missed" /\ m.s = task[h].s /\ m.gen = task[h].gen
      BY <1>2 DEF TaskRec, Steps
    <3>2. \/ task' = [task EXCEPT ![h] = Idle] \/ task' = [task EXCEPT ![h] = f]
          \/ task' = [task EXCEPT ![h] = m]
      BY <2>2 DEF LookUp
    <3> HIDE DEF f, m
    <3> QED
      BY <3>1, <3>2, ConstantRecords
  <2> QED
    BY <2>1, <2>2
<1>4. NoNewSession /\ NoNewToken
  BY <1>1 DEF NoNewSession, NoNewToken
<1>5. registry' \in [Sessions -> SessionRec] /\ cred' \in [Sessions -> CredRec]
  BY <1>1 DEF BrokerInv, Typed
<1>6. Typed' /\ Slots' /\ Quotas' /\ Drained'
  BY <1>1, <1>2, <1>3, <1>4, <1>5, HandlerKeeps
<1>7. Tokens'
  BY <1>1, <1>2, <1>3, <1>4, TokensKept
<1> QED
  BY <1>6, <1>7 DEF BrokerInv

\* The attach count changes, or the TTL restarts, when a stream starts or ends.
LEMMA StreamSteps ==
  ASSUME BrokerInv, NEW h \in Handlers, RedeemTicket(h) \/ Detach(h)
  PROVE  BrokerInv'
<1> DEFINE s == task[h].s
<1>1. /\ UNCHANGED <<now, inFlight, cred, asked, reaper, drain>>
      /\ task[h].at \in {"ticketed", "attached"}
  BY DEF RedeemTicket, Detach
<1>2. task[h] \in TaskRec /\ Busy(h) /\ Winner(h) /\ s \in Sessions /\ registry[s] \in SessionRec
  BY <1>1 DEF BrokerInv, Typed, Busy, Winner
<1>3. PICK r \in TaskRec :
        /\ task' = [task EXCEPT ![h] = r]
        /\ \/ r.at = "idle"
           \/ r.at = "attached" /\ r.s = s /\ r.gen = task[h].gen
  <2> DEFINE a == [task[h] EXCEPT !.at = "attached", !.until = 0]
  <2>1. a \in TaskRec /\ a.at = "attached" /\ a.s = s /\ a.gen = task[h].gen
    BY <1>2 DEF TaskRec, Steps
  <2>2. task' = [task EXCEPT ![h] = Idle] \/ task' = [task EXCEPT ![h] = a]
    BY DEF RedeemTicket, Detach
  <2> HIDE DEF a
  <2>3. CASE task' = [task EXCEPT ![h] = Idle]
    BY <2>3, ConstantRecords
  <2>4. CASE task' = [task EXCEPT ![h] = a]
    BY <2>1, <2>4
  <2> QED
    BY <2>2, <2>3, <2>4
<1>4. registry' \in [Sessions -> SessionRec] /\ NoNewSession
  <2>1. CASE registry' = registry
    BY <2>1 DEF BrokerInv, Typed, NoNewSession
  <2>2. CASE registry' # registry
    <3>1. registry[s].attached \in Int /\ registry[s].base \in Nat /\ now \in Nat
      BY <1>2 DEF SessionRec, BrokerInv, Typed
    <3> DEFINE x == registry[s].attached + 1
               y == registry[s].attached - 1
               b == IF registry[s].attached = 1 THEN now ELSE registry[s].base
               up == [registry[s] EXCEPT !.attached = x]
               down == [registry[s] EXCEPT !.attached = y, !.base = b]
    <3>2. up \in SessionRec /\ down \in SessionRec
      <4>1. x \in Int /\ y \in Int /\ b \in Nat
        BY <3>1
      <4> HIDE DEF x, y, b
      <4> QED
        BY <1>2, <4>1, SessionUpdates
    <3>3. /\ up.st = registry[s].st /\ up.opener = registry[s].opener
          /\ down.st = registry[s].st /\ down.opener = registry[s].opener
      BY <1>2 DEF SessionRec
    <3>4. registry' = [registry EXCEPT ![s] = up] \/ registry' = [registry EXCEPT ![s] = down]
      BY <2>2 DEF RedeemTicket, Detach
    <3> HIDE DEF up, down, s
    <3> QED
      BY <1>2, <3>2, <3>3, <3>4, OneSession DEF BrokerInv, Typed
  <2> QED
    BY <2>1, <2>2
<1>5. NoNewToken /\ cred' \in [Sessions -> CredRec]
  BY <1>1 DEF NoNewToken, BrokerInv, Typed
<1> HIDE DEF s
<1>6. Typed' /\ Slots' /\ Quotas' /\ Drained'
  BY <1>1, <1>2, <1>3, <1>4, <1>5, HandlerKeeps
<1>7. Tokens'
  BY <1>2, <1>3, <1>4, <1>5, TokensKept DEF s
<1> QED
  BY <1>6, <1>7 DEF BrokerInv

\* The credential of a new session: nobody else works on the session yet.
LEMMA IssueResumeKeeps ==
  ASSUME BrokerInv, NEW h \in Handlers, IssueResume(h)
  PROVE  BrokerInv'
<1> DEFINE s == task[h].s
           r == [task[h] EXCEPT !.at = "ticketed", !.until = now + TicketTtl]
           c == [gen |-> 1, expires |-> now + Ttl, known |-> TRUE]
<1>1. task[h] \in TaskRec /\ Busy(h) /\ s \in Sessions /\ task[h].gen = 0
  BY DEF BrokerInv, Typed, Tokens, Busy, IssueResume
<1>2. now + TicketTtl \in Nat /\ now + Ttl \in Nat
  BY BrokerConstants DEF BrokerInv, Typed
<1>3. r \in TaskRec /\ r.at = "ticketed" /\ r.s = s /\ r.gen = 0
  BY <1>1, <1>2 DEF TaskRec, Steps
<1>4. c \in CredRec /\ c.gen = 1
  BY <1>2 DEF CredRec
<1>5. /\ task' = [task EXCEPT ![h] = r] /\ cred' = [cred EXCEPT ![s] = c]
      /\ task[h].at = "inserted"
      /\ UNCHANGED <<now, registry, inFlight, asked, reaper, drain>>
  BY DEF IssueResume
<1> HIDE DEF r, c, s
<1>6. registry' \in [Sessions -> SessionRec] /\ cred' \in [Sessions -> CredRec]
  BY <1>4, <1>5 DEF BrokerInv, Typed
<1>7. NoNewSession
  BY <1>5 DEF NoNewSession
<1>8. Typed' /\ Slots' /\ Quotas' /\ Drained'
  BY <1>1, <1>3, <1>5, <1>6, <1>7, HandlerKeeps
<1>9. /\ task'[h] = r
      /\ \A k \in Handlers \ {h} : task'[k] = task[k]
  BY <1>3, <1>5, TaskUpdate DEF BrokerInv, Typed
<1>10. /\ cred'[s].gen = 1
       /\ \A q \in Sessions \ {s} : cred'[q] = cred[q]
  BY <1>1, <1>4, <1>5 DEF BrokerInv, Typed
<1>11. /\ \A k \in Handlers \ {h} : Busy(k) => task[k].s # s /\ task[k].s \in Sessions
       /\ registry[s].st # "none"
  BY <1>1, <1>5 DEF BrokerInv, Tokens, Typed, Busy, s
<1>12. \A k \in Handlers \ {h} : (Busy(k)' <=> Busy(k)) /\ (Winner(k)' <=> Winner(k))
  BY <1>9 DEF Busy, Winner
<1>13. \A k \in Handlers : Winner(k) \/ task[k].at = "inserted" => Busy(k)
  BY DEF Busy, Winner
<1>14. \A q \in Sessions : registry'[q].st = "none" =>
          cred'[q].gen = 0 /\ \A k \in Handlers : Busy(k)' => task'[k].s # q
  BY <1>3, <1>5, <1>9, <1>10, <1>11, <1>12 DEF BrokerInv, Tokens
<1>15. \A k \in Handlers : task'[k].at = "inserted" =>
          /\ task'[k].gen = 0 /\ cred'[task'[k].s].gen = 0
          /\ \A j \in Handlers : j # k /\ Busy(j)' => task'[j].s # task'[k].s
  BY <1>3, <1>9, <1>10, <1>11, <1>12, <1>13 DEF BrokerInv, Tokens
<1>16. \A k \in Handlers : Winner(k)' =>
          cred'[task'[k].s].gen = 0 \/ task'[k].gen < cred'[task'[k].s].gen
  BY <1>3, <1>9, <1>10, <1>11, <1>12, <1>13 DEF BrokerInv, Tokens
<1>17. OneWinnerPerToken'
  <2>1. \A j, k \in Handlers : j # k /\ Winner(j) /\ Winner(k) /\ task[j].s = task[k].s
           => task[j].gen # task[k].gen
    BY DEF BrokerInv, Tokens, OneWinnerPerToken, Winner
  <2>2. \A j, k \in Handlers : j # k /\ Winner(j)' /\ Winner(k)' /\ task'[j].s = task'[k].s
           => task'[j].gen # task'[k].gen
    BY <1>3, <1>9, <1>11, <1>12, <1>13, <2>1
  <2> QED
    BY <2>2 DEF OneWinnerPerToken, Winner
<1> QED
  BY <1>8, <1>14, <1>15, <1>16, <1>17 DEF BrokerInv, Tokens

\* Step 1 of session.attach: a token that verifies is one of a session that was
\* opened and whose open is over.
LEMMA VerifyResumeKeeps ==
  ASSUME BrokerInv, NEW h \in Handlers, NEW s \in Sessions, VerifyResume(h, s)
  PROVE  BrokerInv'
<1> DEFINE r == [Idle EXCEPT !.at = "verified", !.s = s, !.gen = cred[s].gen]
<1>1. cred[s].gen \in Nat /\ cred[s].gen > 0
  BY DEF VerifyResume, Verifies, BrokerInv, Typed, CredRec
<1>2. r \in TaskRec /\ r.at = "verified" /\ r.s = s
  BY <1>1 DEF Idle, TaskRec, Steps
<1>3. /\ task' = [task EXCEPT ![h] = r] /\ task[h].at = "idle"
      /\ UNCHANGED <<now, registry, inFlight, cred, asked, reaper, drain>>
  BY DEF VerifyResume
<1> HIDE DEF r
<1>4. /\ NoNewSession
      /\ registry' \in [Sessions -> SessionRec] /\ cred' \in [Sessions -> CredRec]
  BY <1>3 DEF NoNewSession, BrokerInv, Typed
<1>5. Typed' /\ Slots' /\ Quotas' /\ Drained'
  BY <1>2, <1>3, <1>4, HandlerKeeps
<1>6. /\ task'[h] = r
      /\ \A k \in Handlers \ {h} : task'[k] = task[k]
  BY <1>2, <1>3, TaskUpdate DEF BrokerInv, Typed
<1>7. /\ Busy(h)' /\ ~Winner(h)'
      /\ \A k \in Handlers \ {h} : (Busy(k)' <=> Busy(k)) /\ (Winner(k)' <=> Winner(k))
  BY <1>2, <1>6 DEF Busy, Winner
<1>8. \A q \in Sessions : registry'[q].st = "none" =>
         cred'[q].gen = 0 /\ \A k \in Handlers : Busy(k)' => task'[k].s # q
  BY <1>1, <1>2, <1>3, <1>6, <1>7 DEF BrokerInv, Tokens
<1>9. \A k \in Handlers : task'[k].at = "inserted" =>
         /\ task'[k].gen = 0 /\ cred'[task'[k].s].gen = 0
         /\ \A j \in Handlers : j # k /\ Busy(j)' => task'[j].s # task'[k].s
  BY <1>1, <1>2, <1>3, <1>6, <1>7 DEF BrokerInv, Tokens
<1>10. \A k \in Handlers : Winner(k)' =>
         cred'[task'[k].s].gen = 0 \/ task'[k].gen < cred'[task'[k].s].gen
  BY <1>3, <1>6, <1>7 DEF BrokerInv, Tokens
<1>11. OneWinnerPerToken'
  <2>1. \A j, k \in Handlers : j # k /\ Winner(j) /\ Winner(k) /\ task[j].s = task[k].s
           => task[j].gen # task[k].gen
    BY DEF BrokerInv, Tokens, OneWinnerPerToken, Winner
  <2>2. \A j, k \in Handlers : j # k /\ Winner(j)' /\ Winner(k)' /\ task'[j].s = task'[k].s
           => task'[j].gen # task'[k].gen
    BY <1>6, <1>7, <2>1
  <2> QED
    BY <2>2 DEF OneWinnerPerToken, Winner
<1> QED
  BY <1>5, <1>8, <1>9, <1>10, <1>11 DEF BrokerInv, Tokens

\* rotate_resume: the winner's token is the one stored until now, so every earlier
\* winner is behind it.
LEMMA RotateResumeKeeps ==
  ASSUME BrokerInv, NEW h \in Handlers, RotateResume(h)
  PROVE  BrokerInv'
<1> DEFINE s == task[h].s
<1>1. /\ task[h].at = "found"
      /\ UNCHANGED <<now, registry, inFlight, asked, reaper, drain>>
  BY DEF RotateResume
<1>2. task[h] \in TaskRec /\ Busy(h) /\ s \in Sessions /\ cred[s] \in CredRec
  BY <1>1 DEF BrokerInv, Typed, Busy
<1>3. NoNewSession /\ registry' \in [Sessions -> SessionRec]
  BY <1>1 DEF NoNewSession, BrokerInv, Typed
<1>4. CASE ~Verifies(s, task[h].gen)
  <2>1. task' = [task EXCEPT ![h] = Idle] /\ cred' = cred
    BY <1>4 DEF RotateResume
  <2>2. cred' \in [Sessions -> CredRec] /\ NoNewToken
    BY <2>1 DEF NoNewToken, BrokerInv, Typed
  <2>3. Typed' /\ Slots' /\ Quotas' /\ Drained'
    BY <1>1, <1>3, <2>1, <2>2, ConstantRecords, HandlerKeeps
  <2>4. Tokens'
    BY <1>3, <2>1, <2>2, ConstantRecords, TokensKept
  <2> QED
    BY <2>3, <2>4 DEF BrokerInv
<1>5. CASE Verifies(s, task[h].gen)
  <2> DEFINE r == [task[h] EXCEPT !.at = "rotated"]
             c == [gen |-> cred[s].gen + 1, expires |-> now + Ttl, known |-> FALSE]
  <2>1. cred[s].gen \in Nat /\ cred[s].gen > 0 /\ task[h].gen = cred[s].gen
    BY <1>2, <1>5 DEF Verifies, CredRec
  <2>2. r \in TaskRec /\ r.at = "rotated" /\ r.s = s /\ r.gen = cred[s].gen
    BY <1>2, <2>1 DEF TaskRec, Steps
  <2>3. now + Ttl \in Nat
    BY BrokerConstants DEF BrokerInv, Typed
  <2>4. c \in CredRec /\ c.gen = cred[s].gen + 1
    BY <2>1, <2>3 DEF CredRec
  <2>5. task' = [task EXCEPT ![h] = r] /\ cred' = [cred EXCEPT ![s] = c]
    BY <1>5 DEF RotateResume
  <2> HIDE DEF r, c
  <2>6. cred' \in [Sessions -> CredRec]
    BY <2>4, <2>5 DEF BrokerInv, Typed
  <2>7. Typed' /\ Slots' /\ Quotas' /\ Drained'
    BY <1>1, <1>2, <1>3, <2>2, <2>5, <2>6, HandlerKeeps
  <2>8. /\ task'[h] = r
        /\ \A k \in Handlers \ {h} : task'[k] = task[k]
    BY <2>2, <2>5, TaskUpdate DEF BrokerInv, Typed
  <2>9. /\ cred'[s].gen = cred[s].gen + 1
        /\ \A q \in Sessions \ {s} : cred'[q] = cred[q]
    BY <1>2, <2>4, <2>5 DEF BrokerInv, Typed
  <2>10. /\ Busy(h)'
         /\ \A k \in Handlers \ {h} : (Busy(k)' <=> Busy(k)) /\ (Winner(k)' <=> Winner(k))
    BY <2>2, <2>8 DEF Busy, Winner
  <2>11. \A k \in Handlers :
            /\ Winner(k) \/ task[k].at = "inserted" => Busy(k)
            /\ Busy(k) => task[k].s \in Sessions
            /\ task[k].gen \in Nat
    BY DEF Busy, Winner, BrokerInv, Typed, TaskRec
  <2>12. \A k \in Handlers : Winner(k) /\ task[k].s = s => task[k].gen < cred[s].gen
    BY <2>1, <2>11 DEF BrokerInv, Tokens
  <2> HIDE DEF s
  <2>13. \A q \in Sessions : registry'[q].st = "none" =>
            cred'[q].gen = 0 /\ \A k \in Handlers : Busy(k)' => task'[k].s # q
    BY <1>1, <1>2, <2>1, <2>2, <2>8, <2>9, <2>10 DEF BrokerInv, Tokens
  <2>14. \A k \in Handlers : task'[k].at = "inserted" =>
            /\ task'[k].gen = 0 /\ cred'[task'[k].s].gen = 0
            /\ \A j \in Handlers : j # k /\ Busy(j)' => task'[j].s # task'[k].s
    BY <1>2, <2>1, <2>2, <2>8, <2>9, <2>10, <2>11 DEF BrokerInv, Tokens, s
  <2>15. \A k \in Handlers : Winner(k)' =>
            cred'[task'[k].s].gen = 0 \/ task'[k].gen < cred'[task'[k].s].gen
    <3> SUFFICES ASSUME NEW k \in Handlers, Winner(k)'
                 PROVE  cred'[task'[k].s].gen = 0 \/ task'[k].gen < cred'[task'[k].s].gen
      OBVIOUS
    <3>1. CASE k = h
      BY <2>1, <2>2, <2>8, <2>9, <3>1
    <3>2. CASE k # h /\ task[k].s = s
      BY <2>1, <2>8, <2>9, <2>10, <2>11, <2>12, <3>2
    <3>3. CASE k # h /\ task[k].s # s
      BY <2>8, <2>9, <2>10, <2>11, <3>3 DEF BrokerInv, Tokens
    <3> QED
      BY <3>1, <3>2, <3>3
  <2>16. OneWinnerPerToken'
    <3>1. \A j, k \in Handlers : j # k /\ Winner(j) /\ Winner(k) /\ task[j].s = task[k].s
             => task[j].gen # task[k].gen
      BY DEF BrokerInv, Tokens, OneWinnerPerToken, Winner
    <3>2. \A j, k \in Handlers : j # k /\ Winner(j)' /\ Winner(k)' /\ task'[j].s = task'[k].s
             => task'[j].gen # task'[k].gen
      BY <2>1, <2>2, <2>8, <2>10, <2>11, <2>12, <3>1
    <3> QED
      BY <3>2 DEF OneWinnerPerToken, Winner
  <2> QED
    BY <2>7, <2>13, <2>14, <2>15, <2>16 DEF BrokerInv, Tokens
<1> QED
  BY <1>4, <1>5

\* The end of session.attach: the reply carries the token that was stored.
LEMMA SeedAndIssueTicketKeeps ==
  ASSUME BrokerInv, NEW h \in Handlers, SeedAndIssueTicket(h)
  PROVE  BrokerInv'
<1> DEFINE s == task[h].s
           t == [task[h] EXCEPT !.at = "ticketed", !.until = now + TicketTtl]
           m == [task[h] EXCEPT !.at = "missed"]
<1>1. /\ task[h].at = "rotated"
      /\ UNCHANGED <<now, registry, inFlight, asked, reaper, drain>>
  BY DEF SeedAndIssueTicket
<1>2. task[h] \in TaskRec /\ Busy(h) /\ Winner(h) /\ s \in Sessions /\ cred[s] \in CredRec
  BY <1>1 DEF BrokerInv, Typed, Busy, Winner
<1>3. now + TicketTtl \in Nat
  BY BrokerConstants DEF BrokerInv, Typed
<1>4. /\ t \in TaskRec /\ t.at = "ticketed" /\ t.s = s /\ t.gen = task[h].gen
      /\ m \in TaskRec /\ m.at = "missed" /\ m.s = s /\ m.gen = task[h].gen
  BY <1>2, <1>3 DEF TaskRec, Steps
<1>5. task' = [task EXCEPT ![h] = t] \/ task' = [task EXCEPT ![h] = m]
  BY DEF SeedAndIssueTicket
<1>6. cred' \in [Sessions -> CredRec] /\ NoNewToken
  <2>1. CASE cred' = cred
    BY <2>1 DEF BrokerInv, Typed, NoNewToken
  <2>2. CASE cred' # cred
    <3> DEFINE b == cred[s].known \/ cred[s].gen = task[h].gen + 1
               c == [cred[s] EXCEPT !.known = b]
    <3>1. b \in BOOLEAN
      BY <1>2, Zenon DEF CredRec
    <3>2. cred' = [cred EXCEPT ![s] = c]
      BY <2>2 DEF SeedAndIssueTicket
    <3> HIDE DEF b
    <3>3. c \in CredRec /\ c.gen = cred[s].gen
      BY <1>2, <3>1 DEF CredRec
    <3> HIDE DEF c, s
    <3> QED
      BY <1>2, <3>2, <3>3 DEF BrokerInv, Typed, NoNewToken
  <2> QED
    BY <2>1, <2>2
<1>7. NoNewSession /\ registry' \in [Sessions -> SessionRec]
  BY <1>1 DEF NoNewSession, BrokerInv, Typed
<1> HIDE DEF t, m
<1>8. PICK r \in TaskRec :
        /\ task' = [task EXCEPT ![h] = r]
        /\ r.at \in {"ticketed", "missed"} /\ r.s = s /\ r.gen = task[h].gen
  BY <1>4, <1>5
<1>9. Typed' /\ Slots' /\ Quotas' /\ Drained'
  BY <1>1, <1>2, <1>6, <1>7, <1>8, HandlerKeeps
<1>10. Tokens'
  BY <1>2, <1>6, <1>7, <1>8, TokensKept
<1> QED
  BY <1>9, <1>10 DEF BrokerInv

-----------------------------------------------------------------------------
(* Reserving a slot and turning it into a session *)

\* One more reservation, counted before it is added.
LEMMA ReserveQuotas ==
  ASSUME Typed, Quotas, NEW h \in Handlers, NEW p \in Principals, NEW n,
         n.opener = p, n \notin inFlight, inFlight' = inFlight \union {n},
         Reservable(p), registry' = registry
  PROVE  Quotas'
<1>1. /\ IsFiniteSet(inFlight')
      /\ Cardinality(inFlight') = Cardinality(inFlight) + 1
  BY FS_AddElement DEF Quotas
<1>2. LiveSessions' = LiveSessions /\ \A q \in Principals : LiveOf(q)' = LiveOf(q)
  BY DEF LiveSessions, Live, LiveOf
<1>3. /\ MaxSessions \in Nat /\ MaxPerPrincipal \in Nat
      /\ Cardinality(LiveSessions) \in Nat /\ Cardinality(inFlight) \in Nat
  BY BrokerConstants, FiniteParts DEF Quotas
<1>4. Cardinality(LiveSessions') + Cardinality(inFlight') <= MaxSessions
  BY <1>1, <1>2, <1>3 DEF Reservable
<1>5. ASSUME NEW q \in Principals
      PROVE  Cardinality(LiveOf(q)') + Cardinality(SlotsOf(q)') <= MaxPerPrincipal
  <2>1. /\ Cardinality(LiveOf(q)) \in Nat /\ Cardinality(SlotsOf(q)) \in Nat
        /\ IsFiniteSet(SlotsOf(q))
        /\ Cardinality(LiveOf(q)) + Cardinality(SlotsOf(q)) <= MaxPerPrincipal
    BY FiniteParts DEF Quotas
  <2>2. CASE q # p
    <3>1. SlotsOf(q)' = SlotsOf(q)
      BY <2>2 DEF SlotsOf
    <3> QED
      BY <1>2, <2>1, <3>1
  <2>3. CASE q = p
    <3>1. SlotsOf(p)' = SlotsOf(p) \union {n} /\ n \notin SlotsOf(p)
      BY DEF SlotsOf
    <3>2. Cardinality(SlotsOf(p)') = Cardinality(SlotsOf(p)) + 1
      BY <2>1, <2>3, <3>1, FS_AddElement
    <3>3. Cardinality(LiveOf(p)) + Cardinality(SlotsOf(p)) < MaxPerPrincipal
      BY DEF Reservable, LiveOf, SlotsOf
    <3> QED
      BY <1>2, <1>3, <2>1, <2>3, <3>2, <3>3
  <2> QED
    BY <2>2, <2>3
<1> QED
  BY <1>1, <1>4, <1>5 DEF Quotas

\* reserve_slot.
LEMMA ReserveSlotKeeps ==
  ASSUME BrokerInv, NEW h \in Handlers, NEW p \in Principals, ReserveSlot(h, p)
  PROVE  BrokerInv'
<1> DEFINE r == [task[h] EXCEPT !.at = "reserved"]
           n == [holder |-> h, opener |-> p]
<1>1. r \in TaskRec /\ r.at = "reserved"
  BY DEF BrokerInv, Typed, TaskRec, Steps
<1>2. /\ task' = [task EXCEPT ![h] = r] /\ task[h].at = "idle"
      /\ inFlight' = inFlight \union {n} /\ Reservable(p)
      /\ UNCHANGED <<now, registry, cred, asked, reaper, drain>>
  BY DEF ReserveSlot
<1>3. n \in SlotRec /\ n.holder = h /\ n.opener = p
  BY DEF SlotRec
<1> HIDE DEF r, n
<1>4. /\ task' \in [Handlers -> TaskRec]
      /\ task'[h] = r
      /\ \A k \in Handlers \ {h} : task'[k] = task[k]
  BY TaskUpdate, <1>1, <1>2 DEF BrokerInv, Typed
<1>5. Typed'
  BY <1>1, <1>2, <1>3, <1>4 DEF BrokerInv, Typed, Busy
<1>6. \A slot \in inFlight : slot.holder \in Handlers /\ slot.holder # h
  BY <1>2 DEF BrokerInv, Typed, Slots, SlotRec
<1>7. Slots'
  <2>1. \A k \in Handlers : task'[k].at = "reserved" => \E slot \in inFlight' : slot.holder = k
    BY <1>2, <1>3, <1>4 DEF BrokerInv, Slots
  <2>2. \A slot \in inFlight' : task'[slot.holder].at = "reserved"
    BY <1>1, <1>2, <1>3, <1>4, <1>6 DEF BrokerInv, Slots
  <2>3. \A a, b \in inFlight' : a.holder = b.holder => a = b
    BY <1>2, <1>3, <1>6 DEF BrokerInv, Slots
  <2> QED
    BY <2>1, <2>2, <2>3 DEF Slots
<1>8. Quotas'
  BY <1>2, <1>3, <1>6, ReserveQuotas DEF BrokerInv
<1>9. NoNewSession /\ NoNewToken
  BY <1>2 DEF NoNewSession, NoNewToken
<1>10. Drained' /\ Tokens'
  BY <1>1, <1>2, <1>9, DrainedKept, TokensKept DEF BrokerInv
<1> QED
  BY <1>5, <1>7, <1>8, <1>10 DEF BrokerInv

\* A handler's slot is released, whatever the handler goes on to.
LEMMA ReleaseSlot ==
  ASSUME BrokerInv, NEW h \in Handlers, NEW r \in TaskRec, task' = [task EXCEPT ![h] = r],
         r.at # "reserved", r.at # "idle" => r.s \in Sessions,
         inFlight' = inFlight \ Slot(h),
         UNCHANGED <<now, cred, drain, reaper>>, registry' \in [Sessions -> SessionRec]
  PROVE  Typed' /\ Slots'
<1>1. /\ task' \in [Handlers -> TaskRec]
      /\ task'[h] = r
      /\ \A k \in Handlers \ {h} : task'[k] = task[k]
  BY TaskUpdate DEF BrokerInv, Typed
<1>2. Typed'
  BY <1>1 DEF BrokerInv, Typed, Busy
<1>3. \A slot \in inFlight : slot.holder \in Handlers
  BY DEF BrokerInv, Typed, SlotRec
<1>4. Slots'
  BY <1>1, <1>3 DEF BrokerInv, Slots, Slot
<1> QED
  BY <1>2, <1>4

\* An open that gives up: the spawn failed, or the drain refused the insert.
LEMMA OpenGivesUp ==
  ASSUME BrokerInv, NEW h \in Handlers, task' = [task EXCEPT ![h] = Idle],
         inFlight' = inFlight \ Slot(h),
         UNCHANGED <<now, registry, cred, reaper, drain>>
  PROVE  BrokerInv'
<1>1. NoNewSession /\ NoNewToken /\ registry' \in [Sessions -> SessionRec]
  BY DEF NoNewSession, NoNewToken, BrokerInv, Typed
<1>2. Typed' /\ Slots'
  BY <1>1, ReleaseSlot, ConstantRecords
<1>3. Quotas' /\ Drained' /\ Tokens'
  BY <1>1, QuotasShrink, DrainedKept, TokensKept, ConstantRecords DEF BrokerInv
<1> QED
  BY <1>2, <1>3 DEF BrokerInv

\* The slot of a handler that is opening: there is one, it is the only one, and the
\* opener written to the registry is the one it was reserved for.
LEMMA OneSlot ==
  ASSUME BrokerInv, NEW h \in Handlers, task[h].at = "reserved"
  PROVE  LET n == CHOOSE slot \in Slot(h) : TRUE
         IN  /\ n \in inFlight /\ n.opener \in Principals
             /\ Slot(h) = {n}
<1> DEFINE n == CHOOSE slot \in Slot(h) : TRUE
<1>1. n \in Slot(h)
  BY DEF Slot, BrokerInv, Slots
<1> HIDE DEF n
<1>2. n \in inFlight /\ n.holder = h
  BY <1>1 DEF Slot
<1>3. Slot(h) = {n}
  BY <1>2 DEF Slot, BrokerInv, Slots
<1>4. n.opener \in Principals
  BY <1>2 DEF BrokerInv, Typed, SlotRec
<1> QED
  BY <1>2, <1>3, <1>4 DEF n

\* A slot becomes a session of the same opener: the sums stay what they were.
LEMMA InsertQuotas ==
  ASSUME Typed, Quotas, NEW s \in Sessions, NEW n \in inFlight, NEW e,
         n.opener \in Principals, registry[s].st = "none",
         inFlight' = inFlight \ {n},
         registry' = [registry EXCEPT ![s] = e], e.st = "live", e.opener = n.opener
  PROVE  Quotas'
<1>1. /\ IsFiniteSet(inFlight')
      /\ Cardinality(inFlight') = Cardinality(inFlight) - 1
  BY FS_RemoveElement DEF Quotas
<1>2. /\ registry'[s] = e
      /\ \A q \in Sessions \ {s} : registry'[q] = registry[q]
  BY DEF Typed
<1>3. LiveSessions' = LiveSessions \union {s} /\ s \notin LiveSessions
  BY <1>2 DEF LiveSessions, Live
<1>4. /\ MaxSessions \in Nat /\ MaxPerPrincipal \in Nat
      /\ Cardinality(LiveSessions) \in Nat /\ Cardinality(inFlight) \in Nat
      /\ Cardinality(LiveSessions') = Cardinality(LiveSessions) + 1
  BY <1>3, BrokerConstants, FiniteParts, FS_AddElement DEF Quotas
<1>5. Cardinality(LiveSessions') + Cardinality(inFlight') <= MaxSessions
  BY <1>1, <1>4 DEF Quotas
<1>6. ASSUME NEW q \in Principals
      PROVE  Cardinality(LiveOf(q)') + Cardinality(SlotsOf(q)') <= MaxPerPrincipal
  <2>1. /\ Cardinality(LiveOf(q)) \in Nat /\ Cardinality(SlotsOf(q)) \in Nat
        /\ IsFiniteSet(SlotsOf(q)) /\ IsFiniteSet(LiveOf(q))
        /\ Cardinality(LiveOf(q)) + Cardinality(SlotsOf(q)) <= MaxPerPrincipal
    BY FiniteParts DEF Quotas
  <2>2. CASE q # n.opener
    <3>1. SlotsOf(q)' = SlotsOf(q)
      BY <2>2 DEF SlotsOf
    <3>2. LiveOf(q)' = LiveOf(q)
      BY <1>2, <1>3, <2>2 DEF LiveOf, LiveSessions
    <3> QED
      BY <2>1, <3>1, <3>2
  <2>3. CASE q = n.opener
    <3>1. SlotsOf(q)' = SlotsOf(q) \ {n} /\ n \in SlotsOf(q)
      BY <2>3 DEF SlotsOf
    <3>2. LiveOf(q)' = LiveOf(q) \union {s} /\ s \notin LiveOf(q)
      BY <1>2, <1>3, <2>3 DEF LiveOf, LiveSessions
    <3>3. Cardinality(SlotsOf(q)') = Cardinality(SlotsOf(q)) - 1
      BY <2>1, <3>1, FS_RemoveElement
    <3>4. Cardinality(LiveOf(q)') = Cardinality(LiveOf(q)) + 1
      BY <2>1, <3>2, FS_AddElement
    <3> QED
      BY <1>4, <2>1, <3>3, <3>4
  <2> QED
    BY <2>2, <2>3
<1> QED
  BY <1>1, <1>5, <1>6 DEF Quotas

\* open_with_opener_reserved, while no drain took its snapshot.
LEMMA InsertKeeps ==
  ASSUME BrokerInv, NEW h \in Handlers, NEW s \in Sessions, Insert(h, s)
  PROVE  BrokerInv'
<1>1. CASE drain.at \in {"closing", "done", "cut"}
  BY <1>1, OpenGivesUp DEF Insert
<1>2. CASE drain.at \notin {"closing", "done", "cut"}
  <2> DEFINE n == CHOOSE slot \in Slot(h) : TRUE
             o == n.opener
             r == [Idle EXCEPT !.at = "inserted", !.s = s]
             e == [NoSession EXCEPT !.st = "live", !.base = now, !.opener = o]
  <2>1. n \in inFlight /\ o \in Principals /\ Slot(h) = {n}
    BY OneSlot DEF Insert
  <2>2. /\ task' = [task EXCEPT ![h] = r] /\ registry' = [registry EXCEPT ![s] = e]
        /\ task[h].at = "reserved" /\ registry[s].st = "none"
        /\ inFlight' = inFlight \ Slot(h)
        /\ UNCHANGED <<now, cred, asked, reaper, drain>>
    BY <1>2 DEF Insert
  <2> HIDE DEF n
  <2>3. r \in TaskRec /\ r.at = "inserted" /\ r.s = s /\ r.gen = 0
    BY DEF Idle, TaskRec, Steps
  <2>4. now \in Nat
    BY DEF BrokerInv, Typed
  <2> HIDE DEF o
  <2>5. e \in SessionRec /\ e.st = "live" /\ e.opener = o
    BY <2>1, <2>4, ConstantRecords, FreshSession, ZenonT(30)
  <2> HIDE DEF r, e
  <2>6. registry' \in [Sessions -> SessionRec]
    BY <2>2, <2>5 DEF BrokerInv, Typed
  <2>7. Typed' /\ Slots'
    BY <2>2, <2>3, <2>6, ReleaseSlot
  <2>8. Quotas'
    BY <2>1, <2>2, <2>5, InsertQuotas DEF BrokerInv, o
  <2>9. Drained'
    BY <1>2, <2>2 DEF Drained, DrainLeavesNothing
  <2>10. /\ task'[h] = r
         /\ \A k \in Handlers \ {h} : task'[k] = task[k]
    BY <2>2, <2>3, TaskUpdate DEF BrokerInv, Typed
  <2>11. /\ Busy(h)' /\ ~Winner(h)'
         /\ \A k \in Handlers \ {h} : (Busy(k)' <=> Busy(k)) /\ (Winner(k)' <=> Winner(k))
    BY <2>3, <2>10 DEF Busy, Winner
  <2>12. cred[s].gen = 0 /\ \A k \in Handlers : Busy(k) => task[k].s # s
    BY <2>2 DEF BrokerInv, Tokens
  <2>13. \A q \in Sessions : registry'[q].st = "none" => registry[q].st = "none" /\ q # s
    BY <2>2, <2>5 DEF BrokerInv, Typed
  <2>14. \A q \in Sessions : registry'[q].st = "none" =>
            cred'[q].gen = 0 /\ \A k \in Handlers : Busy(k)' => task'[k].s # q
    BY <2>2, <2>3, <2>10, <2>11, <2>13 DEF BrokerInv, Tokens
  <2>15. \A k \in Handlers : task[k].at = "inserted" => Busy(k)
    BY DEF Busy
  <2>16. \A k \in Handlers : task'[k].at = "inserted" =>
            /\ task'[k].gen = 0 /\ cred'[task'[k].s].gen = 0
            /\ \A j \in Handlers : j # k /\ Busy(j)' => task'[j].s # task'[k].s
    BY <2>2, <2>3, <2>10, <2>11, <2>12, <2>15 DEF BrokerInv, Tokens
  <2>17. \A k \in Handlers : Winner(k)' =>
            cred'[task'[k].s].gen = 0 \/ task'[k].gen < cred'[task'[k].s].gen
    BY <2>2, <2>10, <2>11 DEF BrokerInv, Tokens
  <2>18. OneWinnerPerToken'
    <3>1. \A j, k \in Handlers : j # k /\ Winner(j) /\ Winner(k) /\ task[j].s = task[k].s
             => task[j].gen # task[k].gen
      BY DEF BrokerInv, Tokens, OneWinnerPerToken, Winner
    <3>2. \A j, k \in Handlers : j # k /\ Winner(j)' /\ Winner(k)' /\ task'[j].s = task'[k].s
             => task'[j].gen # task'[k].gen
      BY <2>10, <2>11, <3>1
    <3> QED
      BY <3>2 DEF OneWinnerPerToken, Winner
  <2> QED
    BY <2>7, <2>8, <2>9, <2>14, <2>16, <2>17, <2>18 DEF BrokerInv, Tokens
<1> QED
  BY <1>1, <1>2

-----------------------------------------------------------------------------
(* The theorems *)

\* The broker starts with no session, no slot and no credential.
LEMMA InitBrokerInv == Init => BrokerInv
<1> SUFFICES ASSUME Init PROVE BrokerInv
  OBVIOUS
<1>1. /\ \A s \in Sessions : registry[s] = NoSession /\ cred[s] = NoCred
      /\ \A h \in Handlers : task[h] = Idle
      /\ inFlight = {} /\ drain.at = "no"
  BY DEF Init
<1>2. Typed
  BY BrokerConstants, ConstantRecords
     DEF Init, Typed, Busy, Asleep, NoDeadlines, SlotRec, DrainRec
<1>3. Slots
  BY <1>1, ConstantRecords DEF Slots
<1>4. LiveSessions = {} /\ \A p \in Principals : LiveOf(p) = {} /\ SlotsOf(p) = {}
  BY <1>1, ConstantRecords DEF LiveSessions, Live, LiveOf, SlotsOf
<1>5. Quotas
  BY <1>1, <1>4, FS_EmptySet, BrokerConstants DEF Quotas
<1>6. Drained
  BY <1>1 DEF Drained, DrainLeavesNothing
<1>7. Tokens
  BY <1>1, ConstantRecords DEF Tokens, Busy, Winner, OneWinnerPerToken
<1> QED
  BY <1>2, <1>3, <1>5, <1>6, <1>7 DEF BrokerInv

\* Every background step keeps the invariant.
LEMMA BackgroundStep ==
  ASSUME BrokerInv,
         \/ \E s \in Sessions :
              \/ Exit(s) \/ ActorCloses(s) \/ CloseSession(s) \/ ForgetAfterClose(s)
              \/ ReaperCloses(s) \/ ReaperForgets(s) \/ DrainCloses(s) \/ DrainForgets(s)
         \/ Decide \/ RemoveExpired \/ SyncExpiry \/ ReaperSleeps
         \/ DrainFlag \/ CloseAll \/ DrainDone \/ DrainTimesOut
         \/ Advance
  PROVE  BrokerInv'
<1>1. Background
  BY ExitIsBackground, ActorClosesIsBackground, ClosesAreBackground,
     ReaperIsBackground, DrainIsBackground DEF BrokerInv
<1>2. Typed' /\ Slots' /\ Quotas' /\ Tokens'
  BY <1>1, BackgroundKeeps
<1>3. CASE drain' = drain
  BY <1>1, <1>2, <1>3, DrainedKept DEF BrokerInv, Background
<1>4. CASE drain' # drain
  <2>1. \/ DrainFlag \/ CloseAll \/ DrainDone \/ DrainTimesOut
        \/ \E s \in Sessions : DrainForgets(s)
    BY <1>4 DEF Exit, ActorCloses, CloseSession, ForgetAfterClose, ReaperCloses,
                ReaperForgets, DrainCloses, Decide, RemoveExpired, SyncExpiry,
                ReaperSleeps, Advance
  <2> QED
    BY <1>2, <2>1, DrainSteps, SMTT(30) DEF BrokerInv
<1> QED
  BY <1>3, <1>4

\* Every step keeps the invariant.
LEMMA NextBrokerInv == BrokerInv /\ [Next]_vars => BrokerInv'
<1> SUFFICES ASSUME BrokerInv, [Next]_vars PROVE BrokerInv'
  OBVIOUS
<1>1. CASE UNCHANGED vars
  BY <1>1 DEF vars, BrokerInv, Typed, Slots, Quotas, Drained, Tokens, Busy, Winner, LiveOf,
              SlotsOf, LiveSessions, Live, DrainLeavesNothing, OneWinnerPerToken
<1>2. ASSUME NEW h \in Handlers, NEW p \in Principals, ReserveSlot(h, p) PROVE BrokerInv'
  BY <1>2, ReserveSlotKeeps
<1>3. ASSUME NEW h \in Handlers,
             \/ SpawnFails(h) \/ IssueResume(h) \/ LookUp(h) \/ RotateResume(h)
             \/ SeedAndIssueTicket(h) \/ ReplyNotFound(h)
             \/ RedeemTicket(h) \/ DropTicket(h) \/ Detach(h)
      PROVE  BrokerInv'
  <2>1. CASE SpawnFails(h)
    BY <2>1, OpenGivesUp DEF SpawnFails
  <2> QED
    BY <1>3, <2>1, IssueResumeKeeps, QuietHandlerSteps, RotateResumeKeeps,
       SeedAndIssueTicketKeeps, StreamSteps
<1>4. ASSUME NEW h \in Handlers, NEW s \in Sessions, Insert(h, s) \/ VerifyResume(h, s)
      PROVE  BrokerInv'
  BY <1>4, InsertKeeps, VerifyResumeKeeps
<1> QED
  BY <1>1, <1>2, <1>3, <1>4, BackgroundStep DEF Next

\* The inductive invariant holds in every behaviour of the broker.
THEOREM BrokerInvariant == Spec => []BrokerInv
  BY InitBrokerInv, NextBrokerInv, PTL DEF Spec

\* Reservations are counted by their handlers.
LEMMA ReservedCount ==
  ASSUME Typed, Slots, Quotas
  PROVE  /\ {slot.holder : slot \in inFlight} = {h \in Handlers : task[h].at = "reserved"}
         /\ Cardinality({h \in Handlers : task[h].at = "reserved"}) \in Nat
         /\ Cardinality({h \in Handlers : task[h].at = "reserved"}) <= Cardinality(inFlight)
<1> DEFINE R == {h \in Handlers : task[h].at = "reserved"}
<1>1. {slot.holder : slot \in inFlight} = R
  BY DEF Typed, Slots, SlotRec
<1> DEFINE f == [slot \in inFlight |-> slot.holder]
<1>2. f \in Surjection(inFlight, R)
  BY <1>1 DEF Surjection
<1> HIDE DEF f, R
<1>3. IsFiniteSet(R) /\ Cardinality(R) <= Cardinality(inFlight)
  BY <1>2, FS_Surjection DEF Quotas
<1> QED
  BY <1>1, <1>3, FS_CardinalityType DEF R

\* The caps on sessions hold whatever opens race between reserve_slot and their
\* insert, and no reservation outlives its open.
THEOREM CapsHold == Spec => []QuotaHeld
<1>1. BrokerInv => QuotaHeld
  <2> SUFFICES ASSUME BrokerInv PROVE QuotaHeld
    OBVIOUS
  <2> DEFINE R == {h \in Handlers : task[h].at = "reserved"}
  <2>1. /\ {slot.holder : slot \in inFlight} = R
        /\ Cardinality(R) \in Nat /\ Cardinality(R) <= Cardinality(inFlight)
    BY ReservedCount DEF BrokerInv
  <2> HIDE DEF R
  <2>2. /\ Cardinality(LiveSessions) \in Nat /\ Cardinality(inFlight) \in Nat
        /\ MaxSessions \in Nat /\ MaxPerPrincipal \in Nat
        /\ Cardinality(LiveSessions) + Cardinality(inFlight) <= MaxSessions
    BY FiniteParts, BrokerConstants DEF BrokerInv, Quotas
  <2>3. Cardinality(LiveSessions) + Cardinality(R) <= MaxSessions
    BY <2>1, <2>2
  <2>4. ASSUME NEW p \in Principals PROVE Cardinality(LiveOf(p)) <= MaxPerPrincipal
    <3>1. /\ Cardinality(LiveOf(p)) \in Nat /\ Cardinality(SlotsOf(p)) \in Nat
          /\ Cardinality(LiveOf(p)) + Cardinality(SlotsOf(p)) <= MaxPerPrincipal
      BY FiniteParts DEF BrokerInv, Quotas
    <3> QED
      BY <2>2, <3>1
  <2> QED
    BY <2>1, <2>3, <2>4 DEF QuotaHeld, LiveOf, R
<1> QED
  BY <1>1, BrokerInvariant, PTL

\* A drain that ended in time left no session running, whatever opens were under
\* way when it took its snapshot.
THEOREM DrainIsComplete == Spec => []DrainLeavesNothing
<1>1. BrokerInv => DrainLeavesNothing
  BY DEF BrokerInv, Drained
<1> QED
  BY <1>1, BrokerInvariant, PTL

\* Two redemptions of one resume token never both win.
THEOREM TokenHasOneWinner == Spec => []OneWinnerPerToken
<1>1. BrokerInv => OneWinnerPerToken
  BY DEF BrokerInv, Tokens
<1> QED
  BY <1>1, BrokerInvariant, PTL

-----------------------------------------------------------------------------
(* The count of attachments *)

\* The data streams that hold an AttachGuard of s.
Streams(s) == {h \in Handlers : task[h].at = "attached" /\ task[h].s = s}

\* No session becomes registered, and the count of one that stays is the same.
CountsKept ==
    \A s \in Sessions : s \in Registered' =>
        s \in Registered /\ registry'[s].attached = registry[s].attached

LEMMA StreamsFinite ==
  /\ \A s : IsFiniteSet(Streams(s)) /\ Cardinality(Streams(s)) \in Nat
  /\ AttachCountExact <=> \A s \in Registered : registry[s].attached = Cardinality(Streams(s))
<1>1. ASSUME NEW s PROVE IsFiniteSet(Streams(s)) /\ Cardinality(Streams(s)) \in Nat
  <2>1. Streams(s) \in SUBSET Handlers
    BY DEF Streams
  <2> QED
    BY <2>1, BrokerConstants, FS_Subset, FS_CardinalityType
<1> QED
  BY <1>1 DEF AttachCountExact, Streams

\* A handler that neither starts nor ends a stream, and no count that changes.
LEMMA CountsUntouched ==
  ASSUME AttachCountExact, CountsKept,
         \A h \in Handlers : \/ task'[h] = task[h]
                             \/ task[h].at # "attached" /\ task'[h].at # "attached"
  PROVE  AttachCountExact'
<1>1. \A s : Streams(s)' = Streams(s)
  BY DEF Streams
<1>2. \A s \in Registered' : s \in Sessions
  BY DEF Registered
<1>3. \A s \in Registered' : registry'[s].attached = Cardinality(Streams(s)')
  BY <1>1, <1>2, StreamsFinite DEF CountsKept
<1> QED
  BY <1>3 DEF AttachCountExact, Streams

\* Registry updates that change no count.
LEMMA OneCount ==
  ASSUME Typed, NEW s \in Sessions, NEW r, registry' = [registry EXCEPT ![s] = r],
         r.st \in {"live", "closing", "closed"} => s \in Registered /\ r.attached = registry[s].attached
  PROVE  CountsKept
  BY DEF CountsKept, Typed, Registered

\* Actors, the reaper, the drain and the clock start and end no stream.
LEMMA BackgroundCounts ==
  ASSUME Typed, AttachCountExact,
         \/ \E s \in Sessions :
              \/ Exit(s) \/ ActorCloses(s) \/ CloseSession(s) \/ ForgetAfterClose(s)
              \/ ReaperCloses(s) \/ ReaperForgets(s) \/ DrainCloses(s) \/ DrainForgets(s)
         \/ Decide \/ RemoveExpired \/ SyncExpiry \/ ReaperSleeps
         \/ DrainFlag \/ CloseAll \/ DrainDone \/ DrainTimesOut
         \/ Advance
  PROVE  AttachCountExact'
<1>1. task' = task
  BY DEF Exit, ActorCloses, CloseSession, ForgetAfterClose, ReaperCloses, ReaperForgets,
         DrainCloses, DrainForgets, Decide, RemoveExpired, SyncExpiry, ReaperSleeps,
         DrainFlag, CloseAll, DrainDone, DrainTimesOut, Advance
<1>2. CASE registry' = registry
  <2>1. CountsKept
    BY <1>2 DEF CountsKept, Registered
  <2> QED
    BY <1>1, <2>1, CountsUntouched
<1>3. CASE RemoveExpired
  <2> DEFINE g == [NoSession EXCEPT !.st = "gone"]
  <2>1. g.st = "gone"
    BY ConstantRecords DEF SessionRec
  <2>2. registry' = [s \in Sessions |-> IF s \in reaper.expired THEN g ELSE registry[s]]
    BY <1>3 DEF RemoveExpired
  <2> HIDE DEF g
  <2>3. CountsKept
    BY <2>1, <2>2 DEF CountsKept, Registered
  <2> QED
    BY <1>1, <2>3, CountsUntouched
<1>4. ASSUME NEW s \in Sessions, NEW r, registry' = [registry EXCEPT ![s] = r],
             registry[s].st \in {"live", "closing", "closed"}, r.attached = registry[s].attached
      PROVE  AttachCountExact'
  <2>1. CountsKept
    BY <1>4, OneCount DEF Registered
  <2> QED
    BY <1>1, <2>1, CountsUntouched
<1>5. ASSUME NEW s \in Sessions, Exit(s) PROVE AttachCountExact'
  <2> DEFINE r == [registry[s] EXCEPT !.exited = TRUE, !.base = now]
  <2>1. registry[s] \in SessionRec
    BY DEF Typed
  <2>2. r.attached = registry[s].attached
    BY <2>1 DEF SessionRec
  <2>3. registry' = [registry EXCEPT ![s] = r] /\ registry[s].st \in {"live", "closing", "closed"}
    BY <1>5 DEF Exit, Live
  <2> HIDE DEF r
  <2> QED
    BY <1>4, <2>2, <2>3
<1>6. ASSUME NEW s \in Sessions, ActorCloses(s) PROVE AttachCountExact'
  <2> DEFINE r == [registry[s] EXCEPT !.st = "closed", !.closedAt = now, !.closeBy = 0]
  <2>1. registry[s] \in SessionRec
    BY DEF Typed
  <2>2. r.attached = registry[s].attached
    BY <2>1 DEF SessionRec
  <2>3. registry' = [registry EXCEPT ![s] = r] /\ registry[s].st \in {"live", "closing", "closed"}
    BY <1>6 DEF ActorCloses
  <2> HIDE DEF r
  <2> QED
    BY <1>4, <2>2, <2>3
<1>7. ASSUME NEW s \in Sessions, NEW q, AskClose(q, s) PROVE AttachCountExact'
  <2> DEFINE r == [registry[s] EXCEPT !.st = "closing", !.closeBy = now + CloseMax]
  <2>1. registry[s] \in SessionRec
    BY DEF Typed
  <2>2. r.attached = registry[s].attached
    BY <2>1 DEF SessionRec
  <2>3. \/ registry' = registry
        \/ registry' = [registry EXCEPT ![s] = r] /\ registry[s].st = "live"
    BY <1>7 DEF AskClose
  <2> HIDE DEF r
  <2> QED
    BY <1>2, <1>4, <2>2, <2>3
<1>8. \/ registry' = registry \/ RemoveExpired
      \/ \E s \in Sessions : Exit(s) \/ ActorCloses(s) \/ \E q : AskClose(q, s)
  BY DEF CloseSession, ForgetAfterClose, ReaperCloses, ReaperForgets,
         DrainCloses, DrainForgets, Decide, SyncExpiry, ReaperSleeps,
         DrainFlag, CloseAll, DrainDone, DrainTimesOut, Advance
<1> QED
  BY <1>2, <1>3, <1>5, <1>6, <1>7, <1>8

\* attach_guard and its drop.
LEMMA StreamCounts ==
  ASSUME BrokerInv, AttachCountExact, NEW h \in Handlers, RedeemTicket(h) \/ Detach(h)
  PROVE  AttachCountExact'
<1>1. PICK s \in Sessions : s = task[h].s
  BY DEF RedeemTicket, Detach, BrokerInv, Typed, Busy
<1>2. registry[s] \in SessionRec /\ registry[s].attached \in Int
  BY DEF BrokerInv, Typed, SessionRec
<1>3. \A q \in Sessions : q \in Registered => registry[q].attached = Cardinality(Streams(q))
  BY StreamsFinite
<1>4. task[h] \in TaskRec
  BY DEF BrokerInv, Typed
<1>5. ASSUME NEW r, task' = [task EXCEPT ![h] = r]
      PROVE  /\ task'[h] = r /\ \A k \in Handlers \ {h} : task'[k] = task[k]
             /\ \A q : q # s /\ (r.at = "attached" => r.s = s) => Streams(q)' = Streams(q)
  <2>1. task'[h] = r /\ \A k \in Handlers \ {h} : task'[k] = task[k]
    BY <1>5 DEF BrokerInv, Typed
  <2> QED
    BY <1>1, <2>1 DEF Streams
<1>6. CASE RedeemTicket(h) /\ Live(s)
  <2> DEFINE a == [task[h] EXCEPT !.at = "attached", !.until = 0]
             u == [registry[s] EXCEPT !.attached = registry[s].attached + 1]
  <2>1. a.at = "attached" /\ a.s = s
    BY <1>1, <1>4 DEF TaskRec
  <2>2. /\ task' = [task EXCEPT ![h] = a] /\ task[h].at = "ticketed"
        /\ registry' = [registry EXCEPT ![s] = u]
    BY <1>1, <1>6 DEF RedeemTicket
  <2>3. u.attached = registry[s].attached + 1 /\ u.st = registry[s].st
    BY <1>2 DEF SessionRec
  <2> HIDE DEF a, u
  <2>4. Streams(s)' = Streams(s) \union {h} /\ h \notin Streams(s)
    BY <1>5, <2>1, <2>2 DEF Streams
  <2>5. Cardinality(Streams(s)') = Cardinality(Streams(s)) + 1
    BY <2>4, StreamsFinite, FS_AddElement
  <2>6. \A q \in Sessions : q # s => Streams(q)' = Streams(q) /\ registry'[q] = registry[q]
    BY <1>5, <2>1, <2>2 DEF BrokerInv, Typed
  <2>7. registry'[s] = u
    BY <2>2 DEF BrokerInv, Typed
  <2>8. s \in Registered
    BY <1>6 DEF Registered, Live
  <2>9. registry'[s].attached = Cardinality(Streams(s)')
    BY <1>3, <2>3, <2>5, <2>7, <2>8
  <2>10. \A q \in Sessions : q # s /\ q \in Registered' => registry'[q].attached = Cardinality(Streams(q)')
    BY <1>3, <2>6 DEF Registered
  <2> QED
    BY <2>9, <2>10 DEF AttachCountExact, Streams, Registered
<1>7. CASE RedeemTicket(h) /\ ~Live(s)
  <2>1. task' = [task EXCEPT ![h] = Idle] /\ registry' = registry /\ task[h].at # "attached"
    BY <1>1, <1>7 DEF RedeemTicket
  <2>2. CountsKept
    BY <2>1 DEF CountsKept, Registered
  <2>3. task'[h].at # "attached"
    BY <1>5, <2>1, ConstantRecords
  <2> QED
    BY <1>5, <2>1, <2>2, <2>3, CountsUntouched
<1>8. CASE Detach(h)
  <2>1. task' = [task EXCEPT ![h] = Idle] /\ task[h].at = "attached"
    BY <1>8 DEF Detach
  <2>2. task'[h] = Idle /\ \A k \in Handlers \ {h} : task'[k] = task[k]
    BY <1>5, <2>1
  <2>3. Streams(s)' = Streams(s) \ {h} /\ h \in Streams(s)
    BY <1>1, <2>1, <2>2, ConstantRecords DEF Streams
  <2>4. \A q \in Sessions : q # s => Streams(q)' = Streams(q)
    BY <1>5, <2>1, ConstantRecords
  <2>5. Cardinality(Streams(s)') = Cardinality(Streams(s)) - 1
    BY <2>3, StreamsFinite, FS_RemoveElement
  <2>6. CASE s \notin Registered
    <3>1. registry' = registry
      BY <1>1, <1>8, <2>6 DEF Detach
    <3>2. \A q \in Registered' : q # s /\ q \in Registered /\ q \in Sessions
      BY <2>6, <3>1 DEF Registered
    <3>3. \A q \in Registered' : registry'[q].attached = Cardinality(Streams(q)')
      BY <1>3, <2>4, <3>1, <3>2
    <3> QED
      BY <3>3 DEF AttachCountExact, Streams
  <2>7. CASE s \in Registered
    <3> DEFINE b == IF registry[s].attached = 1 THEN now ELSE registry[s].base
               d == [registry[s] EXCEPT !.attached = registry[s].attached - 1, !.base = b]
    <3>1. registry' = [registry EXCEPT ![s] = d]
      BY <1>1, <1>8, <2>7 DEF Detach
    <3> HIDE DEF b
    <3>2. d.attached = registry[s].attached - 1
      BY <1>2 DEF SessionRec
    <3> HIDE DEF d
    <3>3. registry'[s] = d /\ \A q \in Sessions : q # s => registry'[q] = registry[q]
      BY <3>1 DEF BrokerInv, Typed
    <3>4. registry'[s].attached = Cardinality(Streams(s)')
      BY <1>3, <2>5, <2>7, <3>2, <3>3
    <3>5. \A q \in Sessions : q # s /\ q \in Registered' => registry'[q].attached = Cardinality(Streams(q)')
      BY <1>3, <2>4, <3>3 DEF Registered
    <3> QED
      BY <3>4, <3>5 DEF AttachCountExact, Streams, Registered
  <2> QED
    BY <2>6, <2>7
<1> QED
  BY <1>6, <1>7, <1>8

\* open_with_opener_reserved: nobody is attached to a session that was never opened.
LEMMA InsertCounts ==
  ASSUME BrokerInv, AttachCountExact, NEW h \in Handlers, NEW s \in Sessions, Insert(h, s)
  PROVE  AttachCountExact'
<1>1. task[h].at = "reserved" /\ registry[s].st = "none"
  BY DEF Insert
<1>2. task \in [Handlers -> TaskRec] /\ registry \in [Sessions -> SessionRec]
  BY DEF BrokerInv, Typed
<1>3. CASE task' = [task EXCEPT ![h] = Idle] /\ UNCHANGED registry
  <2>1. CountsKept
    BY <1>3 DEF CountsKept, Registered
  <2>2. task'[h].at # "attached" /\ \A k \in Handlers \ {h} : task'[k] = task[k]
    BY <1>2, <1>3, ConstantRecords
  <2> QED
    BY <1>1, <2>1, <2>2, CountsUntouched
<1>4. ASSUME NEW o, registry' = [registry EXCEPT ![s] =
                    [NoSession EXCEPT !.st = "live", !.base = now, !.opener = o]],
             task' = [task EXCEPT ![h] = [Idle EXCEPT !.at = "inserted", !.s = s]]
      PROVE  AttachCountExact'
  <2> DEFINE e == [NoSession EXCEPT !.st = "live", !.base = now, !.opener = o]
             r == [Idle EXCEPT !.at = "inserted", !.s = s]
  <2>1. registry' = [registry EXCEPT ![s] = e] /\ task' = [task EXCEPT ![h] = r]
    BY <1>4
  <2>2. e.attached = 0 /\ r.at = "inserted"
    BY DEF NoSession, Idle
  <2> HIDE DEF e, r
  <2>3. registry'[s] = e /\ \A q \in Sessions : q # s => registry'[q] = registry[q]
    BY <1>2, <2>1
  <2>4. task'[h].at = "inserted" /\ \A k \in Handlers \ {h} : task'[k] = task[k]
    BY <1>2, <2>1, <2>2
  <2>5. \A q : Streams(q)' = Streams(q)
    BY <1>1, <2>4 DEF Streams
  <2>6. Streams(s) = {}
    BY <1>1 DEF Streams, BrokerInv, Tokens, Busy
  <2>7. Cardinality(Streams(s)') = 0
    BY <2>5, <2>6, FS_EmptySet
  <2>8. \A q \in Sessions : q # s /\ q \in Registered' => registry'[q].attached = Cardinality(Streams(q)')
    BY <2>3, <2>5, StreamsFinite DEF Registered
  <2> QED
    BY <2>2, <2>3, <2>7, <2>8 DEF AttachCountExact, Streams, Registered
<1> QED
  BY <1>3, <1>4, Zenon DEF Insert

\* The other steps of a handler start and end no stream and touch no session.
LEMMA HandlerCounts ==
  ASSUME BrokerInv, AttachCountExact, NEW h \in Handlers,
         \/ \E p \in Principals : ReserveSlot(h, p)
         \/ SpawnFails(h) \/ IssueResume(h) \/ LookUp(h) \/ RotateResume(h)
         \/ SeedAndIssueTicket(h) \/ ReplyNotFound(h) \/ DropTicket(h)
         \/ \E s \in Sessions : VerifyResume(h, s)
  PROVE  AttachCountExact'
<1>1. task[h] \in TaskRec /\ DOMAIN task = Handlers
  BY DEF BrokerInv, Typed
<1>2. registry' = registry /\ task[h].at # "attached"
  BY DEF ReserveSlot, SpawnFails, IssueResume, LookUp, RotateResume, SeedAndIssueTicket,
         ReplyNotFound, DropTicket, VerifyResume
<1>3. CountsKept
  BY <1>2 DEF CountsKept, Registered
<1>4. PICK r : task' = [task EXCEPT ![h] = r] /\ r.at # "attached"
  <2>1. \A s, g : [Idle EXCEPT !.at = "verified", !.s = s, !.gen = g].at = "verified"
    BY DEF Idle
  <2>4. Idle.at = "idle"
    BY ConstantRecords
  <2>5. CASE \E p \in Principals : ReserveSlot(h, p)
    <3> DEFINE r == [task[h] EXCEPT !.at = "reserved"]
    <3>1. r.at = "reserved"
      BY <1>1 DEF TaskRec
    <3>2. task' = [task EXCEPT ![h] = r]
      BY <2>5 DEF ReserveSlot
    <3> HIDE DEF r
    <3> QED
      BY <3>1, <3>2
  <2>6. CASE SpawnFails(h) \/ ReplyNotFound(h) \/ DropTicket(h)
    BY <2>4, <2>6 DEF SpawnFails, ReplyNotFound, DropTicket
  <2>7. CASE IssueResume(h)
    <3> DEFINE r == [task[h] EXCEPT !.at = "ticketed", !.until = now + TicketTtl]
    <3>1. r.at = "ticketed"
      BY <1>1 DEF TaskRec
    <3>2. task' = [task EXCEPT ![h] = r]
      BY <2>7 DEF IssueResume
    <3> HIDE DEF r
    <3> QED
      BY <3>1, <3>2
  <2>8. CASE LookUp(h)
    <3> DEFINE f == [task[h] EXCEPT !.at = "found"]
               m == [task[h] EXCEPT !.at = "missed"]
    <3>1. f.at = "found" /\ m.at = "missed"
      BY <1>1 DEF TaskRec
    <3>2. \/ task' = [task EXCEPT ![h] = Idle] \/ task' = [task EXCEPT ![h] = f]
          \/ task' = [task EXCEPT ![h] = m]
      BY <2>8 DEF LookUp
    <3> HIDE DEF f, m
    <3> QED
      BY <2>4, <3>1, <3>2
  <2>9. CASE RotateResume(h)
    <3> DEFINE r == [task[h] EXCEPT !.at = "rotated"]
    <3>1. r.at = "rotated"
      BY <1>1 DEF TaskRec
    <3>2. task' = [task EXCEPT ![h] = r] \/ task' = [task EXCEPT ![h] = Idle]
      BY <2>9 DEF RotateResume
    <3> HIDE DEF r
    <3> QED
      BY <2>4, <3>1, <3>2
  <2>10. CASE SeedAndIssueTicket(h)
    <3> DEFINE r == [task[h] EXCEPT !.at = "ticketed", !.until = now + TicketTtl]
               m == [task[h] EXCEPT !.at = "missed"]
    <3>1. r.at = "ticketed" /\ m.at = "missed"
      BY <1>1 DEF TaskRec
    <3>2. task' = [task EXCEPT ![h] = r] \/ task' = [task EXCEPT ![h] = m]
      BY <2>10 DEF SeedAndIssueTicket
    <3> HIDE DEF r, m
    <3> QED
      BY <3>1, <3>2
  <2>11. CASE \E s \in Sessions : VerifyResume(h, s)
    <3>1. PICK s \in Sessions : VerifyResume(h, s)
      BY <2>11
    <3> DEFINE v == [Idle EXCEPT !.at = "verified", !.s = s, !.gen = cred[s].gen]
    <3>2. v.at = "verified"
      BY <2>1
    <3>3. task' = [task EXCEPT ![h] = v]
      BY <3>1 DEF VerifyResume
    <3> HIDE DEF v
    <3> QED
      BY <3>2, <3>3
  <2> QED
    BY <2>5, <2>6, <2>7, <2>8, <2>9, <2>10, <2>11
<1>5. task'[h].at # "attached" /\ \A k \in Handlers \ {h} : task'[k] = task[k]
  BY <1>1, <1>4
<1> QED
  BY <1>2, <1>3, <1>5, CountsUntouched

\* Every step keeps the counts.
LEMMA NextCounts == BrokerInv /\ AttachCountExact /\ [Next]_vars => AttachCountExact'
<1> SUFFICES ASSUME BrokerInv, AttachCountExact, [Next]_vars PROVE AttachCountExact'
  OBVIOUS
<1>1. CASE UNCHANGED vars
  BY <1>1 DEF vars, AttachCountExact, Registered
<1>2. Typed
  BY DEF BrokerInv
<1> QED
  BY <1>1, <1>2, BackgroundCounts, StreamCounts, InsertCounts, HandlerCounts DEF Next

\* The attach count of a session is the number of data streams that hold a guard,
\* however attaches, detaches, closes and the reaper interleave.
THEOREM AttachesCounted == Spec => []AttachCountExact
<1>1. Init => AttachCountExact
  BY ConstantRecords DEF Init, AttachCountExact, Registered
<1> QED
  BY <1>1, NextCounts, BrokerInvariant, PTL DEF Spec
-----------------------------------------------------------------------------
(* Time: T stands for the time of the reaper's last Decide *)

\* A handler at the given step works on s.
At(step, s) == \E h \in Handlers : task[h].at = step /\ task[h].s = s

\* What is left of a pass: the snapshot of Decide is used up step by step.
ReaperTypes ==
    /\ asked \in [Sessions -> SUBSET Requesters]
    /\ reaper.at \in {"asleep", "remove", "sync", "close"} /\ reaper.wake \in Nat
    /\ reaper.doomed \subseteq Sessions /\ reaper.expired \subseteq Sessions
    /\ DOMAIN reaper.deadline \subseteq Sessions
    /\ reaper.at = "asleep" => reaper.doomed = {}
    /\ reaper.at # "remove" => reaper.expired = {}
    /\ reaper.at \notin {"remove", "sync"} => DOMAIN reaper.deadline = {}

\* Somebody awaits a close of s, and forgets its credential in the same unit of
\* time, or the process is ending.
Called(s) == asked[s] # {} \/ drain.at = "cut"

\* Only sessions that were opened are asked to close, doomed or re-anchored, and
\* the reaper drops only sessions whose credential somebody was to forget earlier.
Calls(s) ==
    /\ asked[s] # {} => registry[s].st \notin {"none", "live"}
    /\ s \in reaper.doomed \union drain.left \union DOMAIN reaper.deadline
         => registry[s].st # "none"
    /\ s \in reaper.expired => /\ registry[s].st = "closed" /\ registry[s].closedAt < now
                               /\ s \in DOMAIN reaper.deadline
    /\ registry[s].st = "closing" => Called(s) /\ registry[s].closeBy <= now + CloseMax

\* issue_resume stored the credential after the close had forgotten it: nobody
\* attached, and the reaper's deadline is the one it was stored with.
Late(s) ==
    /\ registry[s].attached = 0 /\ registry[s].base = registry[s].closedAt
    /\ cred[s].expires = registry[s].closedAt + Ttl
    /\ s \in DOMAIN reaper.deadline => reaper.deadline[s] = registry[s].closedAt + Ttl

\* A live session has a credential from the unit of time in which it was opened,
\* a closed one only until it is forgotten, or a late one.
Creds(s) ==
    /\ At("inserted", s) =>
           /\ s \in Registered /\ registry[s].base = now
           /\ registry[s].st = "closed" => registry[s].closedAt = now
           /\ s \in DOMAIN reaper.deadline => reaper.deadline[s] = now + Ttl
    /\ At("found", s) =>
           /\ s \in Registered
           /\ registry[s].st = "closed" =>
                  registry[s].closedAt = now /\ (cred[s].gen > 0 => Called(s))
    /\ registry[s].st = "live" => cred[s].gen > 0 \/ At("inserted", s)
    /\ registry[s].st = "closed" /\ cred[s].gen > 0 =>
           Late(s) \/ (registry[s].closedAt = now /\ Called(s))

\* The pass has written its deadlines.
Synced == reaper.at \in {"asleep", "close"}

\* A pass decides and syncs at T, waits at most CloseMax, then sleeps a tick.
PassTimes(T) ==
    /\ T <= now
    /\ reaper.at = "asleep" => now <= reaper.wake /\ reaper.wake <= T + Period
    /\ reaper.at \in {"remove", "sync"} => now = T
    /\ reaper.at = "close" => now <= T + CloseMax

\* What the pass at T did not doom or expire was not due then.
Reaps(T, s) ==
    /\ s \in reaper.doomed =>
           /\ "reaper" \notin asked[s] => now = T
           /\ "reaper" \in asked[s] /\ registry[s].st = "closing"
                => registry[s].closeBy <= T + CloseMax
    /\ registry[s].st = "live" /\ registry[s].attached = 0 =>
           /\ now <= registry[s].base + Ttl + Period
           /\ s \notin reaper.doomed => T < registry[s].base + Ttl
    /\ registry[s].st = "closed" =>
           /\ now <= registry[s].closedAt + Retention + Period
           /\ s \notin reaper.expired => T <= registry[s].closedAt + Retention

\* The credential of a live session that is not doomed had not lapsed at T.
Lapses(T, s) ==
    registry[s].st = "live" =>
        /\ s \in DOMAIN reaper.deadline =>
               /\ T <= reaper.deadline[s] + Period
               /\ s \notin reaper.doomed => T <= reaper.deadline[s]
        /\ cred[s].gen > 0 =>
               /\ now <= cred[s].expires + Period
               /\ Synced /\ s \notin reaper.doomed => T <= cred[s].expires
               /\ ~Synced /\ s \notin DOMAIN reaper.deadline => now < cred[s].expires

\* The retention kept the session registered beyond the lapse of its credential.
Spent(T, s) == T + Ttl <= cred[s].expires + Retention + Period

\* The credential of a session that left the registry had not lapsed at T, or
\* its session left the registry in that pass.
Strays(T, s) ==
    registry[s].st = "gone" /\ cred[s].gen > 0 =>
        /\ \/ now <= cred[s].expires + Period
           \/ now + Ttl <= cred[s].expires + Retention + 2 * Period
        /\ Synced => T <= cred[s].expires \/ Spent(T, s)
        /\ s \in DOMAIN reaper.deadline =>
               reaper.at = "sync" /\ reaper.deadline[s] = cred[s].expires /\ Spent(T, s)

OfSession(T, s) == Calls(s) /\ Creds(s) /\ Reaps(T, s) /\ Lapses(T, s) /\ Strays(T, s)

Timed(T) == ReaperTypes /\ PassTimes(T) /\ \A s \in Sessions : OfSession(T, s)

\* The clock, and the part of the reaper's pass that only the reaper's own steps change.
Calm ==
    /\ now' = now
    /\ reaper'.at = reaper.at /\ reaper'.wake = reaper.wake
    /\ reaper'.expired = reaper.expired /\ reaper'.deadline = reaper.deadline
    /\ reaper'.doomed \subseteq reaper.doomed
    /\ drain'.at = "cut" <=> drain.at = "cut"

\* Nothing the predicates on s read has changed.
Same(s) ==
    /\ registry'[s] = registry[s]
    /\ cred'[s].gen = cred[s].gen /\ cred'[s].expires = cred[s].expires
    /\ asked'[s] = asked[s]
    /\ s \in reaper.doomed => s \in reaper'.doomed
    /\ s \in drain'.left => s \in drain.left \/ registry[s].st # "none"
    /\ At("inserted", s)' <=> At("inserted", s)
    /\ At("found", s)' => At("found", s) \/ Live(s)

\* The numbers of the state and of the constants.
Numbers(s) ==
    /\ now \in Nat
    /\ registry[s].st \in States /\ registry[s].attached \in Int
    /\ registry[s].base \in Nat /\ registry[s].closeBy \in Nat /\ registry[s].closedAt \in Nat
    /\ cred[s].gen \in Nat /\ cred[s].expires \in Nat
    /\ s \in DOMAIN reaper.deadline => reaper.deadline[s] \in Nat

LEMMA Times ==
  /\ Ttl \in Nat /\ Ttl > 0 /\ Retention \in Nat /\ Retention > 0
  /\ CloseMax \in Nat /\ CloseMax > 0 /\ ReaperTick \in Nat /\ ReaperTick > 0
  /\ Period \in Nat /\ Period = ReaperTick + CloseMax
  BY BrokerConstants DEF Period

LEMMA AreNumbers ==
  ASSUME Typed, NEW s \in Sessions
  PROVE  Numbers(s)
  BY DEF Typed, Numbers, SessionRec, CredRec

\* A session nothing happens to stays in time.
LEMMA SameStays ==
  ASSUME NEW T \in Nat, NEW s \in Sessions, OfSession(T, s), Calm, Same(s)
  PROVE  OfSession(T, s)'
<1>1. Called(s)' <=> Called(s)
  BY DEF Called, Calm, Same
<1>2. Late(s)' <=> Late(s)
  BY DEF Late, Calm, Same
<1>3. (Synced' <=> Synced) /\ (s \in reaper'.doomed <=> s \in reaper.doomed)
  BY DEF Synced, Calm, Same
<1>4. (s \in Registered' <=> s \in Registered) /\ (Live(s) => s \in Registered /\ registry[s].st # "closed")
  BY DEF Registered, Same, Live
<1>5. Calls(s)'
  BY <1>1, <1>3 DEF OfSession, Calls, Calm, Same
<1>6. Creds(s)'
  BY <1>1, <1>2, <1>4 DEF OfSession, Creds, Calm, Same
<1>7. Reaps(T, s)'
  BY <1>3 DEF OfSession, Reaps, Calm, Same
<1>8. Lapses(T, s)'
  BY <1>3 DEF OfSession, Lapses, Calm, Same
<1>9. Strays(T, s)'
  BY <1>3 DEF OfSession, Strays, Spent, Calm, Same
<1> QED
  BY <1>5, <1>6, <1>7, <1>8, <1>9 DEF OfSession

\* A step that touches one session at most.
LEMMA OneTouched ==
  ASSUME NEW T \in Nat, Timed(T), Calm, asked' \in [Sessions -> SUBSET Requesters],
         \A s \in Sessions : Same(s) \/ OfSession(T, s)'
  PROVE  Timed(T)'
<1>1. ReaperTypes' /\ PassTimes(T)'
  BY DEF Timed, ReaperTypes, PassTimes, Calm
<1>2. \A s \in Sessions : OfSession(T, s)'
  BY SameStays DEF Timed
<1> QED
  BY <1>1, <1>2 DEF Timed

\* A handler that leaves sessions, expiries and closes alone, and looks up none
\* that is not live.
Quietly(h) ==
    /\ UNCHANGED <<now, registry, asked, reaper, drain>>
    /\ \A s \in Sessions : cred'[s].gen = cred[s].gen /\ cred'[s].expires = cred[s].expires
    /\ task[h].at # "inserted"
    /\ \E r : /\ task' = [task EXCEPT ![h] = r]
              /\ r.at # "inserted" /\ (r.at = "found" => Live(r.s))

LEMMA QuietlyTimed ==
  ASSUME NEW T \in Nat, Timed(T), Typed, NEW h \in Handlers, Quietly(h)
  PROVE  Timed(T)'
<1>1. PICK r : /\ task' = [task EXCEPT ![h] = r]
               /\ r.at # "inserted" /\ (r.at = "found" => Live(r.s))
  BY DEF Quietly
<1>2. task'[h] = r /\ \A k \in Handlers \ {h} : task'[k] = task[k]
  BY <1>1 DEF Typed
<1>3. \A s \in Sessions : /\ At("inserted", s)' <=> At("inserted", s)
                          /\ At("found", s)' => At("found", s) \/ Live(s)
  BY <1>1, <1>2 DEF Quietly, At
<1>4. Calm /\ asked' \in [Sessions -> SUBSET Requesters]
  BY DEF Quietly, Calm, Timed, ReaperTypes
<1>5. \A s \in Sessions : Same(s)
  BY <1>3 DEF Quietly, Same
<1> QED
  BY <1>4, <1>5, OneTouched

\* The steps of a handler that neither open a session nor attach to it.
LEMMA HandlerIsQuiet ==
  ASSUME Typed, NEW h \in Handlers,
         \/ \E p \in Principals : ReserveSlot(h, p)
         \/ SpawnFails(h) \/ LookUp(h) \/ SeedAndIssueTicket(h)
         \/ ReplyNotFound(h) \/ DropTicket(h)
         \/ \E s \in Sessions : VerifyResume(h, s)
  PROVE  Quietly(h)
<1>1. task[h] \in TaskRec /\ task[h].at # "inserted"
  BY DEF Typed, ReserveSlot, SpawnFails, LookUp, SeedAndIssueTicket, ReplyNotFound,
         DropTicket, VerifyResume
<1>2. UNCHANGED <<now, registry, asked, reaper, drain>>
  BY DEF ReserveSlot, SpawnFails, LookUp, SeedAndIssueTicket, ReplyNotFound,
         DropTicket, VerifyResume
<1>3. \A s \in Sessions : cred'[s].gen = cred[s].gen /\ cred'[s].expires = cred[s].expires
  <2>1. CASE cred' = cred
    BY <2>1
  <2>2. CASE cred' # cred
    <3> DEFINE s == task[h].s
               b == cred[s].known \/ cred[s].gen = task[h].gen + 1
               c == [cred[s] EXCEPT !.known = b]
    <3>1. SeedAndIssueTicket(h)
      BY <2>2 DEF ReserveSlot, SpawnFails, LookUp, ReplyNotFound, DropTicket, VerifyResume
    <3>2. cred' = [cred EXCEPT ![s] = c]
      BY <2>2, <3>1 DEF SeedAndIssueTicket
    <3>3. task[h].at = "rotated"
      BY <3>1 DEF SeedAndIssueTicket
    <3>4. s \in Sessions
      BY <3>3 DEF Typed, Busy
    <3>5. cred[s] \in CredRec
      BY <3>4 DEF Typed
    <3> HIDE DEF b
    <3>6. c.gen = cred[s].gen /\ c.expires = cred[s].expires
      BY <3>5 DEF CredRec
    <3> HIDE DEF c, s
    <3> QED
      BY <3>2, <3>4, <3>6 DEF Typed
  <2> QED
    BY <2>1, <2>2
<1>4. PICK r : /\ task' = [task EXCEPT ![h] = r]
               /\ r.at # "inserted" /\ (r.at = "found" => Live(r.s))
  <2>1. Idle.at = "idle"
    BY ConstantRecords
  <2>2. CASE \E p \in Principals : ReserveSlot(h, p)
    <3> DEFINE r == [task[h] EXCEPT !.at = "reserved"]
    <3>1. r.at = "reserved"
      BY <1>1 DEF TaskRec
    <3>2. task' = [task EXCEPT ![h] = r]
      BY <2>2 DEF ReserveSlot
    <3> HIDE DEF r
    <3> QED
      BY <3>1, <3>2
  <2>3. CASE SpawnFails(h) \/ ReplyNotFound(h) \/ DropTicket(h)
    BY <2>1, <2>3 DEF SpawnFails, ReplyNotFound, DropTicket
  <2>4. CASE LookUp(h)
    <3> DEFINE f == [task[h] EXCEPT !.at = "found"]
               m == [task[h] EXCEPT !.at = "missed"]
    <3>1. f.at = "found" /\ f.s = task[h].s /\ m.at = "missed"
      BY <1>1 DEF TaskRec
    <3>2. \/ task' = [task EXCEPT ![h] = Idle]
          \/ task' = [task EXCEPT ![h] = f] /\ Live(task[h].s)
          \/ task' = [task EXCEPT ![h] = m]
      BY <2>4 DEF LookUp
    <3> HIDE DEF f, m
    <3> QED
      BY <2>1, <3>1, <3>2 DEF Live
  <2>5. CASE SeedAndIssueTicket(h)
    <3> DEFINE r == [task[h] EXCEPT !.at = "ticketed", !.until = now + TicketTtl]
               m == [task[h] EXCEPT !.at = "missed"]
    <3>1. r.at = "ticketed" /\ m.at = "missed"
      BY <1>1 DEF TaskRec
    <3>2. task' = [task EXCEPT ![h] = r] \/ task' = [task EXCEPT ![h] = m]
      BY <2>5 DEF SeedAndIssueTicket
    <3> HIDE DEF r, m
    <3> QED
      BY <3>1, <3>2
  <2>6. CASE \E s \in Sessions : VerifyResume(h, s)
    <3>1. PICK s \in Sessions : VerifyResume(h, s)
      BY <2>6
    <3> DEFINE v == [Idle EXCEPT !.at = "verified", !.s = s, !.gen = cred[s].gen]
    <3>2. v.at = "verified"
      BY DEF Idle
    <3>3. task' = [task EXCEPT ![h] = v]
      BY <3>1 DEF VerifyResume
    <3> HIDE DEF v
    <3> QED
      BY <3>2, <3>3
  <2> QED
    BY <2>2, <2>3, <2>4, <2>5, <2>6
<1> QED
  BY <1>1, <1>2, <1>3, <1>4 DEF Quietly

\* open_with_opener_reserved: the TTL starts now, nobody has asked for a close.
LEMMA InsertTimed ==
  ASSUME NEW T \in Nat, Timed(T), BrokerInv, NEW h \in Handlers, NEW s \in Sessions, Insert(h, s)
  PROVE  Timed(T)'
<1>1. /\ task[h].at = "reserved" /\ registry[s].st = "none"
      /\ UNCHANGED <<now, cred, asked, reaper, drain>>
  BY DEF Insert
<1>2. Typed /\ task \in [Handlers -> TaskRec] /\ registry \in [Sessions -> SessionRec]
  BY DEF BrokerInv, Typed
<1>3. CASE task' = [task EXCEPT ![h] = Idle] /\ UNCHANGED registry
  <2>1. Idle.at = "idle"
    BY ConstantRecords
  <2>2. Quietly(h)
    BY <1>1, <1>3, <2>1 DEF Quietly
  <2> QED
    BY <1>2, <2>2, QuietlyTimed
<1>4. ASSUME NEW o, registry' = [registry EXCEPT ![s] =
                    [NoSession EXCEPT !.st = "live", !.base = now, !.opener = o]],
             task' = [task EXCEPT ![h] = [Idle EXCEPT !.at = "inserted", !.s = s]]
      PROVE  Timed(T)'
  <2> DEFINE e == [NoSession EXCEPT !.st = "live", !.base = now, !.opener = o]
             r == [Idle EXCEPT !.at = "inserted", !.s = s]
  <2>1. registry' = [registry EXCEPT ![s] = e] /\ task' = [task EXCEPT ![h] = r]
    BY <1>4
  <2>2. /\ e.st = "live" /\ e.base = now /\ e.attached = 0
        /\ r.at = "inserted" /\ r.s = s
    BY DEF NoSession, Idle
  <2> HIDE DEF e, r
  <2>3. registry'[s] = e /\ \A q \in Sessions : q # s => registry'[q] = registry[q]
    BY <1>2, <2>1
  <2>4. task'[h] = r /\ \A k \in Handlers \ {h} : task'[k] = task[k]
    BY <1>2, <2>1
  <2>5. /\ cred[s].gen = 0
        /\ \A k \in Handlers : task[k].at \notin {"idle", "reserved"} => task[k].s # s
    BY <1>1 DEF BrokerInv, Tokens, Busy
  <2>6. At("inserted", s)' /\ ~At("found", s)'
    BY <2>2, <2>4, <2>5 DEF At
  <2>7. Calm /\ asked' \in [Sessions -> SUBSET Requesters]
    BY <1>1 DEF Calm, Timed, ReaperTypes
  <2>8. ASSUME NEW q \in Sessions, q # s PROVE Same(q)
    <3>1. (At("inserted", q)' <=> At("inserted", q)) /\ (At("found", q)' => At("found", q))
      BY <1>1, <2>2, <2>4, <2>8 DEF At
    <3> QED
      BY <1>1, <2>3, <2>8, <3>1 DEF Same
  <2>9. /\ asked[s] = {} /\ s \notin reaper.doomed /\ s \notin drain.left
        /\ s \notin DOMAIN reaper.deadline /\ s \notin reaper.expired
    BY <1>1 DEF Timed, OfSession, Calls
  <2>10. T <= now /\ now \in Nat
    BY <1>2 DEF Timed, PassTimes, Typed
  <2>11. Calls(s)' /\ Creds(s)'
    BY <1>1, <2>2, <2>3, <2>6, <2>9 DEF Calls, Creds, Registered
  <2>12. Reaps(T, s)' /\ Lapses(T, s)' /\ Strays(T, s)'
    BY <1>1, <2>2, <2>3, <2>5, <2>9, <2>10, Times DEF Reaps, Lapses, Strays
  <2> QED
    BY <2>7, <2>8, <2>11, <2>12, OneTouched DEF OfSession
<1> QED
  BY <1>3, <1>4, Zenon DEF Insert

\* issue_resume: in the same unit of time, on a session nobody is attached to.
LEMMA IssueResumeTimed ==
  ASSUME NEW T \in Nat, Timed(T), BrokerInv, AttachCountExact,
         NEW h \in Handlers, IssueResume(h)
  PROVE  Timed(T)'
<1>1. PICK s \in Sessions : s = task[h].s
  BY DEF IssueResume, BrokerInv, Typed, Busy
<1>2. Typed /\ task[h] \in TaskRec /\ Numbers(s) /\ T <= now
  BY AreNumbers DEF BrokerInv, Typed, Timed, PassTimes
<1> DEFINE r == [task[h] EXCEPT !.at = "ticketed", !.until = now + TicketTtl]
           c == [gen |-> 1, expires |-> now + Ttl, known |-> TRUE]
<1>3. /\ task' = [task EXCEPT ![h] = r] /\ cred' = [cred EXCEPT ![s] = c]
      /\ task[h].at = "inserted"
      /\ UNCHANGED <<now, registry, asked, reaper, drain>>
  BY <1>1 DEF IssueResume
<1>4. r.at = "ticketed" /\ c.gen = 1 /\ c.expires = now + Ttl
  BY <1>2 DEF TaskRec
<1> HIDE DEF r, c
<1>5. /\ task'[h] = r /\ \A k \in Handlers \ {h} : task'[k] = task[k]
      /\ cred'[s] = c /\ \A q \in Sessions : q # s => cred'[q] = cred[q]
  BY <1>2, <1>3 DEF Typed
<1>6. \A k \in Handlers \ {h} : task[k].at \notin {"idle", "reserved"} => task[k].s # s
  BY <1>1, <1>3 DEF BrokerInv, Tokens, Busy
<1>7. At("inserted", s) /\ ~At("inserted", s)' /\ ~At("found", s)'
  BY <1>1, <1>3, <1>4, <1>5, <1>6 DEF At
<1>8. /\ s \in Registered /\ registry[s].base = now
      /\ registry[s].st = "closed" => registry[s].closedAt = now
      /\ s \in DOMAIN reaper.deadline => reaper.deadline[s] = now + Ttl
  BY <1>7 DEF Timed, OfSession, Creds
<1>9. registry[s].attached = 0
  <2>1. Streams(s) = {}
    BY <1>3, <1>6 DEF Streams
  <2> QED
    BY <1>8, <2>1, StreamsFinite, FS_EmptySet
<1>10. Calm /\ asked' \in [Sessions -> SUBSET Requesters]
  BY <1>3 DEF Calm, Timed, ReaperTypes
<1>11. ASSUME NEW q \in Sessions, q # s PROVE Same(q)
  <2>1. (At("inserted", q)' <=> At("inserted", q)) /\ (At("found", q)' => At("found", q))
    BY <1>1, <1>4, <1>5, <1>11 DEF At
  <2> QED
    BY <1>3, <1>5, <1>11, <2>1 DEF Same
<1>12. Calls(s)' /\ Reaps(T, s)'
  BY <1>3 DEF Timed, OfSession, Calls, Called, Reaps
<1>13. registry[s].st = "closed" => Late(s)'
  BY <1>3, <1>4, <1>5, <1>8, <1>9 DEF Late
<1>14. Creds(s)'
  BY <1>3, <1>4, <1>5, <1>7, <1>13 DEF Creds
<1>15. Lapses(T, s)' /\ Strays(T, s)'
  BY <1>2, <1>3, <1>4, <1>5, <1>8, Times DEF Timed, OfSession, Lapses, Strays, Registered, Numbers, Synced
<1> QED
  BY <1>10, <1>11, <1>12, <1>14, <1>15, OneTouched DEF OfSession

\* rotate_resume: the session was live in this unit of time.
LEMMA RotateResumeTimed ==
  ASSUME NEW T \in Nat, Timed(T), BrokerInv, NEW h \in Handlers, RotateResume(h)
  PROVE  Timed(T)'
<1>1. PICK s \in Sessions : s = task[h].s
  BY DEF RotateResume, BrokerInv, Typed, Busy
<1>2. Typed /\ task[h] \in TaskRec /\ Numbers(s) /\ T <= now
  BY AreNumbers DEF BrokerInv, Typed, Timed, PassTimes
<1>3. task[h].at = "found" /\ UNCHANGED <<now, registry, asked, reaper, drain>>
  BY DEF RotateResume
<1>4. CASE ~Verifies(s, task[h].gen)
  <2>1. Idle.at = "idle"
    BY ConstantRecords
  <2>2. task' = [task EXCEPT ![h] = Idle] /\ cred' = cred
    BY <1>1, <1>4 DEF RotateResume
  <2>3. Quietly(h)
    BY <1>3, <2>1, <2>2 DEF Quietly
  <2> QED
    BY <1>2, <2>3, QuietlyTimed
<1>5. CASE Verifies(s, task[h].gen)
  <2> DEFINE r == [task[h] EXCEPT !.at = "rotated"]
             c == [gen |-> cred[s].gen + 1, expires |-> now + Ttl, known |-> FALSE]
  <2>1. task' = [task EXCEPT ![h] = r] /\ cred' = [cred EXCEPT ![s] = c]
    BY <1>1, <1>5 DEF RotateResume
  <2>2. r.at = "rotated" /\ c.gen = cred[s].gen + 1 /\ c.expires = now + Ttl
    BY <1>2 DEF TaskRec
  <2>3. cred[s].gen > 0
    BY <1>5 DEF Verifies
  <2> HIDE DEF r, c
  <2>4. /\ task'[h] = r /\ \A k \in Handlers \ {h} : task'[k] = task[k]
        /\ cred'[s] = c /\ \A q \in Sessions : q # s => cred'[q] = cred[q]
    BY <1>2, <2>1 DEF Typed
  <2>5. /\ At("found", s)
        /\ \A q \in Sessions : (At("inserted", q)' <=> At("inserted", q)) /\ (At("found", q)' => At("found", q))
    BY <1>1, <1>3, <2>2, <2>4 DEF At
  <2>6. /\ s \in Registered
        /\ registry[s].st = "closed" => registry[s].closedAt = now /\ Called(s)
    BY <2>3, <2>5 DEF Timed, OfSession, Creds
  <2>7. Calm /\ asked' \in [Sessions -> SUBSET Requesters]
    BY <1>3 DEF Calm, Timed, ReaperTypes
  <2>8. ASSUME NEW q \in Sessions, q # s PROVE Same(q)
    BY <1>3, <2>4, <2>5, <2>8 DEF Same
  <2>9. Calls(s)' /\ Reaps(T, s)' /\ (Called(s)' <=> Called(s))
    BY <1>3 DEF Timed, OfSession, Calls, Called, Reaps
  <2>10. cred'[s].gen > 0 /\ cred'[s].expires = now + Ttl
    BY <1>2, <2>2, <2>4 DEF Numbers
  <2>11. Creds(s)'
    BY <1>3, <2>5, <2>6, <2>9, <2>10 DEF Timed, OfSession, Creds, Registered
  <2>12. Lapses(T, s)' /\ Strays(T, s)'
    BY <1>2, <1>3, <2>6, <2>10, Times DEF Timed, OfSession, Lapses, Strays, Registered, Numbers, Synced
  <2> QED
    BY <2>7, <2>8, <2>9, <2>11, <2>12, OneTouched DEF OfSession
<1> QED
  BY <1>4, <1>5

\* attach_guard suspends the TTL.
LEMMA RedeemTimed ==
  ASSUME NEW T \in Nat, Timed(T), BrokerInv, AttachCountExact,
         NEW h \in Handlers, RedeemTicket(h)
  PROVE  Timed(T)'
<1>1. PICK s \in Sessions : s = task[h].s
  BY DEF RedeemTicket, BrokerInv, Typed, Busy
<1>2. Typed /\ task[h] \in TaskRec /\ registry[s] \in SessionRec
  BY DEF BrokerInv, Typed
<1>3. task[h].at = "ticketed" /\ UNCHANGED <<now, cred, asked, reaper, drain>>
  BY DEF RedeemTicket
<1>4. CASE ~Live(s)
  <2>1. Idle.at = "idle"
    BY ConstantRecords
  <2>2. task' = [task EXCEPT ![h] = Idle] /\ registry' = registry
    BY <1>1, <1>4 DEF RedeemTicket
  <2>3. Quietly(h)
    BY <1>3, <2>1, <2>2 DEF Quietly
  <2> QED
    BY <1>2, <2>3, QuietlyTimed
<1>5. CASE Live(s)
  <2> DEFINE a == [task[h] EXCEPT !.at = "attached", !.until = 0]
             u == [registry[s] EXCEPT !.attached = registry[s].attached + 1]
  <2>1. task' = [task EXCEPT ![h] = a] /\ registry' = [registry EXCEPT ![s] = u]
    BY <1>1, <1>5 DEF RedeemTicket
  <2>2. /\ a.at = "attached" /\ u.st = registry[s].st /\ u.attached = registry[s].attached + 1
        /\ u.base = registry[s].base /\ u.closeBy = registry[s].closeBy
    BY <1>2 DEF TaskRec, SessionRec
  <2> HIDE DEF a, u
  <2>3. /\ task'[h] = a /\ \A k \in Handlers \ {h} : task'[k] = task[k]
        /\ registry'[s] = u /\ \A q \in Sessions : q # s => registry'[q] = registry[q]
    BY <1>2, <2>1 DEF Typed
  <2>4. \A q \in Sessions : (At("inserted", q)' <=> At("inserted", q)) /\ (At("found", q)' <=> At("found", q))
    BY <1>3, <2>2, <2>3 DEF At
  <2>5. registry'[s].attached # 0 /\ registry[s].st \in {"live", "closing"}
    <3>1. s \in Registered
      BY <1>5 DEF Live, Registered
    <3>2. registry[s].attached \in Nat
      BY <3>1, StreamsFinite
    <3> QED
      BY <1>5, <2>2, <2>3, <3>2 DEF Live
  <2>6. Calm /\ asked' \in [Sessions -> SUBSET Requesters]
    BY <1>3 DEF Calm, Timed, ReaperTypes
  <2>7. ASSUME NEW q \in Sessions, q # s PROVE Same(q)
    BY <1>3, <2>3, <2>4, <2>7 DEF Same
  <2>8. Calls(s)'
    BY <1>3, <2>2, <2>3, <2>5 DEF Timed, OfSession, Calls, Called
  <2>9. Creds(s)'
    BY <1>3, <2>2, <2>3, <2>4, <2>5 DEF Timed, OfSession, Creds, Registered
  <2>10. Reaps(T, s)' /\ Lapses(T, s)' /\ Strays(T, s)'
    BY <1>3, <2>2, <2>3, <2>5 DEF Timed, OfSession, Reaps, Lapses, Strays, Synced
  <2> QED
    BY <2>6, <2>7, <2>8, <2>9, <2>10, OneTouched DEF OfSession
<1> QED
  BY <1>4, <1>5

\* The last AttachGuard to drop restarts the TTL.
LEMMA DetachTimed ==
  ASSUME NEW T \in Nat, Timed(T), BrokerInv, AttachCountExact,
         NEW h \in Handlers, Detach(h)
  PROVE  Timed(T)'
<1>1. PICK s \in Sessions : s = task[h].s
  BY DEF Detach, BrokerInv, Typed, Busy
<1>2. Typed /\ registry[s] \in SessionRec /\ Numbers(s) /\ T <= now
  BY AreNumbers DEF BrokerInv, Typed, Timed, PassTimes
<1>3. /\ task[h].at = "attached" /\ task' = [task EXCEPT ![h] = Idle]
      /\ UNCHANGED <<now, cred, asked, reaper, drain>>
  BY DEF Detach
<1>4. Idle.at = "idle"
  BY ConstantRecords
<1>5. CASE s \notin Registered
  <2>1. registry' = registry
    BY <1>1, <1>5 DEF Detach
  <2>2. Quietly(h)
    BY <1>3, <1>4, <2>1 DEF Quietly
  <2> QED
    BY <1>2, <2>2, QuietlyTimed
<1>6. CASE s \in Registered
  <2> DEFINE b == IF registry[s].attached = 1 THEN now ELSE registry[s].base
             d == [registry[s] EXCEPT !.attached = registry[s].attached - 1, !.base = b]
  <2>1. registry' = [registry EXCEPT ![s] = d]
    BY <1>1, <1>6 DEF Detach
  <2>2. b = now \/ registry[s].attached # 1
    OBVIOUS
  <2> HIDE DEF b
  <2>3. /\ d.st = registry[s].st /\ d.attached = registry[s].attached - 1 /\ d.base = b
        /\ d.closeBy = registry[s].closeBy /\ d.closedAt = registry[s].closedAt
    BY <1>2 DEF SessionRec
  <2> HIDE DEF d
  <2>4. /\ task'[h] = Idle /\ \A k \in Handlers \ {h} : task'[k] = task[k]
        /\ registry'[s] = d /\ \A q \in Sessions : q # s => registry'[q] = registry[q]
    BY <1>2, <1>3, <2>1 DEF Typed
  <2>5. \A q \in Sessions : (At("inserted", q)' <=> At("inserted", q)) /\ (At("found", q)' <=> At("found", q))
    BY <1>3, <1>4, <2>4 DEF At
  <2>6. ~At("inserted", s)
    BY <1>1, <1>3 DEF At, BrokerInv, Tokens, Busy
  <2>7. registry[s].attached # 0
    <3>1. h \in Streams(s)
      BY <1>1, <1>3 DEF Streams
    <3>2. Cardinality(Streams(s)) # 0
      BY <3>1, StreamsFinite, FS_EmptySet
    <3> QED
      BY <1>6, <3>2, StreamsFinite
  <2>8. registry'[s].attached = 0 => registry'[s].base = now
    BY <1>2, <2>2, <2>3, <2>4 DEF Numbers
  <2>9. Calm /\ asked' \in [Sessions -> SUBSET Requesters]
    BY <1>3 DEF Calm, Timed, ReaperTypes
  <2>10. ASSUME NEW q \in Sessions, q # s PROVE Same(q)
    BY <1>3, <2>4, <2>5, <2>10 DEF Same
  <2>11. Calls(s)' /\ (Called(s)' <=> Called(s))
    BY <1>3, <2>3, <2>4 DEF Timed, OfSession, Calls, Called
  <2>12. ~Late(s)
    BY <2>7 DEF Late
  <2>13. Creds(s)'
    BY <1>3, <2>3, <2>4, <2>5, <2>6, <2>11, <2>12 DEF Timed, OfSession, Creds, Registered
  <2>14. Reaps(T, s)'
    BY <1>2, <1>3, <2>3, <2>4, <2>8, Times DEF Timed, OfSession, Reaps, Numbers
  <2>15. Lapses(T, s)' /\ Strays(T, s)'
    BY <1>3, <2>3, <2>4 DEF Timed, OfSession, Lapses, Strays, Spent, Synced
  <2> QED
    BY <2>9, <2>10, <2>11, <2>13, <2>14, <2>15, OneTouched DEF OfSession
<1> QED
  BY <1>5, <1>6

\* The child's exit restarts the TTL.
LEMMA ExitTimed ==
  ASSUME NEW T \in Nat, Timed(T), Typed, NEW s \in Sessions, Exit(s)
  PROVE  Timed(T)'
<1>1. registry[s] \in SessionRec /\ T <= now /\ Numbers(s)
  BY AreNumbers DEF Typed, Timed, PassTimes
<1> DEFINE r == [registry[s] EXCEPT !.exited = TRUE, !.base = now]
<1>2. /\ registry' = [registry EXCEPT ![s] = r] /\ registry[s].st \in {"live", "closing"}
      /\ UNCHANGED <<now, cred, asked, reaper, drain, task>>
  BY DEF Exit, Live
<1>3. /\ r.st = registry[s].st /\ r.base = now /\ r.closeBy = registry[s].closeBy
  BY <1>1 DEF SessionRec
<1> HIDE DEF r
<1>4. registry'[s] = r /\ \A q \in Sessions : q # s => registry'[q] = registry[q]
  BY <1>2 DEF Typed
<1>5. \A q \in Sessions : (At("inserted", q)' <=> At("inserted", q)) /\ (At("found", q)' <=> At("found", q))
  BY <1>2 DEF At
<1>6. Calm /\ asked' \in [Sessions -> SUBSET Requesters]
  BY <1>2 DEF Calm, Timed, ReaperTypes
<1>7. ASSUME NEW q \in Sessions, q # s PROVE Same(q)
  BY <1>2, <1>4, <1>5, <1>7 DEF Same
<1>8. Calls(s)'
  BY <1>2, <1>3, <1>4 DEF Timed, OfSession, Calls, Called
<1>9. Creds(s)'
  BY <1>2, <1>3, <1>4, <1>5 DEF Timed, OfSession, Creds, Registered
<1>10. Reaps(T, s)' /\ Lapses(T, s)' /\ Strays(T, s)'
  BY <1>1, <1>2, <1>3, <1>4, Times DEF Timed, OfSession, Reaps, Lapses, Strays, Synced, Numbers
<1> QED
  BY <1>6, <1>7, <1>8, <1>9, <1>10, OneTouched DEF OfSession

\* mark_closed: whoever asked for the close is still there to forget the credential.
LEMMA ActorClosesTimed ==
  ASSUME NEW T \in Nat, Timed(T), Typed, NEW s \in Sessions, ActorCloses(s)
  PROVE  Timed(T)'
<1>1. registry[s] \in SessionRec /\ T <= now /\ Numbers(s)
  BY AreNumbers DEF Typed, Timed, PassTimes
<1> DEFINE r == [registry[s] EXCEPT !.st = "closed", !.closedAt = now, !.closeBy = 0]
<1>2. /\ registry' = [registry EXCEPT ![s] = r] /\ registry[s].st = "closing"
      /\ UNCHANGED <<now, cred, asked, reaper, drain, task>>
  BY DEF ActorCloses
<1>3. r.st = "closed" /\ r.base = registry[s].base /\ r.closedAt = now
  BY <1>1 DEF SessionRec
<1> HIDE DEF r
<1>4. registry'[s] = r /\ \A q \in Sessions : q # s => registry'[q] = registry[q]
  BY <1>2 DEF Typed
<1>5. \A q \in Sessions : (At("inserted", q)' <=> At("inserted", q)) /\ (At("found", q)' <=> At("found", q))
  BY <1>2 DEF At
<1>6. Calm /\ asked' \in [Sessions -> SUBSET Requesters]
  BY <1>2 DEF Calm, Timed, ReaperTypes
<1>7. ASSUME NEW q \in Sessions, q # s PROVE Same(q)
  BY <1>2, <1>4, <1>5, <1>7 DEF Same
<1>8. Called(s)' /\ s \notin reaper.expired
  BY <1>2 DEF Timed, OfSession, Calls, Called
<1>9. Calls(s)'
  BY <1>2, <1>3, <1>4, <1>8 DEF Timed, OfSession, Calls
<1>10. Creds(s)'
  BY <1>2, <1>3, <1>4, <1>5, <1>8 DEF Timed, OfSession, Creds, Registered
<1>11. Reaps(T, s)' /\ Lapses(T, s)' /\ Strays(T, s)'
  BY <1>1, <1>2, <1>3, <1>4, Times DEF Timed, OfSession, Reaps, Lapses, Strays, Numbers
<1> QED
  BY <1>6, <1>7, <1>9, <1>10, <1>11, OneTouched DEF OfSession

\* SessionHandle::close, for a user, the reaper or the drain.
LEMMA AskCloseTimed ==
  ASSUME NEW T \in Nat, Timed(T), Typed, NEW s \in Sessions,
         CloseSession(s) \/ ReaperCloses(s) \/ DrainCloses(s)
  PROVE  Timed(T)'
<1>1. registry[s] \in SessionRec /\ T <= now /\ Numbers(s)
  BY AreNumbers DEF Typed, Timed, PassTimes
<1>2. PICK w \in Requesters :
        /\ AskClose(w, s) /\ registry[s].st # "none"
        /\ w = "reaper" => s \in reaper.doomed
        /\ UNCHANGED <<now, cred, reaper, drain, task>>
  <2>1. CASE CloseSession(s)
    BY <2>1 DEF CloseSession, Live, Requesters
  <2>2. CASE ReaperCloses(s)
    BY <2>2 DEF ReaperCloses, Requesters, Timed, OfSession, Calls
  <2>3. CASE DrainCloses(s)
    BY <2>3 DEF DrainCloses, Requesters, Timed, OfSession, Calls
  <2> QED
    BY <2>1, <2>2, <2>3
<1>3. /\ w \notin asked[s] /\ asked \in [Sessions -> SUBSET Requesters]
      /\ asked' = [asked EXCEPT ![s] = asked[s] \union {w}]
  BY <1>2 DEF AskClose, Timed, ReaperTypes
<1>4. /\ asked' \in [Sessions -> SUBSET Requesters] /\ asked'[s] = asked[s] \union {w}
      /\ \A q \in Sessions : q # s => asked'[q] = asked[q]
  BY <1>3
<1>5. /\ \A q \in Sessions : q # s => registry'[q] = registry[q]
      /\ registry'[s].base = registry[s].base /\ registry'[s].closedAt = registry[s].closedAt
      /\ registry'[s].attached = registry[s].attached
      /\ \/ registry[s].st # "live" /\ registry'[s] = registry[s]
         \/ /\ registry[s].st = "live" /\ registry'[s].st = "closing"
            /\ registry'[s].closeBy = now + CloseMax
  <2> DEFINE r == [registry[s] EXCEPT !.st = "closing", !.closeBy = now + CloseMax]
  <2>1. /\ r.st = "closing" /\ r.closeBy = now + CloseMax /\ r.base = registry[s].base
        /\ r.closedAt = registry[s].closedAt /\ r.attached = registry[s].attached
    BY <1>1 DEF SessionRec
  <2>2. registry' = IF registry[s].st = "live" THEN [registry EXCEPT ![s] = r] ELSE registry
    BY <1>2 DEF AskClose
  <2> HIDE DEF r
  <2> QED
    BY <2>1, <2>2 DEF Typed
<1>6. \A q \in Sessions : (At("inserted", q)' <=> At("inserted", q)) /\ (At("found", q)' <=> At("found", q))
  BY <1>2 DEF At
<1>7. Calm
  BY <1>2 DEF Calm
<1>8. ASSUME NEW q \in Sessions, q # s PROVE Same(q)
  BY <1>2, <1>4, <1>5, <1>6, <1>8 DEF Same
<1>9. Called(s)' /\ (s \in Registered' <=> s \in Registered)
  BY <1>4, <1>5 DEF Called, Registered
<1>10. Calls(s)'
  BY <1>1, <1>2, <1>5, <1>9, Times DEF Timed, OfSession, Calls, Numbers
<1>11. registry'[s].st = "closed" => (Late(s)' <=> Late(s))
  BY <1>2, <1>5 DEF Late
<1>12. Creds(s)'
  BY <1>2, <1>5, <1>6, <1>9, <1>11 DEF Timed, OfSession, Creds
<1>13. Reaps(T, s)'
  <2>1. /\ asked[s] # {} => registry[s].st # "live"
        /\ registry[s].st = "closing" => registry[s].closeBy <= now + CloseMax
    BY DEF Timed, OfSession, Calls
  <2>2. "reaper" \in asked'[s] <=> w = "reaper" \/ "reaper" \in asked[s]
    BY <1>4
  <2>3. Reaps(T, s)
    BY DEF Timed, OfSession
  <2> QED
    BY <1>1, <1>2, <1>3, <1>5, <2>1, <2>2, <2>3, Times DEF Reaps, Numbers
<1>14. Lapses(T, s)' /\ Strays(T, s)'
  BY <1>2, <1>5 DEF Timed, OfSession, Lapses, Strays, Spent, Synced
<1> QED
  BY <1>4, <1>7, <1>8, <1>10, <1>12, <1>13, <1>14, OneTouched DEF OfSession

\* The credential is forgotten after the close.
LEMMA ForgetTimed ==
  ASSUME NEW T \in Nat, Timed(T), Typed, NEW s \in Sessions,
         ForgetAfterClose(s) \/ ReaperForgets(s) \/ DrainForgets(s)
  PROVE  Timed(T)'
<1>1. PICK w \in Requesters :
        /\ w \in asked[s] /\ ~Live(s)
        /\ asked' = [asked EXCEPT ![s] = asked[s] \ {w}]
        /\ cred' = [cred EXCEPT ![s] = NoCred]
        /\ UNCHANGED <<now, registry, task>>
        /\ IF w = "reaper" THEN reaper' = [reaper EXCEPT !.doomed = reaper.doomed \ {s}]
                           ELSE reaper' = reaper
        /\ drain' = drain \/ drain' = [drain EXCEPT !.left = drain.left \ {s}]
  <2>1. CASE ForgetAfterClose(s)
    BY <2>1 DEF ForgetAfterClose, Requesters
  <2>2. CASE ReaperForgets(s)
    BY <2>2 DEF ReaperForgets, Requesters
  <2>3. CASE DrainForgets(s)
    BY <2>3 DEF DrainForgets, Requesters
  <2> QED
    BY <2>1, <2>2, <2>3
<1>2. /\ asked' \in [Sessions -> SUBSET Requesters] /\ asked'[s] = asked[s] \ {w}
      /\ \A q \in Sessions : q # s => asked'[q] = asked[q]
  BY <1>1 DEF Timed, ReaperTypes
<1>3. cred'[s].gen = 0 /\ \A q \in Sessions : q # s => cred'[q] = cred[q]
  BY <1>1, ConstantRecords DEF Typed
<1>4. /\ reaper'.at = reaper.at /\ reaper'.wake = reaper.wake
      /\ reaper'.expired = reaper.expired /\ reaper'.deadline = reaper.deadline
      /\ reaper'.doomed = IF w = "reaper" THEN reaper.doomed \ {s} ELSE reaper.doomed
  BY <1>1 DEF Typed
<1>5. drain'.at = drain.at /\ drain'.left \subseteq drain.left
  BY <1>1 DEF Typed, DrainRec
<1>6. Calm
  BY <1>1, <1>4, <1>5 DEF Calm
<1>7. \A q \in Sessions : (At("inserted", q)' <=> At("inserted", q)) /\ (At("found", q)' <=> At("found", q))
  BY <1>1 DEF At
<1>8. ASSUME NEW q \in Sessions, q # s PROVE Same(q)
  BY <1>1, <1>2, <1>3, <1>4, <1>5, <1>7, <1>8 DEF Same
<1>9. registry[s].st \notin {"none", "live", "closing"}
  BY <1>1 DEF Timed, OfSession, Calls, Live
<1>10. Calls(s)'
  BY <1>1, <1>2, <1>4, <1>5, <1>9 DEF Timed, OfSession, Calls
<1>11. Creds(s)'
  BY <1>1, <1>3, <1>4, <1>7, <1>9 DEF Timed, OfSession, Creds, Registered
<1>12. Reaps(T, s)'
  BY <1>1, <1>2, <1>4, <1>9 DEF Timed, OfSession, Reaps
<1>13. Lapses(T, s)' /\ Strays(T, s)'
  BY <1>1, <1>3, <1>9 DEF Lapses, Strays
<1> QED
  BY <1>2, <1>6, <1>8, <1>10, <1>11, <1>12, <1>13, OneTouched DEF OfSession

\* Decide starts the next pass, at most a period after the one before.
LEMMA DecideTimed ==
  ASSUME NEW T \in Nat, Timed(T), Typed, AttachCountExact, Decide
  PROVE  \E N \in Nat : Timed(N)'
<1>1. PICK N \in Nat : N = now
  BY DEF Typed
<1>2. /\ reaper.at = "asleep" /\ reaper.wake <= now
      /\ UNCHANGED <<now, registry, cred, asked, drain, task>>
  BY DEF Decide
<1> DEFINE d == [s \in Registered |-> Deadline(s)]
<1>3. /\ reaper'.at = "remove" /\ reaper'.wake = reaper.wake /\ reaper'.deadline = d
      /\ reaper'.doomed = {s \in Sessions : Doomed(s)}
      /\ reaper'.expired = {s \in Sessions : registry[s].st = "closed"
                                              /\ now >= registry[s].closedAt + Retention}
  BY DEF Decide, Typed
<1>4. /\ DOMAIN d = Registered /\ Registered \subseteq Sessions
      /\ \A s \in Registered : d[s] = Deadline(s)
  BY DEF Registered
<1> HIDE DEF d
<1>5. ReaperTypes'
  BY <1>2, <1>3, <1>4 DEF Timed, ReaperTypes
<1>6. PassTimes(N)'
  BY <1>1, <1>2, <1>3 DEF PassTimes, Timed, Typed
<1>7. ASSUME NEW s \in Sessions PROVE OfSession(N, s)'
  <2>1. Numbers(s) /\ OfSession(T, s) /\ T <= now
    BY AreNumbers DEF Timed, PassTimes
  <2>2. s \in Registered => registry[s].attached \in Nat
    BY StreamsFinite
  <2>3. s \in Registered <=> registry[s].st \in {"live", "closing", "closed"}
    BY DEF Registered
  <2>4. /\ s \in reaper'.doomed <=> registry[s].st = "live" /\ registry[s].attached = 0
                                     /\ now >= registry[s].base + Ttl
        /\ s \in reaper'.expired <=> registry[s].st = "closed"
                                     /\ now >= registry[s].closedAt + Retention
        /\ s \in DOMAIN reaper'.deadline <=> s \in Registered
    BY <1>3, <1>4 DEF Doomed
  <2>5. s \in Registered =>
          reaper'.deadline[s] = IF registry[s].attached > 0 THEN now + Ttl ELSE registry[s].base + Ttl
    BY <1>3, <1>4 DEF Deadline
  <2>6. /\ (At("inserted", s)' <=> At("inserted", s)) /\ (At("found", s)' <=> At("found", s))
        /\ (Called(s)' <=> Called(s)) /\ (s \in Registered' <=> s \in Registered)
    BY <1>2 DEF At, Called, Registered
  <2>7. Calls(s)'
    BY <1>2, <2>1, <2>3, <2>4, <2>6, Times DEF OfSession, Calls, Numbers
  <2>8. Late(s) /\ registry[s].st = "closed" => Late(s)'
    BY <1>2, <2>3, <2>4, <2>5 DEF Late
  <2>9. At("inserted", s) => (s \in DOMAIN reaper'.deadline => reaper'.deadline[s] = now + Ttl)
    BY <2>1, <2>4, <2>5 DEF OfSession, Creds
  <2>10. Creds(s)'
    BY <1>2, <2>1, <2>6, <2>8, <2>9 DEF OfSession, Creds
  <2>11. Reaps(N, s)'
    BY <1>1, <1>2, <2>1, <2>4, Times DEF OfSession, Reaps, Numbers
  <2>12. Lapses(N, s)'
    BY <1>1, <1>2, <1>3, <2>1, <2>2, <2>3, <2>4, <2>5, Times DEF OfSession, Reaps, Lapses, Synced, Numbers
  <2>13. Strays(N, s)'
    BY <1>2, <1>3, <2>1, <2>3, <2>4 DEF OfSession, Strays, Synced
  <2> QED
    BY <2>7, <2>10, <2>11, <2>12, <2>13 DEF OfSession
<1> QED
  BY <1>5, <1>6, <1>7 DEF Timed

\* A session is dropped after its credential was forgotten, or with a late one.
LEMMA RemoveExpiredTimed ==
  ASSUME NEW T \in Nat, Timed(T), Typed, RemoveExpired
  PROVE  Timed(T)'
<1>1. /\ reaper.at = "remove" /\ UNCHANGED <<now, cred, asked, drain, task>>
      /\ now = T
  BY DEF RemoveExpired, Timed, PassTimes
<1>2. /\ reaper'.at = "sync" /\ reaper'.expired = {} /\ reaper'.wake = reaper.wake
      /\ reaper'.doomed = reaper.doomed /\ reaper'.deadline = reaper.deadline
  BY DEF RemoveExpired, Typed
<1> DEFINE g == [NoSession EXCEPT !.st = "gone"]
<1>3. registry' = [s \in Sessions |-> IF s \in reaper.expired THEN g ELSE registry[s]]
  BY DEF RemoveExpired
<1>4. g.st = "gone"
  BY DEF NoSession
<1> HIDE DEF g
<1>5. ReaperTypes' /\ PassTimes(T)'
  BY <1>1, <1>2 DEF Timed, ReaperTypes, PassTimes
<1>6. ASSUME NEW s \in Sessions PROVE OfSession(T, s)'
  <2>1. Numbers(s) /\ OfSession(T, s)
    BY AreNumbers DEF Timed
  <2>2. /\ (At("inserted", s)' <=> At("inserted", s)) /\ (At("found", s)' <=> At("found", s))
        /\ (Called(s)' <=> Called(s)) /\ ~Synced /\ ~Synced'
    BY <1>1, <1>2 DEF At, Called, Synced
  <2>3. CASE s \notin reaper.expired
    <3>1. /\ registry'[s] = registry[s] /\ (s \in Registered' <=> s \in Registered)
          /\ (Late(s)' <=> Late(s))
      BY <1>1, <1>2, <1>3, <2>3 DEF Registered, Late
    <3>2. Calls(s)'
      BY <1>1, <1>2, <2>1, <2>2, <3>1 DEF OfSession, Calls
    <3>3. Creds(s)'
      BY <1>1, <1>2, <2>1, <2>2, <3>1 DEF OfSession, Creds
    <3>4. Reaps(T, s)' /\ Lapses(T, s)' /\ Strays(T, s)'
      BY <1>1, <1>2, <2>1, <2>2, <2>3, <3>1 DEF OfSession, Reaps, Lapses, Strays
    <3> QED
      BY <3>2, <3>3, <3>4 DEF OfSession
  <2>4. CASE s \in reaper.expired
    <3>1. registry'[s].st = "gone"
      BY <1>3, <1>4, <2>4
    <3>2. registry[s].st = "closed" /\ registry[s].closedAt < now /\ s \in DOMAIN reaper.deadline
      BY <2>1, <2>4 DEF OfSession, Calls
    <3>3. ~At("inserted", s) /\ ~At("found", s) /\ (cred[s].gen > 0 => Late(s))
      BY <2>1, <3>2 DEF OfSession, Creds, Numbers
    <3>4. Calls(s)' /\ Creds(s)' /\ Reaps(T, s)' /\ Lapses(T, s)'
      BY <1>1, <1>2, <2>1, <2>2, <3>1, <3>3 DEF Calls, Creds, Reaps, Lapses, OfSession
    <3>5. now <= registry[s].closedAt + Retention + Period
      BY <2>1, <3>2 DEF OfSession, Reaps
    <3>6. Strays(T, s)'
      BY <1>1, <1>2, <2>1, <2>2, <3>2, <3>3, <3>5, Times DEF Strays, Spent, Late, Numbers
    <3> QED
      BY <3>4, <3>6 DEF OfSession
  <2> QED
    BY <2>3, <2>4
<1> QED
  BY <1>5, <1>6 DEF Timed

\* sync_expiry: re-anchored or unlapsed credentials stay.
LEMMA SyncExpiryTimed ==
  ASSUME NEW T \in Nat, Timed(T), Typed, SyncExpiry
  PROVE  Timed(T)'
<1>1. /\ reaper.at = "sync" /\ UNCHANGED <<now, registry, asked, drain, task>>
      /\ now = T /\ reaper.expired = {}
  BY DEF SyncExpiry, Timed, PassTimes, ReaperTypes
<1>2. /\ reaper'.at = "close" /\ reaper'.expired = reaper.expired /\ reaper'.wake = reaper.wake
      /\ reaper'.doomed = reaper.doomed /\ DOMAIN reaper'.deadline = {}
  BY DEF SyncExpiry, Typed, NoDeadlines
<1>3. ReaperTypes' /\ PassTimes(T)'
  BY <1>1, <1>2, Times DEF Timed, ReaperTypes, PassTimes, Typed
<1>4. ASSUME NEW s \in Sessions PROVE OfSession(T, s)'
  <2>1. Numbers(s) /\ OfSession(T, s)
    BY AreNumbers DEF Timed
  <2>2. /\ (At("inserted", s)' <=> At("inserted", s)) /\ (At("found", s)' <=> At("found", s))
        /\ (Called(s)' <=> Called(s)) /\ ~Synced /\ Synced'
        /\ (s \in Registered' <=> s \in Registered)
    BY <1>1, <1>2 DEF At, Called, Synced, Registered
  <2>3. \/ /\ cred[s].gen > 0 /\ s \in DOMAIN reaper.deadline
           /\ cred'[s].gen = cred[s].gen /\ cred'[s].expires = reaper.deadline[s]
        \/ /\ ~(cred[s].gen > 0 /\ s \in DOMAIN reaper.deadline)
           /\ cred[s].expires > now /\ cred'[s] = cred[s]
        \/ /\ ~(cred[s].gen > 0 /\ s \in DOMAIN reaper.deadline)
           /\ ~(cred[s].expires > now) /\ cred'[s].gen = 0
    <3>1. CASE cred[s].gen > 0 /\ s \in DOMAIN reaper.deadline
      <4>1. cred'[s] = [cred[s] EXCEPT !.expires = reaper.deadline[s]]
        BY <3>1 DEF SyncExpiry
      <4>2. cred[s] \in CredRec
        BY DEF Typed
      <4> QED
        BY <3>1, <4>1, <4>2 DEF CredRec
    <3>2. CASE ~(cred[s].gen > 0 /\ s \in DOMAIN reaper.deadline)
      BY <3>2, ConstantRecords DEF SyncExpiry
    <3> QED
      BY <3>1, <3>2
  <2>4. Calls(s)' /\ Reaps(T, s)'
    BY <1>1, <1>2, <2>1, <2>2 DEF OfSession, Calls, Reaps
  <2>5. Late(s) /\ cred'[s].gen > 0 => Late(s)'
    BY <1>1, <1>2, <2>3 DEF Late
  <2>6. registry[s].st = "live" /\ cred[s].gen > 0 => cred'[s].gen > 0
    BY <2>1, <2>2, <2>3 DEF OfSession, Lapses, Numbers
  <2>7. cred'[s].gen > 0 => cred[s].gen > 0
    BY <2>1, <2>3 DEF Numbers
  <2>8. Creds(s)'
    BY <1>1, <1>2, <2>1, <2>2, <2>5, <2>6, <2>7 DEF OfSession, Creds
  <2>9. Lapses(T, s)'
    BY <1>1, <1>2, <2>1, <2>2, <2>3, Times DEF OfSession, Lapses, Numbers
  <2>10. Strays(T, s)'
    BY <1>1, <1>2, <2>1, <2>2, <2>3, Times DEF OfSession, Strays, Spent, Numbers
  <2> QED
    BY <2>4, <2>8, <2>9, <2>10 DEF OfSession
<1> QED
  BY <1>3, <1>4 DEF Timed

\* run_reaper sleeps a tick after the last close of the pass.
LEMMA ReaperSleepsTimed ==
  ASSUME NEW T \in Nat, Timed(T), Typed, ReaperSleeps
  PROVE  Timed(T)'
<1>1. /\ reaper.at = "close" /\ UNCHANGED <<now, registry, cred, asked, drain, task>>
      /\ reaper.doomed = {} /\ now <= T + CloseMax /\ T <= now /\ now \in Nat
      /\ DOMAIN reaper.deadline = {} /\ reaper.expired = {}
  BY DEF ReaperSleeps, Timed, PassTimes, ReaperTypes, Typed
<1>2. /\ reaper'.at = "asleep" /\ reaper'.expired = {} /\ reaper'.wake = now + ReaperTick
      /\ reaper'.doomed = {} /\ DOMAIN reaper'.deadline = {}
  BY DEF ReaperSleeps, Asleep, NoDeadlines
<1>3. ReaperTypes'
  BY <1>1, <1>2, Times DEF Timed, ReaperTypes
<1>4. PassTimes(T)'
  BY <1>1, <1>2, Times DEF PassTimes
<1>5. ASSUME NEW s \in Sessions PROVE OfSession(T, s)'
  <2>1. OfSession(T, s)
    BY DEF Timed
  <2>2. /\ (At("inserted", s)' <=> At("inserted", s)) /\ (At("found", s)' <=> At("found", s))
        /\ (Called(s)' <=> Called(s)) /\ Synced /\ Synced'
        /\ (s \in Registered' <=> s \in Registered) /\ (Late(s)' <=> Late(s))
    BY <1>1, <1>2 DEF At, Called, Synced, Registered, Late
  <2>3. Calls(s)' /\ Creds(s)'
    BY <1>1, <1>2, <2>1, <2>2 DEF OfSession, Calls, Creds
  <2>4. Reaps(T, s)' /\ Lapses(T, s)' /\ Strays(T, s)'
    BY <1>1, <1>2, <2>1, <2>2 DEF OfSession, Reaps, Lapses, Strays, Spent
  <2> QED
    BY <2>3, <2>4 DEF OfSession
<1> QED
  BY <1>3, <1>4, <1>5 DEF Timed

\* The drain's own steps: its timeout leaves credentials behind, and ends the process.
LEMMA DrainTimed ==
  ASSUME NEW T \in Nat, Timed(T), Typed, DrainFlag \/ CloseAll \/ DrainDone \/ DrainTimesOut
  PROVE  Timed(T)'
<1>1. UNCHANGED <<now, registry, cred, reaper, task>>
  BY DEF DrainFlag, CloseAll, DrainDone, DrainTimesOut
<1>2. \A s \in Sessions : (At("inserted", s)' <=> At("inserted", s)) /\ (At("found", s)' <=> At("found", s))
  BY <1>1 DEF At
<1>3. CASE DrainFlag \/ CloseAll \/ DrainDone
  <2>1. /\ drain.at # "cut" /\ drain'.at # "cut" /\ asked' = asked
        /\ \A s \in Sessions : s \in drain'.left => s \in drain.left \/ registry[s].st # "none"
    BY <1>3 DEF DrainFlag, CloseAll, DrainDone, Typed, DrainRec, LiveSessions, Live
  <2>2. Calm /\ asked' \in [Sessions -> SUBSET Requesters]
    BY <1>1, <2>1 DEF Calm, Timed, ReaperTypes
  <2>3. \A s \in Sessions : Same(s)
    BY <1>1, <1>2, <2>1 DEF Same
  <2> QED
    BY <2>2, <2>3, OneTouched
<1>4. CASE DrainTimesOut
  <2>1. /\ drain'.at = "cut" /\ drain'.left = {}
        /\ asked' \in [Sessions -> SUBSET Requesters]
        /\ \A s \in Sessions : asked'[s] = asked[s] \ {"drain"}
    BY <1>4 DEF DrainTimesOut, Timed, ReaperTypes
  <2>2. ReaperTypes' /\ PassTimes(T)'
    BY <1>1, <2>1 DEF Timed, ReaperTypes, PassTimes
  <2>3. ASSUME NEW s \in Sessions PROVE OfSession(T, s)'
    <3>1. OfSession(T, s)
      BY DEF Timed
    <3>2. Called(s)' /\ (s \in Registered' <=> s \in Registered) /\ (Late(s)' <=> Late(s)) /\ (Synced' <=> Synced)
      BY <1>1, <2>1 DEF Called, Registered, Late, Synced
    <3>3. Calls(s)'
      BY <1>1, <2>1, <3>1, <3>2 DEF OfSession, Calls
    <3>4. Creds(s)'
      BY <1>1, <1>2, <3>1, <3>2 DEF OfSession, Creds
    <3>5. "reaper" \in asked'[s] <=> "reaper" \in asked[s]
      BY <2>1
    <3>6. Reaps(T, s)' /\ Lapses(T, s)' /\ Strays(T, s)'
      BY <1>1, <3>1, <3>2, <3>5 DEF OfSession, Reaps, Lapses, Strays, Spent
    <3> QED
      BY <3>3, <3>4, <3>6 DEF OfSession
  <2> QED
    BY <2>2, <2>3 DEF Timed
<1> QED
  BY <1>3, <1>4

\* A unit of time passes: the reaper sleeps, or waits for a close that is not overdue.
LEMMA AdvanceTimed ==
  ASSUME NEW T \in Nat, Timed(T), Typed, Advance
  PROVE  Timed(T)'
<1>1. /\ now' = now + 1 /\ now \in Nat /\ Quiet /\ T <= now
      /\ UNCHANGED <<registry, cred, asked, reaper, drain, task>>
  BY DEF Advance, Typed, Timed, PassTimes
<1>2. /\ \A h \in Handlers : task[h].at \in {"idle", "reserved", "ticketed", "attached"}
      /\ \A s \in Sessions :
             /\ registry[s].st = "closing" => registry[s].closeBy > now
             /\ asked[s] # {} => Live(s)
      /\ drain.at # "cut"
  BY <1>1 DEF Quiet
<1>3. \/ reaper.at = "asleep" /\ reaper.wake > now
      \/ /\ reaper.at = "close" /\ reaper.doomed # {}
         /\ \A s \in reaper.doomed : "reaper" \in asked[s]
  BY <1>1 DEF Quiet
<1>4. /\ reaper.at = "asleep" => reaper.doomed = {} /\ reaper.wake \in Nat
      /\ reaper.expired = {} /\ DOMAIN reaper.deadline = {} /\ reaper.doomed \subseteq Sessions
  BY <1>3 DEF Timed, ReaperTypes
<1>5. ASSUME NEW s \in reaper.doomed
      PROVE  "reaper" \in asked[s] /\ registry[s].st = "closing" /\ now < T + CloseMax
  <2>1. s \in Sessions /\ "reaper" \in asked[s] /\ Live(s)
    BY <1>2, <1>3, <1>4
  <2>2. OfSession(T, s) /\ Numbers(s)
    BY <2>1, AreNumbers DEF Timed
  <2>3. registry[s].st = "closing"
    BY <2>1, <2>2 DEF OfSession, Calls, Live
  <2>4. registry[s].closeBy <= T + CloseMax /\ registry[s].closeBy > now
    BY <1>2, <2>1, <2>2, <2>3 DEF OfSession, Reaps
  <2> QED
    BY <1>1, <2>1, <2>2, <2>3, <2>4, Times DEF Numbers
<1>6. /\ PassTimes(T)' /\ now + 1 <= T + Period
  <2>1. CASE reaper.at = "asleep"
    BY <1>1, <1>3, <1>4, <2>1, Times DEF PassTimes, Timed
  <2>2. CASE reaper.at = "close"
    <3>1. now < T + CloseMax
      BY <1>3, <1>5, <2>2
    <3> QED
      BY <1>1, <2>2, <3>1, Times DEF PassTimes
  <2> QED
    BY <1>3, <2>1, <2>2
<1>7. ReaperTypes'
  BY <1>1 DEF Timed, ReaperTypes
<1>8. ASSUME NEW s \in Sessions PROVE OfSession(T, s)'
  <2>1. OfSession(T, s) /\ Numbers(s)
    BY AreNumbers DEF Timed
  <2>2. ~At("inserted", s) /\ ~At("found", s) /\ ~At("inserted", s)' /\ ~At("found", s)'
    BY <1>1, <1>2 DEF At
  <2>3. (Called(s)' <=> Called(s)) /\ (Late(s)' <=> Late(s)) /\ Synced /\ Synced'
    BY <1>1, <1>3 DEF Called, Late, Synced
  <2>4. Calls(s)'
    BY <1>1, <1>4, <2>1, <2>3, Times DEF OfSession, Calls, Numbers
  <2>5. registry[s].st = "closed" => ~Called(s)
    BY <1>2 DEF Called, Live
  <2>6. Creds(s)'
    BY <1>1, <2>1, <2>2, <2>3, <2>5 DEF OfSession, Creds
  <2>7. s \in reaper.doomed => "reaper" \in asked[s] /\ registry[s].st = "closing"
    BY <1>5
  <2>8. Reaps(T, s)'
    BY <1>1, <1>4, <1>6, <2>1, <2>7, Times DEF OfSession, Reaps, Numbers
  <2>9. Lapses(T, s)'
    BY <1>1, <1>4, <1>6, <2>1, <2>3, <2>7, Times DEF OfSession, Lapses, Numbers
  <2>10. Strays(T, s)'
    BY <1>1, <1>4, <1>6, <2>1, <2>3, Times DEF OfSession, Strays, Spent, Numbers
  <2> QED
    BY <2>4, <2>6, <2>8, <2>9, <2>10 DEF OfSession
<1> QED
  BY <1>6, <1>7, <1>8 DEF Timed

\* Every pass of the reaper keeps sessions and credentials in time.
InTime == \E T \in Nat : Timed(T)

LEMMA InitInTime == Init => InTime
<1> SUFFICES ASSUME Init PROVE Timed(0)
  BY DEF InTime
<1>1. /\ now = 0 /\ drain.at = "no" /\ drain.left = {}
      /\ reaper.at = "asleep" /\ reaper.wake = ReaperTick /\ reaper.doomed = {}
      /\ reaper.expired = {} /\ DOMAIN reaper.deadline = {}
  BY DEF Init, Asleep, NoDeadlines
<1>2. \A s \in Sessions : registry[s].st = "none" /\ asked[s] = {}
  BY ConstantRecords DEF Init
<1>3. \A s : ~At("inserted", s) /\ ~At("found", s)
  BY ConstantRecords DEF Init, At
<1>4. ReaperTypes
  BY <1>1, Times DEF ReaperTypes, Init
<1>5. PassTimes(0)
  BY <1>1, Times DEF PassTimes
<1>6. \A s \in Sessions : OfSession(0, s)
  BY <1>1, <1>2, <1>3 DEF OfSession, Calls, Creds, Reaps, Lapses, Strays
<1> QED
  BY <1>4, <1>5, <1>6 DEF Timed

LEMMA NextInTime == BrokerInv /\ AttachCountExact /\ InTime /\ [Next]_vars => InTime'
<1> SUFFICES ASSUME BrokerInv, AttachCountExact, InTime, [Next]_vars PROVE InTime'
  OBVIOUS
<1>1. PICK T \in Nat : Timed(T)
  BY DEF InTime
<1>2. Typed
  BY DEF BrokerInv
<1>3. CASE UNCHANGED vars
  <2>1. Calm /\ asked' \in [Sessions -> SUBSET Requesters]
    BY <1>1, <1>3 DEF vars, Calm, Timed, ReaperTypes
  <2>2. \A s \in Sessions : Same(s)
    BY <1>3 DEF vars, Same, At
  <2> QED
    BY <1>1, <2>1, <2>2, OneTouched DEF InTime
<1>4. ASSUME NEW h \in Handlers,
             \/ \E p \in Principals : ReserveSlot(h, p)
             \/ SpawnFails(h) \/ IssueResume(h) \/ LookUp(h) \/ RotateResume(h)
             \/ SeedAndIssueTicket(h) \/ ReplyNotFound(h)
             \/ RedeemTicket(h) \/ DropTicket(h) \/ Detach(h)
             \/ \E s \in Sessions : Insert(h, s) \/ VerifyResume(h, s)
      PROVE  Timed(T)'
  <2>1. CASE IssueResume(h) \/ RotateResume(h)
    BY <1>1, <2>1, IssueResumeTimed, RotateResumeTimed
  <2>2. CASE RedeemTicket(h) \/ Detach(h)
    BY <1>1, <2>2, RedeemTimed, DetachTimed
  <2>3. CASE \E s \in Sessions : Insert(h, s)
    BY <1>1, <2>3, InsertTimed
  <2>4. CASE \/ \E p \in Principals : ReserveSlot(h, p)
             \/ SpawnFails(h) \/ LookUp(h) \/ SeedAndIssueTicket(h)
             \/ ReplyNotFound(h) \/ DropTicket(h)
             \/ \E s \in Sessions : VerifyResume(h, s)
    <3>1. Quietly(h)
      BY <1>2, <2>4, HandlerIsQuiet
    <3> QED
      BY <1>1, <1>2, <3>1, QuietlyTimed
  <2> QED
    BY <1>4, <2>1, <2>2, <2>3, <2>4
<1>5. ASSUME NEW s \in Sessions,
             \/ Exit(s) \/ ActorCloses(s) \/ CloseSession(s) \/ ForgetAfterClose(s)
             \/ ReaperCloses(s) \/ ReaperForgets(s) \/ DrainCloses(s) \/ DrainForgets(s)
      PROVE  Timed(T)'
  <2>1. CASE Exit(s) \/ ActorCloses(s)
    BY <1>1, <1>2, <2>1, ExitTimed, ActorClosesTimed
  <2>2. CASE CloseSession(s) \/ ReaperCloses(s) \/ DrainCloses(s)
    BY <1>1, <1>2, <2>2, AskCloseTimed
  <2>3. CASE ForgetAfterClose(s) \/ ReaperForgets(s) \/ DrainForgets(s)
    BY <1>1, <1>2, <2>3, ForgetTimed
  <2> QED
    BY <1>5, <2>1, <2>2, <2>3
<1>6. CASE Decide
  BY <1>1, <1>2, <1>6, DecideTimed DEF InTime
<1>7. CASE RemoveExpired \/ SyncExpiry \/ ReaperSleeps
  BY <1>1, <1>2, <1>7, RemoveExpiredTimed, SyncExpiryTimed, ReaperSleepsTimed DEF InTime
<1>8. CASE DrainFlag \/ CloseAll \/ DrainDone \/ DrainTimesOut
  BY <1>1, <1>2, <1>8, DrainTimed DEF InTime
<1>9. CASE Advance
  BY <1>1, <1>2, <1>9, AdvanceTimed DEF InTime
<1> QED
  BY <1>3, <1>4, <1>5, <1>6, <1>7, <1>8, <1>9 DEF Next, InTime

\* The reaper's passes keep sessions and credentials in time in every behaviour.
THEOREM ReaperInTime == Spec => []InTime
  BY InitInTime, NextInTime, BrokerInvariant, AttachesCounted, PTL DEF Spec

\* An abandoned session is reaped within a period of its TTL, and a closed one is
\* dropped within a period of its retention, whatever closes the reaper waits for.
THEOREM ReaperIsTimely == Spec => []ReapedInTime
<1>1. InTime => ReapedInTime
  BY DEF InTime, Timed, OfSession, Reaps, ReapedInTime
<1> QED
  BY <1>1, ReaperInTime, PTL

\* The credential of an attached session is never dropped, and never lapsed for
\* longer than a period of the reaper.
THEOREM LapsesAreShort == Spec => []LapseIsShort
<1>1. BrokerInv /\ AttachCountExact /\ InTime => LapseIsShort
  <2> SUFFICES ASSUME BrokerInv, AttachCountExact, InTime, NEW s \in Sessions,
                      registry[s].st = "live", registry[s].attached > 0
               PROVE  cred[s].gen > 0 /\ now <= cred[s].expires + Period
    BY DEF LapseIsShort
  <2>1. Streams(s) # {}
    <3>1. s \in Registered
      BY DEF Registered
    <3> QED
      BY <3>1, StreamsFinite, FS_EmptySet
  <2>2. ~At("inserted", s)
    BY <2>1 DEF Streams, At, BrokerInv, Tokens, Busy
  <2> QED
    BY <2>2 DEF InTime, Timed, OfSession, Creds, Lapses
<1> QED
  BY <1>1, ReaperInTime, BrokerInvariant, AttachesCounted, PTL

\* The credential of a session that left the registry is dropped in time, also one
\* stored after the close had forgotten it.
THEOREM StraysAreDropped == Spec => []NoStrayCredential
<1>1. InTime => NoStrayCredential
  BY DEF InTime, Timed, OfSession, Strays, NoStrayCredential
<1> QED
  BY <1>1, ReaperInTime, PTL
=============================================================================
