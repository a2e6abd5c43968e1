--------------------------- MODULE ReverseListen ---------------------------
(***************************************************************************)
(* Reverse registrations at a controller: the registry of names            *)
(* (reverse/registry.rs), the tables of live connections and control hubs  *)
(* (reverse/listen/conn_table.rs) and the task of each accepted connection *)
(* (reverse/listen/registration.rs) with the stale sweeper                 *)
(* (reverse/listen.rs).                                                    *)
(*                                                                         *)
(* The registry, the connection table and the hub table each have a lock   *)
(* of their own, and a registration touches them one after the other: what *)
(* is a step here is one section under one lock.  Only the generation a    *)
(* registration was given ties the three together.                         *)
(*                                                                         *)
(* The names one process has seen stay below MAX_TOMBSTONES: tombstones    *)
(* are never pruned here.                                                  *)
(***************************************************************************)
EXTENDS Integers

CONSTANTS Peers,          \* certificate fingerprints
          Names,          \* host names
          Conns,          \* accepted connections; each registers at most once
          MayUse,         \* pairs <<peer, name>> that resolve_name and the ACL allow
          None            \* no connection, no entry, no peer

ASSUME ListenAssumption ==
    /\ MayUse \subseteq Peers \X Names
    /\ None \notin Peers \cup Names \cup Conns

VARIABLES
    entries,         \* RegistryState.entries: name -> entry or None
    lastGeneration,  \* RegistryState.last_generation; -1 is no tombstone
    conns,           \* Listen.conns: name -> the connection published, or None
    hubs,            \* Listen.hubs: name -> the connection whose hub it is
    reg              \* the task of each connection

vars == <<entries, lastGeneration, conns, hubs, reg>>

Fresh == [phase |-> "new", name |-> None, peer |-> None, gen |-> -1,
          replaced |-> None, closed |-> FALSE]

Init ==
    /\ entries = [n \in Names |-> None]
    /\ lastGeneration = [n \in Names |-> -1]
    /\ conns = [n \in Names |-> None]
    /\ hubs = [n \in Names |-> None]
    /\ reg = [c \in Conns |-> Fresh]

-----------------------------------------------------------------------------
(* The registry, under its lock.                                           *)

Entry(p, g) == [peer |-> p, gen |-> g, state |-> "live"]

MaxOf(a, b) == IF a >= b THEN a ELSE b

\* Mutant: without an entry the count starts again, tombstone or not.
NextWithoutTombstone(n) == IF entries[n] = None THEN 0 ELSE entries[n].gen + 1

\* The generation admit hands out: past the tombstone, and past the entry it
\* replaces.
NextGeneration(n) ==
    IF entries[n] = None
    THEN lastGeneration[n] + 1
    ELSE MaxOf(lastGeneration[n] + 1, entries[n].gen + 1)

SetPhase(c, p) == reg' = [reg EXCEPT ![c].phase = p]

\* decide_registration and admit: a name held by another peer, live or stale,
\* is refused.  A registration admitted over the connection quota is undone.
Decide(c, p, n, overQuota) ==
    LET g == NextGeneration(n) IN
    /\ reg[c].phase = "new"
    /\ <<p, n>> \in MayUse
    /\ entries[n] # None => entries[n].peer = p
    /\ entries' = [entries EXCEPT ![n] = Entry(p, g)]
    /\ lastGeneration' = [lastGeneration EXCEPT ![n] = g]
    /\ reg' = [reg EXCEPT ![c] = [phase |-> IF overQuota THEN "undo" ELSE "decided",
                                  name |-> n, peer |-> p, gen |-> g,
                                  replaced |-> entries[n], closed |-> FALSE]]
    /\ UNCHANGED <<conns, hubs>>

\* Mutant: a reply that fails ends the task and leaves the admission behind.
ReplyWithoutUndo(c, sent) ==
    /\ reg[c].phase = "decided"
    /\ SetPhase(c, IF sent THEN "publish" ELSE "gone")
    /\ UNCHANGED <<entries, lastGeneration, conns, hubs>>

\* The Hello reply reaches the peer or fails.
Reply(c, sent) ==
    /\ reg[c].phase = "decided"
    /\ SetPhase(c, IF sent THEN "publish" ELSE "undo")
    /\ UNCHANGED <<entries, lastGeneration, conns, hubs>>

\* rollback_target, under the lock of the connection table: the entry that was
\* replaced counts only while its connection is still published.
RollbackTarget(c) ==
    LET occupant == conns[reg[c].name]
        backed == /\ reg[c].replaced # None
                  /\ occupant # None
                  /\ reg[occupant].gen = reg[c].replaced.gen
    IN /\ reg[c].phase = "undo"
       /\ reg' = [reg EXCEPT ![c].phase = "restore",
                             ![c].replaced = IF backed THEN @ ELSE None]
       /\ UNCHANGED <<entries, lastGeneration, conns, hubs>>

\* Mutant: the entry is restored whoever holds it now.
RollbackAnyway(c) ==
    /\ reg[c].phase = "restore"
    /\ entries' = [entries EXCEPT ![reg[c].name] = reg[c].replaced]
    /\ reg' = [reg EXCEPT ![c].phase = "gone", ![c].closed = TRUE]
    /\ UNCHANGED <<lastGeneration, conns, hubs>>

\* Registry::rollback: only while the entry is still this admission's.
Rollback(c) ==
    LET n == reg[c].name IN
    /\ reg[c].phase = "restore"
    /\ entries' = IF entries[n] # None /\ entries[n].gen = reg[c].gen
                  THEN [entries EXCEPT ![n] = reg[c].replaced]
                  ELSE entries
    /\ reg' = [reg EXCEPT ![c].phase = "gone", ![c].closed = TRUE]
    /\ UNCHANGED <<lastGeneration, conns, hubs>>

-----------------------------------------------------------------------------
(* Publishing and driving.                                                 *)

\* ConnTable::publish installs only over a strictly older generation.
Supersedes(table, c) ==
    LET occupant == table[reg[c].name]
    IN occupant = None \/ reg[occupant].gen < reg[c].gen

\* Mutant: the connection replaced is left open.
PublishWithoutClosing(c) ==
    LET n == reg[c].name IN
    /\ reg[c].phase = "publish"
    /\ IF Supersedes(conns, c)
       THEN /\ conns' = [conns EXCEPT ![n] = c]
            /\ SetPhase(c, "hub")
       ELSE /\ conns' = conns
            /\ reg' = [reg EXCEPT ![c].phase = "gone", ![c].closed = TRUE]
    /\ UNCHANGED <<entries, lastGeneration, hubs>>

\* finish_registration, the connection table: the connection replaced is
\* closed, one that comes too late closes itself.
Publish(c) ==
    LET n == reg[c].name IN
    /\ reg[c].phase = "publish"
    /\ IF Supersedes(conns, c)
       THEN /\ conns' = [conns EXCEPT ![n] = c]
            /\ reg' = [d \in Conns |-> IF d = c THEN [reg[c] EXCEPT !.phase = "hub"]
                                       ELSE IF d = conns[n] THEN [reg[d] EXCEPT !.closed = TRUE]
                                       ELSE reg[d]]
       ELSE /\ conns' = conns
            /\ reg' = [reg EXCEPT ![c].phase = "gone", ![c].closed = TRUE]
    /\ UNCHANGED <<entries, lastGeneration, hubs>>

\* finish_registration, the hub table.
PublishHub(c) ==
    /\ reg[c].phase = "hub"
    /\ hubs' = IF Supersedes(hubs, c) THEN [hubs EXCEPT ![reg[c].name] = c] ELSE hubs
    /\ SetPhase(c, "driving")
    /\ UNCHANGED <<entries, lastGeneration, conns>>

\* drive_registered_session's loop ends: the connection was closed, the path
\* died, trust was withdrawn.
EndDrive(c) ==
    /\ reg[c].phase = "driving"
    /\ reg' = [reg EXCEPT ![c].phase = "unconn", ![c].closed = TRUE]
    /\ UNCHANGED <<entries, lastGeneration, conns, hubs>>

\* The guard of ConnTable::remove_if: the slot still has this generation.
Holds(table, c) ==
    LET occupant == table[reg[c].name]
    IN occupant # None /\ reg[occupant].gen = reg[c].gen

\* Mutant: a connection removes itself only while the registry lists its
\* generation.
RemoveListedConn(c) ==
    LET n == reg[c].name
        mine == Holds(conns, c) /\ entries[n] # None /\ entries[n].gen = reg[c].gen
    IN /\ reg[c].phase = "unconn"
       /\ conns' = IF mine THEN [conns EXCEPT ![n] = None] ELSE conns
       /\ SetPhase(c, IF mine THEN "unhubLive" ELSE "unhub")
       /\ UNCHANGED <<entries, lastGeneration, hubs>>

\* conns.remove_if: the entry goes stale only if the table still held this
\* generation.
RemoveConn(c) ==
    LET n == reg[c].name IN
    /\ reg[c].phase = "unconn"
    /\ conns' = IF Holds(conns, c) THEN [conns EXCEPT ![n] = None] ELSE conns
    /\ SetPhase(c, IF Holds(conns, c) THEN "unhubLive" ELSE "unhub")
    /\ UNCHANGED <<entries, lastGeneration, hubs>>

\* remove_hub_if.
RemoveHub(c) ==
    /\ reg[c].phase \in {"unhubLive", "unhub"}
    /\ hubs' = IF Holds(hubs, c) THEN [hubs EXCEPT ![reg[c].name] = None] ELSE hubs
    /\ SetPhase(c, IF reg[c].phase = "unhubLive" THEN "stale" ELSE "gone")
    /\ UNCHANGED <<entries, lastGeneration, conns>>

\* Registry::mark_stale.
MarkStale(c) ==
    LET n == reg[c].name IN
    /\ reg[c].phase = "stale"
    /\ entries' = IF entries[n] # None /\ entries[n].gen = reg[c].gen /\ entries[n].state = "live"
                  THEN [entries EXCEPT ![n].state = "stale"]
                  ELSE entries
    /\ SetPhase(c, "gone")
    /\ UNCHANGED <<lastGeneration, conns, hubs>>

\* run_stale_sweeper: a stale entry whose retention has passed.
SweepExpired(n) ==
    /\ entries[n] # None /\ entries[n].state = "stale"
    /\ entries' = [entries EXCEPT ![n] = None]
    /\ UNCHANGED <<lastGeneration, conns, hubs, reg>>

-----------------------------------------------------------------------------
TaskStep(c) ==
    \/ \E sent \in BOOLEAN : Reply(c, sent)
    \/ RollbackTarget(c)
    \/ Rollback(c)
    \/ Publish(c)
    \/ PublishHub(c)
    \/ RemoveConn(c)
    \/ RemoveHub(c)
    \/ MarkStale(c)

Next ==
    \/ \E c \in Conns, p \in Peers, n \in Names, q \in BOOLEAN : Decide(c, p, n, q)
    \/ \E c \in Conns : TaskStep(c) \/ EndDrive(c)
    \/ \E n \in Names : SweepExpired(n)

\* A task that can step does, and a closed connection's drive loop ends.
Fairness ==
    /\ \A c \in Conns : WF_vars(TaskStep(c))
    /\ \A c \in Conns : WF_vars(reg[c].closed /\ EndDrive(c))
    /\ \A n \in Names : WF_vars(SweepExpired(n))

Spec == Init /\ [][Next]_vars /\ Fairness

-----------------------------------------------------------------------------
(* Properties.                                                             *)

Phases == {"new", "decided", "undo", "restore", "publish", "hub", "driving",
           "unconn", "unhubLive", "unhub", "stale", "gone"}

EntrySet == [peer : Peers, gen : Nat, state : {"live", "stale"}]

\* The types; every row of the registry has a peer.
TypeOK ==
    /\ entries \in [Names -> EntrySet \cup {None}]
    /\ lastGeneration \in [Names -> Int]
    /\ conns \in [Names -> Conns \cup {None}]
    /\ hubs \in [Names -> Conns \cup {None}]
    /\ reg \in [Conns -> [phase : Phases, name : Names \cup {None}, peer : Peers \cup {None},
                          gen : Int, replaced : EntrySet \cup {None}, closed : BOOLEAN]]

Active == {c \in Conns : reg[c].phase \notin {"new", "gone"}}

\* Generations tell registrations of a name apart: no two connections of one
\* name that are still at work carry the same one, though admissions are undone
\* and entries expire in between.
GenerationsUnique ==
    \A c, d \in Active : (reg[c].name = reg[d].name /\ reg[c].gen = reg[d].gen) => c = d

\* Whatever order concurrent registrations publish in, an open connection being
\* driven is the one its name leads to: every other one was closed (the
\* contract of ConnTable::publish).
OpenIsPublished ==
    \A c \in Conns :
        (reg[c].phase \in {"hub", "driving"} /\ ~reg[c].closed) => conns[reg[c].name] = c

\* A registration that completed and that no later admission followed is listed
\* as live under its peer, and its hub is the one the local daemon finds: no
\* late rollback, removal or mark_stale of an older one touches it.
NewestIsListed ==
    \A c \in Conns :
        (reg[c].phase = "driving" /\ ~reg[c].closed /\ reg[c].gen = lastGeneration[reg[c].name])
            => /\ entries[reg[c].name] = Entry(reg[c].peer, reg[c].gen)
               /\ hubs[reg[c].name] = c

Backed(n) == \E c \in Active : reg[c].name = n /\ reg[c].gen = entries[n].gen

\* The newest admission of a name is never a phantom: while it is listed as
\* live, a task is left that will publish it, undo it or mark it stale.
NewestIsBacked ==
    \A n \in Names :
        (entries[n] # None /\ entries[n].state = "live" /\ entries[n].gen = lastGeneration[n])
            => Backed(n)

\* No live registry row without a connection behind it (the promise of
\* rollback_target's comment).  The code breaks it: see the phantom_host run.
NoPhantomHost ==
    \A n \in Names : (entries[n] # None /\ entries[n].state = "live") => Backed(n)

\* What a lost connection left in the tables goes away: no table leads to a
\* closed connection for ever.
ClosedIsForgotten ==
    \A c \in Conns : \A n \in Names :
        (reg[c].closed /\ conns[n] = c) ~> (conns[n] # c /\ hubs[n] # c)
=============================================================================
