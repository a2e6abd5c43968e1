----------------------- MODULE ReverseListenProofs -----------------------
(***************************************************************************)
(* Proofs about ReverseListen, for any peers, names, connections and any   *)
(* allowed pairs: one generation per registration of a name, and the       *)
(* newest registration of a name keeps its table slots and its row.        *)
(***************************************************************************)
EXTENDS ReverseListen, TLAPS

RegSet == [phase : Phases, name : Names \cup {None}, peer : Peers \cup {None},
           gen : Int, replaced : EntrySet \cup {None}, closed : BOOLEAN]

Tombstones == \A n \in Names : lastGeneration[n] >= -1

\* A task that was admitted has its name, its peer and a generation the
\* tombstone covers.
Admitted ==
    \A c \in Conns : reg[c].phase # "new" =>
        /\ reg[c].name \in Names
        /\ reg[c].peer \in Peers
        /\ reg[c].gen \in Nat
        /\ reg[c].gen <= lastGeneration[reg[c].name]

\* GenerationsUnique, of the tasks that ended too.
Apart ==
    \A c, d \in Conns :
        (reg[c].phase # "new" /\ reg[d].phase # "new"
          /\ reg[c].name = reg[d].name /\ reg[c].gen = reg[d].gen) => c = d

\* A slot of a table is held by a task of that name that has still to give it up.
ConnsHeld ==
    \A n \in Names : conns[n] # None =>
        reg[conns[n]].name = n /\ reg[conns[n]].phase \in {"hub", "driving", "unconn"}

HubsHeld ==
    \A n \in Names : hubs[n] # None =>
        reg[hubs[n]].name = n /\ reg[hubs[n]].phase \in {"driving", "unconn", "unhubLive", "unhub"}

\* A task that lost its slot lost it to a later admission.
LostToNewer ==
    \A c \in Conns :
        (reg[c].phase = "unhub"
          \/ (reg[c].phase \in {"hub", "driving", "unconn"} /\ conns[reg[c].name] # c))
            => reg[c].gen < lastGeneration[reg[c].name]

EntriesOld == \A n \in Names : entries[n] # None => entries[n].gen <= lastGeneration[n]

ReplacedOld ==
    \A c \in Conns :
        (reg[c].phase # "new" /\ reg[c].replaced # None) => reg[c].replaced.gen < reg[c].gen

\* The newest admission holds its row until its task ends.
NewestHolds ==
    \A c \in Conns :
        (reg[c].phase \notin {"new", "gone"} /\ reg[c].gen = lastGeneration[reg[c].name])
            => entries[reg[c].name] = Entry(reg[c].peer, reg[c].gen)

NewestHub ==
    \A c \in Conns :
        (reg[c].phase = "driving" /\ reg[c].gen = lastGeneration[reg[c].name])
            => hubs[reg[c].name] = c

IInv ==
    /\ TypeOK /\ Tombstones /\ Admitted /\ Apart /\ ConnsHeld /\ HubsHeld /\ LostToNewer
    /\ EntriesOld /\ ReplacedOld /\ NewestHolds /\ NewestHub
    /\ OpenIsPublished /\ NewestIsBacked

-----------------------------------------------------------------------------
(* What the tasks carry, and what a step of one task leaves of the others. *)

LEMMA Typed ==
    ASSUME TypeOK
    PROVE  /\ \A c \in Conns : reg[c] \in RegSet
           /\ \A n \in Names : /\ entries[n] \in EntrySet \cup {None}
                               /\ lastGeneration[n] \in Int
                               /\ conns[n] \in Conns \cup {None}
                               /\ hubs[n] \in Conns \cup {None}
  BY DEF TypeOK, RegSet

LEMMA RegFields ==
    ASSUME NEW r \in RegSet
    PROVE  /\ r.phase \in Phases /\ r.name \in Names \cup {None} /\ r.peer \in Peers \cup {None}
           /\ r.gen \in Int /\ r.replaced \in EntrySet \cup {None} /\ r.closed \in BOOLEAN
  BY DEF RegSet

\* Step of a task: everything but its phase, its flag and what it will restore
\* stays, its own and the other tasks'.
SameIdentity ==
    \A d \in Conns : /\ reg'[d].name = reg[d].name
                     /\ reg'[d].peer = reg[d].peer
                     /\ reg'[d].gen = reg[d].gen

OthersKeep(c) ==
    \A d \in Conns \ {c} : reg'[d].phase = reg[d].phase /\ reg'[d].replaced = reg[d].replaced

OthersStayOpen(c) == \A d \in Conns \ {c} : reg'[d].closed = reg[d].closed

LEMMA PhaseStep ==
    ASSUME TypeOK, NEW c \in Conns, NEW p \in Phases,
           reg' = [reg EXCEPT ![c].phase = p]
    PROVE  /\ SameIdentity
           /\ OthersKeep(c)
           /\ OthersStayOpen(c)
           /\ reg'[c].phase = p
           /\ reg'[c].closed = reg[c].closed
           /\ reg'[c].replaced = reg[c].replaced
           /\ reg' \in [Conns -> RegSet]
  BY DEF TypeOK, RegSet, SameIdentity, OthersKeep, OthersStayOpen

LEMMA ClosingStep ==
    ASSUME TypeOK, NEW c \in Conns, NEW p \in Phases,
           reg' = [reg EXCEPT ![c].phase = p, ![c].closed = TRUE]
    PROVE  /\ SameIdentity
           /\ OthersKeep(c)
           /\ OthersStayOpen(c)
           /\ reg'[c].phase = p
           /\ reg'[c].closed = TRUE
           /\ reg'[c].replaced = reg[c].replaced
           /\ reg' \in [Conns -> RegSet]
  <1> DEFINE r == [reg[c] EXCEPT !.phase = p]
             s == [r EXCEPT !.closed = TRUE]
  <1>1. reg[c] \in RegSet /\ reg \in [Conns -> RegSet]
    BY DEF TypeOK, RegSet
  <1>2. /\ r \in RegSet /\ r.name = reg[c].name /\ r.peer = reg[c].peer /\ r.gen = reg[c].gen
        /\ r.phase = p /\ r.replaced = reg[c].replaced
    BY <1>1 DEF RegSet
  <1> HIDE DEF r
  <1>3. /\ s \in RegSet /\ s.name = r.name /\ s.peer = r.peer /\ s.gen = r.gen
        /\ s.phase = r.phase /\ s.replaced = r.replaced /\ s.closed = TRUE
    BY <1>2 DEF RegSet
  <1>4. reg' = [reg EXCEPT ![c] = s]
    BY <1>1, Zenon DEF r
  <1> HIDE DEF s
  <1> QED
    BY <1>1, <1>2, <1>3, <1>4 DEF SameIdentity, OthersKeep, OthersStayOpen

LEMMA RestoreStep ==
    ASSUME TypeOK, NEW c \in Conns, NEW x \in EntrySet \cup {None},
           reg' = [reg EXCEPT ![c].phase = "restore", ![c].replaced = x]
    PROVE  /\ SameIdentity
           /\ OthersKeep(c)
           /\ OthersStayOpen(c)
           /\ reg'[c].phase = "restore"
           /\ reg'[c].replaced = x
           /\ reg' \in [Conns -> RegSet]
  <1> DEFINE r == [reg[c] EXCEPT !.phase = "restore"]
             s == [r EXCEPT !.replaced = x]
  <1>1. reg[c] \in RegSet /\ reg \in [Conns -> RegSet] /\ "restore" \in Phases
    BY DEF TypeOK, RegSet, Phases
  <1>2. /\ r \in RegSet /\ r.name = reg[c].name /\ r.peer = reg[c].peer /\ r.gen = reg[c].gen
        /\ r.phase = "restore" /\ r.closed = reg[c].closed
    BY <1>1 DEF RegSet
  <1> HIDE DEF r
  <1>3. /\ s \in RegSet /\ s.name = r.name /\ s.peer = r.peer /\ s.gen = r.gen
        /\ s.phase = r.phase /\ s.closed = r.closed /\ s.replaced = x
    BY <1>2 DEF RegSet
  <1>4. reg' = [reg EXCEPT ![c] = s]
    BY <1>1, Zenon DEF r
  <1> HIDE DEF s
  <1> QED
    BY <1>1, <1>2, <1>3, <1>4 DEF SameIdentity, OthersKeep, OthersStayOpen

\* A slot that has a task's generation is that task's.
LEMMA HolderIsMe ==
    ASSUME IInv, NEW c \in Conns, reg[c].phase # "new"
    PROVE  /\ Holds(conns, c) => conns[reg[c].name] = c
           /\ Holds(hubs, c) => hubs[reg[c].name] = c
  <1>1. reg[c].name \in Names
    BY DEF IInv, Admitted
  <1>2. conns[reg[c].name] \in Conns \cup {None} /\ hubs[reg[c].name] \in Conns \cup {None}
    BY <1>1, Typed DEF IInv
  <1> QED
    BY <1>1, <1>2 DEF IInv, Holds, Apart, ConnsHeld, HubsHeld

\* The parts of the invariant that any step of an admitted task keeps.
LEMMA TaskKeeps ==
    ASSUME IInv, NEW c \in Conns, SameIdentity, OthersKeep(c),
           reg[c].phase # "new", reg'[c].phase # "new",
           reg'[c].replaced \in {reg[c].replaced, None},
           lastGeneration' = lastGeneration
    PROVE  Tombstones' /\ Admitted' /\ Apart' /\ ReplacedOld'
  <1>1. Tombstones'
    BY DEF IInv, Tombstones
  <1>2. \A d \in Conns : (reg'[d].phase # "new") <=> (reg[d].phase # "new")
    BY DEF OthersKeep
  <1>3. Admitted'
    BY <1>2 DEF IInv, Admitted, SameIdentity
  <1>4. Apart'
    BY <1>2 DEF IInv, Apart, SameIdentity
  <1>5. ReplacedOld'
    <2>1. SUFFICES ASSUME NEW d \in Conns, reg'[d].phase # "new", reg'[d].replaced # None
                   PROVE  reg'[d].replaced.gen < reg'[d].gen
      BY DEF ReplacedOld
    <2>2. reg'[d].replaced = reg[d].replaced
      BY <2>1 DEF OthersKeep
    <2> QED
      BY <1>2, <2>1, <2>2 DEF IInv, ReplacedOld, SameIdentity
  <1> QED
    BY <1>1, <1>3, <1>4, <1>5

\* The parts about the rows, when a step leaves the rows alone and no newest
\* task ends.
LEMMA RowsKept ==
    ASSUME IInv, NEW c \in Conns, SameIdentity, OthersKeep(c),
           reg[c].phase \notin {"new", "gone"},
           reg'[c].phase # "new",
           reg'[c].phase = "gone" => reg[c].gen # lastGeneration[reg[c].name],
           entries' = entries, lastGeneration' = lastGeneration
    PROVE  EntriesOld' /\ NewestHolds' /\ NewestIsBacked'
  <1>1. EntriesOld'
    BY DEF IInv, EntriesOld
  <1>2. NewestHolds'
    BY DEF IInv, NewestHolds, SameIdentity, OthersKeep, Entry
  <1>3. NewestIsBacked'
    <2>1. SUFFICES ASSUME NEW n \in Names, entries[n] # None, entries[n].state = "live",
                          entries[n].gen = lastGeneration[n]
                   PROVE  Backed(n)'
      BY DEF NewestIsBacked
    <2>2. PICK d \in Conns : /\ reg[d].phase \notin {"new", "gone"}
                             /\ reg[d].name = n /\ reg[d].gen = entries[n].gen
      BY <2>1 DEF IInv, NewestIsBacked, Backed, Active
    <2>3. reg'[d].phase \notin {"new", "gone"}
      BY <2>1, <2>2 DEF OthersKeep
    <2> QED
      BY <2>2, <2>3 DEF Backed, Active, SameIdentity
  <1> QED
    BY <1>1, <1>2, <1>3

\* The parts about the tables, when a step leaves the tables alone and changes
\* the phase of a task that has no slot yet, or none any more.
LEMMA TablesKept ==
    ASSUME IInv, NEW c \in Conns, SameIdentity, OthersKeep(c), OthersStayOpen(c),
           reg[c].phase \notin {"new", "hub", "driving", "unconn", "unhubLive", "unhub"},
           reg'[c].phase \notin {"hub", "driving", "unconn", "unhub"},
           conns' = conns, hubs' = hubs, lastGeneration' = lastGeneration
    PROVE  ConnsHeld' /\ HubsHeld' /\ LostToNewer' /\ NewestHub' /\ OpenIsPublished'
  <1>1. ConnsHeld'
    <2>1. SUFFICES ASSUME NEW n \in Names, conns[n] # None
                   PROVE  reg'[conns[n]].name = n /\ reg'[conns[n]].phase \in {"hub", "driving", "unconn"}
      BY DEF ConnsHeld
    <2>2. conns[n] \in Conns /\ conns[n] # c
      BY <2>1, Typed DEF IInv, ConnsHeld
    <2> QED
      BY <2>1, <2>2 DEF IInv, ConnsHeld, SameIdentity, OthersKeep
  <1>2. HubsHeld'
    <2>1. SUFFICES ASSUME NEW n \in Names, hubs[n] # None
                   PROVE  /\ reg'[hubs[n]].name = n
                          /\ reg'[hubs[n]].phase \in {"driving", "unconn", "unhubLive", "unhub"}
      BY DEF HubsHeld
    <2>2. hubs[n] \in Conns /\ hubs[n] # c
      BY <2>1, Typed DEF IInv, HubsHeld
    <2> QED
      BY <2>1, <2>2 DEF IInv, HubsHeld, SameIdentity, OthersKeep
  <1>3. LostToNewer'
    BY DEF IInv, LostToNewer, SameIdentity, OthersKeep
  <1>4. NewestHub'
    BY DEF IInv, NewestHub, SameIdentity, OthersKeep
  <1>5. OpenIsPublished'
    BY DEF IInv, OpenIsPublished, SameIdentity, OthersKeep, OthersStayOpen
  <1> QED
    BY <1>1, <1>2, <1>3, <1>4, <1>5

-----------------------------------------------------------------------------
(* One lemma per action.                                                   *)

LEMMA ReplyStep ==
    ASSUME IInv, NEW c \in Conns, NEW sent \in BOOLEAN, Reply(c, sent)
    PROVE  IInv'
  <1> DEFINE p == IF sent THEN "publish" ELSE "undo"
  <1>1. /\ reg[c].phase = "decided" /\ p \in Phases /\ p \in {"publish", "undo"}
        /\ reg' = [reg EXCEPT ![c].phase = p]
        /\ entries' = entries /\ lastGeneration' = lastGeneration /\ conns' = conns /\ hubs' = hubs
    BY DEF Reply, SetPhase, Phases
  <1> HIDE DEF p
  <1>2. /\ SameIdentity /\ OthersKeep(c) /\ OthersStayOpen(c) /\ reg'[c].phase = p
        /\ reg'[c].replaced = reg[c].replaced /\ reg' \in [Conns -> RegSet]
    BY <1>1, PhaseStep DEF IInv
  <1>3. TypeOK'
    BY <1>1, <1>2 DEF IInv, TypeOK, RegSet
  <1> QED
    BY <1>1, <1>2, <1>3, TaskKeeps, RowsKept, TablesKept DEF IInv

LEMMA RollbackTargetStep ==
    ASSUME IInv, NEW c \in Conns, RollbackTarget(c)
    PROVE  IInv'
  <1> DEFINE backed == /\ reg[c].replaced # None
                       /\ conns[reg[c].name] # None
                       /\ reg[conns[reg[c].name]].gen = reg[c].replaced.gen
             x == IF backed THEN reg[c].replaced ELSE None
  <1>0. x \in {reg[c].replaced, None}
    OBVIOUS
  <1>1. reg' = [reg EXCEPT ![c].phase = "restore", ![c].replaced = x]
    BY SMTT(30) DEF RollbackTarget, IInv, TypeOK, RegSet
  <1> HIDE DEF x, backed
  <1>2. /\ reg[c].phase = "undo"
        /\ entries' = entries /\ lastGeneration' = lastGeneration /\ conns' = conns /\ hubs' = hubs
    BY DEF RollbackTarget
  <1>3. x \in EntrySet \cup {None}
    BY <1>0, Typed, RegFields DEF IInv
  <1>4. /\ SameIdentity /\ OthersKeep(c) /\ OthersStayOpen(c) /\ reg'[c].phase = "restore"
        /\ reg'[c].replaced = x /\ reg' \in [Conns -> RegSet]
    BY <1>1, <1>3, RestoreStep DEF IInv
  <1>5. TypeOK'
    BY <1>2, <1>4 DEF IInv, TypeOK, RegSet
  <1> QED
    BY <1>0, <1>2, <1>4, <1>5, TaskKeeps, RowsKept, TablesKept DEF IInv

\* A row changes hands only by the task that has its generation.
LEMMA RollbackStep ==
    ASSUME IInv, NEW c \in Conns, Rollback(c)
    PROVE  IInv'
  <1> DEFINE n == reg[c].name
             mine == entries[n] # None /\ entries[n].gen = reg[c].gen
  <1>1. /\ reg[c].phase = "restore" /\ "gone" \in Phases
        /\ entries' = IF mine THEN [entries EXCEPT ![n] = reg[c].replaced] ELSE entries
        /\ reg' = [reg EXCEPT ![c].phase = "gone", ![c].closed = TRUE]
        /\ lastGeneration' = lastGeneration /\ conns' = conns /\ hubs' = hubs
    BY DEF Rollback, Phases
  <1>2. n \in Names /\ reg[c].gen \in Nat /\ reg[c].gen <= lastGeneration[n]
    BY <1>1 DEF IInv, Admitted
  <1>3. reg[c].replaced \in EntrySet \cup {None}
    BY Typed, RegFields DEF IInv
  <1>4. /\ SameIdentity /\ OthersKeep(c) /\ OthersStayOpen(c) /\ reg'[c].phase = "gone"
        /\ reg'[c].replaced = reg[c].replaced /\ reg' \in [Conns -> RegSet]
    BY <1>1, ClosingStep DEF IInv
  <1>5. entries \in [Names -> EntrySet \cup {None}]
    BY DEF IInv, TypeOK
  <1>6. entries' \in [Names -> EntrySet \cup {None}]
    BY <1>1, <1>3, <1>5
  <1>7. TypeOK'
    BY <1>1, <1>4, <1>6 DEF IInv, TypeOK, RegSet
  <1>8. \A m \in Names : entries'[m] = IF mine /\ m = n THEN reg[c].replaced ELSE entries[m]
    BY <1>1, <1>2, <1>5
  <1> HIDE DEF n, mine
  <1>9. reg[c].replaced # None => reg[c].replaced.gen < reg[c].gen /\ reg[c].replaced.gen \in Nat
    BY <1>1, <1>3 DEF IInv, ReplacedOld, EntrySet
  <1>10. EntriesOld'
    <2>1. SUFFICES ASSUME NEW m \in Names, entries'[m] # None
                   PROVE  entries'[m].gen <= lastGeneration[m]
      BY <1>1 DEF EntriesOld
    <2>2. lastGeneration[m] \in Int
      BY Typed DEF IInv
    <2>3. CASE mine /\ m = n
      BY <1>2, <1>8, <1>9, <2>1, <2>2, <2>3
    <2>4. CASE ~(mine /\ m = n)
      BY <1>8, <2>1, <2>4 DEF IInv, EntriesOld
    <2> QED
      BY <2>3, <2>4
  <1>11. NewestHolds'
    <2>1. SUFFICES ASSUME NEW d \in Conns, reg'[d].phase \notin {"new", "gone"},
                          reg[d].gen = lastGeneration[reg[d].name]
                   PROVE  entries'[reg[d].name] = Entry(reg[d].peer, reg[d].gen)
      BY <1>1, <1>4 DEF NewestHolds, SameIdentity, Entry
    <2>2. d # c /\ reg[d].phase \notin {"new", "gone"}
      BY <1>4, <2>1 DEF OthersKeep
    <2>3. entries[reg[d].name] = Entry(reg[d].peer, reg[d].gen) /\ reg[d].name \in Names
      BY <2>1, <2>2 DEF IInv, NewestHolds, Admitted
    <2>4. ~(mine /\ reg[d].name = n)
      BY <1>1, <2>2, <2>3 DEF IInv, Apart, mine, n, Entry
    <2> QED
      BY <1>8, <2>3, <2>4
  <1>12. NewestIsBacked'
    <2>1. SUFFICES ASSUME NEW m \in Names, entries'[m] # None, entries'[m].state = "live",
                          entries'[m].gen = lastGeneration[m]
                   PROVE  Backed(m)'
      BY <1>1 DEF NewestIsBacked
    <2>2. lastGeneration[m] \in Int
      BY Typed DEF IInv
    <2>3. ~(mine /\ m = n)
      BY <1>2, <1>8, <1>9, <2>1, <2>2
    <2>4. entries'[m] = entries[m]
      BY <1>8, <2>3
    <2>5. PICK d \in Conns : /\ reg[d].phase \notin {"new", "gone"}
                             /\ reg[d].name = m /\ reg[d].gen = entries[m].gen
      BY <2>1, <2>4 DEF IInv, NewestIsBacked, Backed, Active
    <2>6. d # c
      BY <2>1, <2>3, <2>4, <2>5 DEF mine, n
    <2> QED
      BY <1>4, <2>4, <2>5, <2>6 DEF Backed, Active, SameIdentity, OthersKeep
  <1> QED
    BY <1>1, <1>4, <1>7, <1>10, <1>11, <1>12, TaskKeeps, TablesKept DEF IInv

LEMMA MarkStaleStep ==
    ASSUME IInv, NEW c \in Conns, MarkStale(c)
    PROVE  IInv'
  <1> DEFINE n == reg[c].name
             mine == entries[n] # None /\ entries[n].gen = reg[c].gen /\ entries[n].state = "live"
  <1>1. /\ reg[c].phase = "stale" /\ "gone" \in Phases
        /\ entries' = IF mine THEN [entries EXCEPT ![n].state = "stale"] ELSE entries
        /\ reg' = [reg EXCEPT ![c].phase = "gone"]
        /\ lastGeneration' = lastGeneration /\ conns' = conns /\ hubs' = hubs
    BY DEF MarkStale, SetPhase, Phases
  <1>2. n \in Names
    BY <1>1 DEF IInv, Admitted
  <1>3. /\ SameIdentity /\ OthersKeep(c) /\ OthersStayOpen(c) /\ reg'[c].phase = "gone"
        /\ reg'[c].replaced = reg[c].replaced /\ reg' \in [Conns -> RegSet]
    BY <1>1, PhaseStep DEF IInv
  <1>4. entries \in [Names -> EntrySet \cup {None}]
    BY DEF IInv, TypeOK
  <1>5. mine => entries[n] \in EntrySet
    BY <1>2, <1>4
  <1>6. /\ entries' \in [Names -> EntrySet \cup {None}]
        /\ \A m \in Names : (~mine \/ m # n) => entries'[m] = entries[m]
        /\ mine => entries'[n].gen = entries[n].gen /\ entries'[n].state = "stale"
    BY <1>1, <1>2, <1>4, <1>5 DEF EntrySet
  <1>7. TypeOK'
    BY <1>1, <1>3, <1>6 DEF IInv, TypeOK, RegSet
  <1> HIDE DEF n, mine
  <1>8. EntriesOld'
    <2>1. SUFFICES ASSUME NEW m \in Names, entries'[m] # None
                   PROVE  entries'[m].gen <= lastGeneration[m]
      BY <1>1 DEF EntriesOld
    <2>2. entries[m] # None /\ entries'[m].gen = entries[m].gen
      BY <1>6, <2>1 DEF mine, n
    <2> QED
      BY <2>2 DEF IInv, EntriesOld
  <1>9. NewestHolds'
    <2>1. SUFFICES ASSUME NEW d \in Conns, reg'[d].phase \notin {"new", "gone"},
                          reg[d].gen = lastGeneration[reg[d].name]
                   PROVE  entries'[reg[d].name] = Entry(reg[d].peer, reg[d].gen)
      BY <1>1, <1>3 DEF NewestHolds, SameIdentity, Entry
    <2>2. d # c /\ reg[d].phase \notin {"new", "gone"}
      BY <1>3, <2>1 DEF OthersKeep
    <2>3. entries[reg[d].name] = Entry(reg[d].peer, reg[d].gen) /\ reg[d].name \in Names
      BY <2>1, <2>2 DEF IInv, NewestHolds, Admitted
    <2>4. ~(mine /\ reg[d].name = n)
      BY <1>1, <2>2, <2>3 DEF IInv, Apart, mine, n, Entry
    <2> QED
      BY <1>6, <2>3, <2>4
  <1>10. NewestIsBacked'
    <2>1. SUFFICES ASSUME NEW m \in Names, entries'[m] # None, entries'[m].state = "live",
                          entries'[m].gen = lastGeneration[m]
                   PROVE  Backed(m)'
      BY <1>1 DEF NewestIsBacked
    <2>2. ~(mine /\ m = n) /\ entries'[m] = entries[m]
      BY <1>6, <2>1
    <2>3. PICK d \in Conns : /\ reg[d].phase \notin {"new", "gone"}
                             /\ reg[d].name = m /\ reg[d].gen = entries[m].gen
      BY <2>1, <2>2 DEF IInv, NewestIsBacked, Backed, Active
    <2>4. d # c
      BY <2>1, <2>2, <2>3 DEF mine, n
    <2> QED
      BY <1>3, <2>2, <2>3, <2>4 DEF Backed, Active, SameIdentity, OthersKeep
  <1> QED
    BY <1>1, <1>3, <1>7, <1>8, <1>9, <1>10, TaskKeeps, TablesKept DEF IInv

LEMMA SweepStep ==
    ASSUME IInv, NEW n \in Names, SweepExpired(n)
    PROVE  IInv'
  <1>1. /\ entries[n] # None /\ entries[n].state = "stale"
        /\ entries' = [entries EXCEPT ![n] = None]
        /\ UNCHANGED <<lastGeneration, conns, hubs, reg>>
    BY DEF SweepExpired
  <1>2. entries \in [Names -> EntrySet \cup {None}]
    BY DEF IInv, TypeOK
  <1>3. /\ entries' \in [Names -> EntrySet \cup {None}]
        /\ \A m \in Names : entries'[m] = IF m = n THEN None ELSE entries[m]
    BY <1>1, <1>2
  <1>4. TypeOK'
    BY <1>1, <1>3 DEF IInv, TypeOK
  <1>5. EntriesOld'
    BY <1>1, <1>3 DEF IInv, EntriesOld
  <1>6. NewestHolds'
    <2>1. SUFFICES ASSUME NEW d \in Conns, reg[d].phase \notin {"new", "gone"},
                          reg[d].gen = lastGeneration[reg[d].name]
                   PROVE  entries'[reg[d].name] = Entry(reg[d].peer, reg[d].gen)
      BY <1>1 DEF NewestHolds, Entry
    <2>2. entries[reg[d].name] = Entry(reg[d].peer, reg[d].gen) /\ reg[d].name \in Names
      BY <2>1 DEF IInv, NewestHolds, Admitted
    <2>3. reg[d].name # n
      BY <1>1, <2>2 DEF Entry
    <2> QED
      BY <1>3, <2>2, <2>3
  <1>7. NewestIsBacked'
    <2>1. SUFFICES ASSUME NEW m \in Names, entries'[m] # None, entries'[m].state = "live",
                          entries'[m].gen = lastGeneration[m]
                   PROVE  Backed(m)'
      BY <1>1 DEF NewestIsBacked
    <2>2. entries'[m] = entries[m]
      BY <1>3, <2>1
    <2> QED
      BY <1>1, <2>1, <2>2 DEF IInv, NewestIsBacked, Backed, Active
  <1> QED
    BY <1>1, <1>4, <1>5, <1>6, <1>7
    DEF IInv, Tombstones, Admitted, Apart, ConnsHeld, HubsHeld, LostToNewer, ReplacedOld,
        NewestHub, OpenIsPublished

LEMMA NextGenerationIsNew ==
    ASSUME IInv, NEW n \in Names
    PROVE  /\ NextGeneration(n) \in Nat
           /\ NextGeneration(n) > lastGeneration[n]
           /\ entries[n] # None => NextGeneration(n) > entries[n].gen
  <1>1. lastGeneration[n] \in Int /\ lastGeneration[n] >= -1
    BY Typed DEF IInv, Tombstones
  <1>2. entries[n] # None => entries[n].gen \in Nat
    BY Typed DEF IInv, EntrySet
  <1> QED
    BY <1>1, <1>2 DEF NextGeneration, MaxOf

LEMMA DecideStep ==
    ASSUME IInv, NEW c \in Conns, NEW p \in Peers, NEW n \in Names, NEW q \in BOOLEAN,
           Decide(c, p, n, q)
    PROVE  IInv'
  <1> DEFINE g == NextGeneration(n)
             new == [phase |-> IF q THEN "undo" ELSE "decided", name |-> n, peer |-> p, gen |-> g,
                     replaced |-> entries[n], closed |-> FALSE]
  <1>1. /\ reg[c].phase = "new"
        /\ entries' = [entries EXCEPT ![n] = Entry(p, g)]
        /\ lastGeneration' = [lastGeneration EXCEPT ![n] = g]
        /\ reg' = [reg EXCEPT ![c] = new]
        /\ conns' = conns /\ hubs' = hubs
    BY DEF Decide
  <1>2. g \in Nat /\ g > lastGeneration[n] /\ (entries[n] # None => g > entries[n].gen)
    BY NextGenerationIsNew
  <1> HIDE DEF g
  <1>3. /\ reg \in [Conns -> RegSet]
        /\ entries \in [Names -> EntrySet \cup {None}]
        /\ lastGeneration \in [Names -> Int]
    BY DEF IInv, TypeOK, RegSet
  <1>4. /\ new \in RegSet /\ new.name = n /\ new.peer = p /\ new.gen = g
        /\ new.phase \in {"undo", "decided"} /\ new.replaced = entries[n]
    BY <1>2, <1>3 DEF RegSet, Phases
  <1> HIDE DEF new
  <1>5. /\ reg' \in [Conns -> RegSet] /\ reg'[c] = new
        /\ \A d \in Conns : d # c => reg'[d] = reg[d]
    BY <1>1, <1>3, <1>4
  <1>6. Entry(p, g) \in EntrySet /\ Entry(p, g).gen = g
    BY <1>2 DEF Entry, EntrySet
  <1>7. /\ entries' \in [Names -> EntrySet \cup {None}]
        /\ \A m \in Names : entries'[m] = IF m = n THEN Entry(p, g) ELSE entries[m]
    BY <1>1, <1>3, <1>6
  <1>8. /\ lastGeneration' \in [Names -> Int]
        /\ \A m \in Names : lastGeneration'[m] = IF m = n THEN g ELSE lastGeneration[m]
    BY <1>1, <1>2, <1>3
  <1>9. TypeOK'
    BY <1>1, <1>5, <1>7, <1>8 DEF IInv, TypeOK, RegSet
  <1>10. Tombstones'
    BY <1>2, <1>8 DEF IInv, Tombstones
  <1>11. \A d \in Conns : (d # c /\ reg[d].phase # "new") =>
            /\ reg[d].name \in Names /\ reg[d].gen \in Nat
            /\ reg[d].gen <= lastGeneration[reg[d].name]
            /\ reg[d].gen < lastGeneration'[reg[d].name] \/ reg[d].name # n
    <2>1. SUFFICES ASSUME NEW d \in Conns, reg[d].phase # "new"
                   PROVE  /\ reg[d].name \in Names /\ reg[d].gen \in Nat
                          /\ reg[d].gen <= lastGeneration[reg[d].name]
                          /\ reg[d].gen < lastGeneration'[reg[d].name] \/ reg[d].name # n
      OBVIOUS
    <2>2. reg[d].name \in Names /\ reg[d].gen \in Nat /\ reg[d].gen <= lastGeneration[reg[d].name]
      BY <2>1 DEF IInv, Admitted
    <2>3. lastGeneration[reg[d].name] \in Int
      BY <1>3, <2>2
    <2> QED
      BY <1>2, <1>8, <2>2, <2>3
  <1>12. Admitted'
    <2>1. SUFFICES ASSUME NEW d \in Conns, reg'[d].phase # "new"
                   PROVE  /\ reg'[d].name \in Names /\ reg'[d].peer \in Peers /\ reg'[d].gen \in Nat
                          /\ reg'[d].gen <= lastGeneration'[reg'[d].name]
      BY DEF Admitted
    <2>2. CASE d = c
      BY <1>2, <1>4, <1>5, <1>8, <2>2
    <2>3. CASE d # c
      <3>1. reg'[d] = reg[d] /\ reg[d].phase # "new"
        BY <1>5, <2>1, <2>3
      <3>2. reg[d].peer \in Peers /\ lastGeneration[reg[d].name] \in Int
        BY <1>3, <1>11, <2>3, <3>1 DEF IInv, Admitted
      <3> QED
        BY <1>2, <1>8, <1>11, <2>3, <3>1, <3>2
    <2> QED
      BY <2>2, <2>3
  <1>13. Apart'
    <2>1. \A d \in Conns : (d # c /\ reg[d].phase # "new" /\ reg[d].name = n) => reg[d].gen # g
      BY <1>2, <1>3, <1>11
    <2> QED
      BY <1>4, <1>5, <2>1 DEF IInv, Apart
  <1>14. ConnsHeld' /\ HubsHeld'
    <2>1. \A m \in Names : (conns[m] # None => conns[m] \in Conns /\ conns[m] # c)
                            /\ (hubs[m] # None => hubs[m] \in Conns /\ hubs[m] # c)
      BY <1>1, Typed DEF IInv, ConnsHeld, HubsHeld
    <2> QED
      BY <1>1, <1>5, <2>1 DEF IInv, ConnsHeld, HubsHeld
  <1>15. LostToNewer'
    <2>1. SUFFICES ASSUME NEW d \in Conns,
                          \/ reg'[d].phase = "unhub"
                          \/ reg'[d].phase \in {"hub", "driving", "unconn"} /\ conns[reg'[d].name] # d
                   PROVE  reg'[d].gen < lastGeneration'[reg'[d].name]
      BY <1>1 DEF LostToNewer
    <2>2. d # c /\ reg'[d] = reg[d] /\ reg[d].phase # "new"
      BY <1>4, <1>5, <2>1
    <2>3. reg[d].gen < lastGeneration[reg[d].name]
      BY <2>1, <2>2 DEF IInv, LostToNewer
    <2> QED
      BY <1>8, <1>11, <2>2, <2>3
  <1>16. EntriesOld'
    <2>1. SUFFICES ASSUME NEW m \in Names, entries'[m] # None
                   PROVE  entries'[m].gen <= lastGeneration'[m]
      BY DEF EntriesOld
    <2> QED
      BY <1>2, <1>6, <1>7, <1>8, <2>1 DEF IInv, EntriesOld
  <1>17. ReplacedOld'
    <2>1. entries[n] # None => entries[n].gen \in Nat
      BY <1>3 DEF EntrySet
    <2>2. new.replaced # None => new.replaced.gen < new.gen
      BY <1>2, <1>4, <2>1
    <2> QED
      BY <1>5, <2>2 DEF IInv, ReplacedOld
  <1>18. NewestHolds'
    <2>1. SUFFICES ASSUME NEW d \in Conns, reg'[d].phase \notin {"new", "gone"},
                          reg'[d].gen = lastGeneration'[reg'[d].name]
                   PROVE  entries'[reg'[d].name] = Entry(reg'[d].peer, reg'[d].gen)
      BY DEF NewestHolds, Entry
    <2>2. CASE d = c
      BY <1>4, <1>5, <1>7, <2>2
    <2>3. CASE d # c
      <3>1. reg'[d] = reg[d] /\ reg[d].phase \notin {"new", "gone"}
        BY <1>5, <2>1, <2>3
      <3>2. reg[d].name # n /\ reg[d].name \in Names
        BY <1>2, <1>8, <1>11, <2>1, <2>3, <3>1
      <3> QED
        BY <1>7, <1>8, <2>1, <3>1, <3>2 DEF IInv, NewestHolds
    <2> QED
      BY <2>2, <2>3
  <1>19. NewestHub'
    <2>1. SUFFICES ASSUME NEW d \in Conns, reg'[d].phase = "driving",
                          reg'[d].gen = lastGeneration'[reg'[d].name]
                   PROVE  hubs[reg'[d].name] = d
      BY <1>1 DEF NewestHub
    <2>2. d # c /\ reg'[d] = reg[d] /\ reg[d].phase # "new"
      BY <1>4, <1>5, <2>1
    <2>3. reg[d].name # n /\ reg[d].name \in Names
      BY <1>2, <1>8, <1>11, <2>1, <2>2
    <2> QED
      BY <1>8, <2>1, <2>2, <2>3 DEF IInv, NewestHub
  <1>20. OpenIsPublished'
    BY <1>1, <1>4, <1>5 DEF IInv, OpenIsPublished
  <1>21. NewestIsBacked'
    <2>1. SUFFICES ASSUME NEW m \in Names, entries'[m] # None, entries'[m].state = "live",
                          entries'[m].gen = lastGeneration'[m]
                   PROVE  Backed(m)'
      BY DEF NewestIsBacked
    <2>2. CASE m = n
      BY <1>4, <1>5, <1>6, <1>7, <2>2 DEF Backed, Active
    <2>3. CASE m # n
      <3>1. entries'[m] = entries[m] /\ lastGeneration'[m] = lastGeneration[m]
        BY <1>7, <1>8, <2>3
      <3>2. PICK d \in Conns : /\ reg[d].phase \notin {"new", "gone"}
                               /\ reg[d].name = m /\ reg[d].gen = entries[m].gen
        BY <2>1, <3>1 DEF IInv, NewestIsBacked, Backed, Active
      <3>3. reg'[d] = reg[d]
        BY <1>1, <1>5, <3>2
      <3> QED
        BY <3>1, <3>2, <3>3 DEF Backed, Active
    <2> QED
      BY <2>2, <2>3
  <1> QED
    BY <1>9, <1>10, <1>12, <1>13, <1>14, <1>15, <1>16, <1>17, <1>18, <1>19, <1>20, <1>21 DEF IInv

LEMMA EndDriveStep ==
    ASSUME IInv, NEW c \in Conns, EndDrive(c)
    PROVE  IInv'
  <1>1. /\ reg[c].phase = "driving" /\ "unconn" \in Phases
        /\ reg' = [reg EXCEPT ![c].phase = "unconn", ![c].closed = TRUE]
        /\ entries' = entries /\ lastGeneration' = lastGeneration /\ conns' = conns /\ hubs' = hubs
    BY DEF EndDrive, Phases
  <1>2. /\ SameIdentity /\ OthersKeep(c) /\ OthersStayOpen(c) /\ reg'[c].phase = "unconn"
        /\ reg'[c].closed = TRUE /\ reg'[c].replaced = reg[c].replaced /\ reg' \in [Conns -> RegSet]
    BY <1>1, ClosingStep DEF IInv
  <1>3. TypeOK'
    BY <1>1, <1>2 DEF IInv, TypeOK, RegSet
  <1>4. ConnsHeld' /\ HubsHeld'
    <2>1. \A m \in Names : (conns[m] # None => conns[m] \in Conns)
                            /\ (hubs[m] # None => hubs[m] \in Conns)
      BY Typed DEF IInv
    <2> QED
      BY <1>1, <1>2, <2>1 DEF IInv, ConnsHeld, HubsHeld, SameIdentity, OthersKeep
  <1>5. LostToNewer' /\ NewestHub' /\ OpenIsPublished'
    BY <1>1, <1>2
    DEF IInv, LostToNewer, NewestHub, OpenIsPublished, SameIdentity, OthersKeep, OthersStayOpen
  <1> QED
    BY <1>1, <1>2, <1>3, <1>4, <1>5, TaskKeeps, RowsKept DEF IInv

LEMMA PublishHubStep ==
    ASSUME IInv, NEW c \in Conns, PublishHub(c)
    PROVE  IInv'
  <1> DEFINE n == reg[c].name
  <1>1. /\ reg[c].phase = "hub" /\ "driving" \in Phases
        /\ reg' = [reg EXCEPT ![c].phase = "driving"]
        /\ hubs' = IF Supersedes(hubs, c) THEN [hubs EXCEPT ![n] = c] ELSE hubs
        /\ entries' = entries /\ lastGeneration' = lastGeneration /\ conns' = conns
    BY DEF PublishHub, SetPhase, Phases
  <1>2. /\ SameIdentity /\ OthersKeep(c) /\ OthersStayOpen(c) /\ reg'[c].phase = "driving"
        /\ reg'[c].closed = reg[c].closed /\ reg'[c].replaced = reg[c].replaced
        /\ reg' \in [Conns -> RegSet]
    BY <1>1, PhaseStep DEF IInv
  <1>3. n \in Names /\ reg[c].gen \in Nat /\ reg[c].gen <= lastGeneration[n]
        /\ lastGeneration[n] \in Int
    BY <1>1, Typed DEF IInv, Admitted
  <1>4. hubs \in [Names -> Conns \cup {None}]
    BY DEF IInv, TypeOK
  <1>5. /\ hubs' \in [Names -> Conns \cup {None}]
        /\ \A m \in Names : hubs'[m] = IF Supersedes(hubs, c) /\ m = n THEN c ELSE hubs[m]
    BY <1>1, <1>3, <1>4
  <1>6. TypeOK'
    BY <1>1, <1>2, <1>5 DEF IInv, TypeOK, RegSet
  <1>7. ConnsHeld'
    <2>1. \A m \in Names : conns[m] # None => conns[m] \in Conns
      BY Typed DEF IInv
    <2> QED
      BY <1>1, <1>2, <2>1 DEF IInv, ConnsHeld, SameIdentity, OthersKeep
  <1>8. HubsHeld'
    <2>1. SUFFICES ASSUME NEW m \in Names, hubs'[m] # None
                   PROVE  /\ reg'[hubs'[m]].name = m
                          /\ reg'[hubs'[m]].phase \in {"driving", "unconn", "unhubLive", "unhub"}
      BY DEF HubsHeld
    <2>2. CASE hubs'[m] = c
      BY <1>1, <1>2, <1>5, <2>1, <2>2 DEF IInv, HubsHeld, SameIdentity
    <2>3. CASE hubs'[m] # c
      <3>1. hubs'[m] = hubs[m] /\ hubs[m] \in Conns
        BY <1>4, <1>5, <2>1, <2>3
      <3> QED
        BY <1>2, <2>1, <2>3, <3>1 DEF IInv, HubsHeld, SameIdentity, OthersKeep
    <2> QED
      BY <2>2, <2>3
  <1>9. LostToNewer'
    BY <1>1, <1>2 DEF IInv, LostToNewer, SameIdentity, OthersKeep
  <1>10. OpenIsPublished'
    BY <1>1, <1>2 DEF IInv, OpenIsPublished, SameIdentity, OthersKeep, OthersStayOpen
  <1>11. NewestHub'
    <2>1. SUFFICES ASSUME NEW d \in Conns, reg'[d].phase = "driving",
                          reg[d].gen = lastGeneration[reg[d].name]
                   PROVE  hubs'[reg[d].name] = d
      BY <1>1, <1>2 DEF NewestHub, SameIdentity
    <2>2. CASE d = c
      <3>1. SUFFICES ASSUME hubs[n] # None
                     PROVE  reg[hubs[n]].gen < reg[c].gen
        BY <1>3, <1>5, <2>2 DEF Supersedes
      <3>2. /\ hubs[n] \in Conns /\ hubs[n] # c /\ reg[hubs[n]].name = n
            /\ reg[hubs[n]].phase # "new"
        BY <1>1, <1>3, <1>4, <3>1 DEF IInv, HubsHeld
      <3>3. /\ reg[hubs[n]].gen \in Nat /\ reg[hubs[n]].gen <= lastGeneration[n]
        BY <3>2 DEF IInv, Admitted
      <3>4. reg[hubs[n]].gen # reg[c].gen
        BY <1>1, <3>2 DEF IInv, Apart
      <3> QED
        BY <1>3, <2>1, <2>2, <3>3, <3>4
    <2>3. CASE d # c
      <3>1. reg[d].phase = "driving"
        BY <1>2, <2>1, <2>3 DEF OthersKeep
      <3>2. hubs[reg[d].name] = d /\ reg[d].name \in Names
        BY <2>1, <3>1 DEF IInv, NewestHub, Admitted
      <3>3. ASSUME Supersedes(hubs, c), reg[d].name = n
            PROVE  FALSE
        <4>1. reg[d].gen < reg[c].gen
          BY <1>3, <3>2, <3>3, ListenAssumption DEF Supersedes
        <4> QED
          BY <1>3, <2>1, <3>3, <4>1
      <3> QED
        BY <1>5, <3>2, <3>3
    <2> QED
      BY <2>2, <2>3
  <1> QED
    BY <1>1, <1>2, <1>6, <1>7, <1>8, <1>9, <1>10, <1>11, TaskKeeps, RowsKept DEF IInv

LEMMA RemoveHubStep ==
    ASSUME IInv, NEW c \in Conns, RemoveHub(c)
    PROVE  IInv'
  <1> DEFINE n == reg[c].name
             p == IF reg[c].phase = "unhubLive" THEN "stale" ELSE "gone"
  <1>1. /\ reg[c].phase \in {"unhubLive", "unhub"} /\ p \in Phases
        /\ reg' = [reg EXCEPT ![c].phase = p]
        /\ hubs' = IF Holds(hubs, c) THEN [hubs EXCEPT ![n] = None] ELSE hubs
        /\ entries' = entries /\ lastGeneration' = lastGeneration /\ conns' = conns
    BY DEF RemoveHub, SetPhase, Phases
  <1>2. p \in {"stale", "gone"} /\ (p = "gone" => reg[c].phase = "unhub")
    BY <1>1
  <1> HIDE DEF p
  <1>3. /\ SameIdentity /\ OthersKeep(c) /\ OthersStayOpen(c) /\ reg'[c].phase = p
        /\ reg'[c].closed = reg[c].closed /\ reg'[c].replaced = reg[c].replaced
        /\ reg' \in [Conns -> RegSet]
    BY <1>1, PhaseStep DEF IInv
  <1>4. n \in Names /\ reg[c].gen \in Nat /\ lastGeneration[n] \in Int
    BY <1>1, Typed DEF IInv, Admitted
  <1>5. hubs \in [Names -> Conns \cup {None}]
    BY DEF IInv, TypeOK
  <1>6. /\ hubs' \in [Names -> Conns \cup {None}]
        /\ \A m \in Names : hubs'[m] = IF Holds(hubs, c) /\ m = n THEN None ELSE hubs[m]
    BY <1>1, <1>4, <1>5
  <1>7. /\ Holds(hubs, c) => hubs[n] = c
        /\ \A m \in Names : hubs[m] = c => m = n /\ Holds(hubs, c)
    BY <1>1, HolderIsMe, ListenAssumption DEF IInv, HubsHeld, Holds
  <1>8. TypeOK'
    BY <1>1, <1>3, <1>6 DEF IInv, TypeOK, RegSet
  <1>9. ConnsHeld'
    <2>1. \A m \in Names : conns[m] # None => conns[m] \in Conns /\ conns[m] # c
      BY <1>1, Typed DEF IInv, ConnsHeld
    <2> QED
      BY <1>1, <1>3, <2>1 DEF IInv, ConnsHeld, SameIdentity, OthersKeep
  <1>10. HubsHeld'
    <2>1. SUFFICES ASSUME NEW m \in Names, hubs'[m] # None
                   PROVE  /\ reg'[hubs'[m]].name = m
                          /\ reg'[hubs'[m]].phase \in {"driving", "unconn", "unhubLive", "unhub"}
      BY DEF HubsHeld
    <2>2. hubs'[m] = hubs[m] /\ hubs[m] \in Conns /\ hubs[m] # c
      BY <1>5, <1>6, <1>7, <2>1
    <2> QED
      BY <1>3, <2>1, <2>2 DEF IInv, HubsHeld, SameIdentity, OthersKeep
  <1>11. LostToNewer'
    BY <1>1, <1>2, <1>3 DEF IInv, LostToNewer, SameIdentity, OthersKeep
  <1>12. OpenIsPublished'
    BY <1>1, <1>2, <1>3 DEF IInv, OpenIsPublished, SameIdentity, OthersKeep, OthersStayOpen
  <1>13. NewestHub'
    <2>1. SUFFICES ASSUME NEW d \in Conns, reg'[d].phase = "driving",
                          reg[d].gen = lastGeneration[reg[d].name]
                   PROVE  hubs'[reg[d].name] = d
      BY <1>1, <1>3 DEF NewestHub, SameIdentity
    <2>2. d # c /\ reg[d].phase = "driving"
      BY <1>2, <1>3, <2>1 DEF OthersKeep
    <2>3. hubs[reg[d].name] = d /\ reg[d].name \in Names
      BY <2>1, <2>2 DEF IInv, NewestHub, Admitted
    <2> QED
      BY <1>6, <1>7, <2>2, <2>3
  <1>14. p = "gone" => reg[c].gen # lastGeneration[reg[c].name]
    BY <1>2, <1>4 DEF IInv, LostToNewer
  <1> QED
    BY <1>1, <1>2, <1>3, <1>8, <1>9, <1>10, <1>11, <1>12, <1>13, <1>14, TaskKeeps, RowsKept
    DEF IInv

LEMMA RemoveConnStep ==
    ASSUME IInv, NEW c \in Conns, RemoveConn(c)
    PROVE  IInv'
  <1> DEFINE n == reg[c].name
             p == IF Holds(conns, c) THEN "unhubLive" ELSE "unhub"
  <1>1. /\ reg[c].phase = "unconn" /\ p \in Phases
        /\ reg' = [reg EXCEPT ![c].phase = p]
        /\ conns' = IF Holds(conns, c) THEN [conns EXCEPT ![n] = None] ELSE conns
        /\ entries' = entries /\ lastGeneration' = lastGeneration /\ hubs' = hubs
    BY DEF RemoveConn, SetPhase, Phases
  <1>2. p \in {"unhubLive", "unhub"} /\ (p = "unhub" => ~Holds(conns, c))
    OBVIOUS
  <1> HIDE DEF p
  <1>3. /\ SameIdentity /\ OthersKeep(c) /\ OthersStayOpen(c) /\ reg'[c].phase = p
        /\ reg'[c].closed = reg[c].closed /\ reg'[c].replaced = reg[c].replaced
        /\ reg' \in [Conns -> RegSet]
    BY <1>1, PhaseStep DEF IInv
  <1>4. n \in Names
    BY <1>1 DEF IInv, Admitted
  <1>5. conns \in [Names -> Conns \cup {None}]
    BY DEF IInv, TypeOK
  <1>6. /\ conns' \in [Names -> Conns \cup {None}]
        /\ \A m \in Names : conns'[m] = IF Holds(conns, c) /\ m = n THEN None ELSE conns[m]
    BY <1>1, <1>4, <1>5
  <1>7. /\ Holds(conns, c) => conns[n] = c
        /\ \A m \in Names : conns[m] = c => m = n /\ Holds(conns, c)
    BY <1>1, HolderIsMe, ListenAssumption DEF IInv, ConnsHeld, Holds
  <1>8. TypeOK'
    BY <1>1, <1>3, <1>6 DEF IInv, TypeOK, RegSet
  <1>9. ConnsHeld'
    <2>1. SUFFICES ASSUME NEW m \in Names, conns'[m] # None
                   PROVE  /\ reg'[conns'[m]].name = m
                          /\ reg'[conns'[m]].phase \in {"hub", "driving", "unconn"}
      BY DEF ConnsHeld
    <2>2. conns'[m] = conns[m] /\ conns[m] \in Conns /\ conns[m] # c
      BY <1>5, <1>6, <1>7, <2>1
    <2> QED
      BY <1>3, <2>1, <2>2 DEF IInv, ConnsHeld, SameIdentity, OthersKeep
  <1>10. HubsHeld'
    <2>1. \A m \in Names : hubs[m] # None => hubs[m] \in Conns
      BY Typed DEF IInv
    <2> QED
      BY <1>1, <1>2, <1>3, <2>1 DEF IInv, HubsHeld, SameIdentity, OthersKeep
  <1>11. LostToNewer'
    <2>1. SUFFICES ASSUME NEW d \in Conns,
                          \/ reg'[d].phase = "unhub"
                          \/ reg'[d].phase \in {"hub", "driving", "unconn"} /\ conns'[reg[d].name] # d
                   PROVE  reg[d].gen < lastGeneration[reg[d].name]
      BY <1>1, <1>3 DEF LostToNewer, SameIdentity
    <2>2. CASE d = c
      <3>1. conns[n] # c
        BY <1>2, <1>3, <1>4, <1>7, <2>1, <2>2
      <3> QED
        BY <1>1, <2>2, <3>1 DEF IInv, LostToNewer
    <2>3. CASE d # c
      <3>1. reg[d].phase = reg'[d].phase
        BY <1>3, <2>3 DEF OthersKeep
      <3>2. reg[d].name \in Names
        BY <2>1, <3>1 DEF IInv, Admitted
      <3>3. conns'[reg[d].name] # d => conns[reg[d].name] # d
        BY <1>6, <1>7, <2>3, <3>2
      <3> QED
        BY <2>1, <3>1, <3>3 DEF IInv, LostToNewer
    <2> QED
      BY <2>2, <2>3
  <1>12. OpenIsPublished'
    <2>1. SUFFICES ASSUME NEW d \in Conns, reg'[d].phase \in {"hub", "driving"}, ~reg'[d].closed
                   PROVE  conns'[reg[d].name] = d
      BY <1>3 DEF OpenIsPublished, SameIdentity
    <2>2. d # c /\ reg[d].phase = reg'[d].phase /\ reg[d].closed = reg'[d].closed
      BY <1>2, <1>3, <2>1 DEF OthersKeep, OthersStayOpen
    <2>3. conns[reg[d].name] = d /\ reg[d].name \in Names
      BY <2>1, <2>2 DEF IInv, OpenIsPublished, Admitted
    <2> QED
      BY <1>6, <1>7, <2>2, <2>3
  <1>13. NewestHub'
    BY <1>1, <1>2, <1>3 DEF IInv, NewestHub, SameIdentity, OthersKeep
  <1> QED
    BY <1>1, <1>2, <1>3, <1>8, <1>9, <1>10, <1>11, <1>12, <1>13, TaskKeeps, RowsKept DEF IInv

\* The occupant a connection finds in its slot is another task, of its name.
LEMMA Occupant ==
    ASSUME IInv, NEW c \in Conns, reg[c].phase = "publish", conns[reg[c].name] # None
    PROVE  LET d == conns[reg[c].name] IN
           /\ d \in Conns /\ d # c /\ reg[d].name = reg[c].name
           /\ reg[d].phase \in {"hub", "driving", "unconn"}
           /\ reg[d].gen \in Nat /\ reg[d].gen # reg[c].gen
           /\ reg[d].gen <= lastGeneration[reg[c].name]
  <1> DEFINE d == conns[reg[c].name]
  <1>1. reg[c].name \in Names
    BY DEF IInv, Admitted
  <1>2. /\ d \in Conns /\ reg[d].name = reg[c].name
        /\ reg[d].phase \in {"hub", "driving", "unconn"} /\ d # c
    BY <1>1, Typed DEF IInv, ConnsHeld
  <1> HIDE DEF d
  <1>3. /\ reg[d].gen \in Nat /\ reg[d].gen <= lastGeneration[reg[c].name]
        /\ reg[d].gen # reg[c].gen
    BY <1>2 DEF IInv, Admitted, Apart
  <1> QED
    BY <1>2, <1>3 DEF d

LEMMA PublishStep ==
    ASSUME IInv, NEW c \in Conns, Publish(c)
    PROVE  IInv'
  <1> DEFINE n == reg[c].name
  <1>1. /\ reg[c].phase = "publish" /\ "hub" \in Phases /\ "gone" \in Phases
        /\ entries' = entries /\ lastGeneration' = lastGeneration /\ hubs' = hubs
    BY DEF Publish, Phases
  <1>2. n \in Names /\ reg[c].gen \in Nat /\ reg[c].gen <= lastGeneration[n]
        /\ lastGeneration[n] \in Int
    BY <1>1, Typed DEF IInv, Admitted
  <1>3. CASE ~Supersedes(conns, c)
    <2>1. /\ reg' = [reg EXCEPT ![c].phase = "gone", ![c].closed = TRUE]
          /\ conns' = conns
      BY <1>3 DEF Publish
    <2>2. /\ SameIdentity /\ OthersKeep(c) /\ OthersStayOpen(c) /\ reg'[c].phase = "gone"
          /\ reg'[c].replaced = reg[c].replaced /\ reg' \in [Conns -> RegSet]
      BY <1>1, <2>1, ClosingStep DEF IInv
    <2>3. TypeOK'
      BY <1>1, <2>1, <2>2 DEF IInv, TypeOK, RegSet
    <2>4. reg[c].gen # lastGeneration[n]
      BY <1>1, <1>2, <1>3, Occupant DEF Supersedes
    <2> QED
      BY <1>1, <2>1, <2>2, <2>3, <2>4, TaskKeeps, RowsKept, TablesKept DEF IInv
  <1>4. CASE Supersedes(conns, c)
    <2>1. /\ conns' = [conns EXCEPT ![n] = c]
          /\ reg' = [d \in Conns |-> IF d = c THEN [reg[c] EXCEPT !.phase = "hub"]
                                     ELSE IF d = conns[n] THEN [reg[d] EXCEPT !.closed = TRUE]
                                     ELSE reg[d]]
      BY <1>4 DEF Publish
    <2>2. \A d \in Conns : /\ [reg[d] EXCEPT !.phase = "hub"] \in RegSet
                           /\ [reg[d] EXCEPT !.closed = TRUE] \in RegSet
      BY <1>1, Typed DEF IInv, RegSet
    <2>3. reg' \in [Conns -> RegSet]
      BY <2>1, <2>2, Typed DEF IInv
    <2>4. /\ reg'[c] = [reg[c] EXCEPT !.phase = "hub"]
          /\ \A d \in Conns \ {c} :
                reg'[d] = IF d = conns[n] THEN [reg[d] EXCEPT !.closed = TRUE] ELSE reg[d]
      BY <2>1
    <2>5. /\ SameIdentity /\ OthersKeep(c) /\ reg'[c].phase = "hub"
          /\ reg'[c].replaced = reg[c].replaced
          /\ \A d \in Conns \ {c} : reg'[d].closed = (d = conns[n] \/ reg[d].closed)
      <3>1. /\ reg'[c].phase = "hub" /\ reg'[c].replaced = reg[c].replaced
            /\ reg'[c].name = reg[c].name /\ reg'[c].peer = reg[c].peer /\ reg'[c].gen = reg[c].gen
        BY <2>4, Typed DEF IInv, RegSet
      <3>2. \A d \in Conns \ {c} :
               /\ reg'[d].phase = reg[d].phase /\ reg'[d].replaced = reg[d].replaced
               /\ reg'[d].name = reg[d].name /\ reg'[d].peer = reg[d].peer /\ reg'[d].gen = reg[d].gen
               /\ d = conns[n] => reg'[d].closed = TRUE
               /\ d # conns[n] => reg'[d].closed = reg[d].closed
        BY <2>4, Typed DEF IInv, RegSet
      <3>3. SameIdentity
        <4>1. SUFFICES ASSUME NEW d \in Conns
                       PROVE  /\ reg'[d].name = reg[d].name /\ reg'[d].peer = reg[d].peer
                              /\ reg'[d].gen = reg[d].gen
          BY DEF SameIdentity
        <4>2. CASE d = c
          BY <3>1, <4>2
        <4>3. CASE d # c
          BY <3>2, <4>3
        <4> QED
          BY <4>2, <4>3
      <3>4. OthersKeep(c)
        BY <3>2, Zenon DEF OthersKeep
      <3>5. \A d \in Conns \ {c} : reg[d].closed \in BOOLEAN
        BY Typed, RegFields DEF IInv
      <3>6. \A d \in Conns \ {c} : reg'[d].closed = (d = conns[n] \/ reg[d].closed)
        BY <3>2, <3>5
      <3> QED
        BY <3>1, <3>3, <3>4, <3>6
    <2>6. conns \in [Names -> Conns \cup {None}]
      BY DEF IInv, TypeOK
    <2>7. /\ conns' \in [Names -> Conns \cup {None}]
          /\ \A m \in Names : conns'[m] = IF m = n THEN c ELSE conns[m]
      BY <1>2, <2>1, <2>6
    <2>8. TypeOK'
      BY <1>1, <2>3, <2>7 DEF IInv, TypeOK, RegSet
    <2>9. ConnsHeld'
      <3>1. SUFFICES ASSUME NEW m \in Names, conns'[m] # None
                     PROVE  /\ reg'[conns'[m]].name = m
                            /\ reg'[conns'[m]].phase \in {"hub", "driving", "unconn"}
        BY DEF ConnsHeld
      <3>2. CASE m = n
        BY <2>5, <2>7, <3>2 DEF SameIdentity
      <3>3. CASE m # n
        <4>1. conns'[m] = conns[m] /\ conns[m] \in Conns /\ conns[m] # c
          BY <2>6, <2>7, <3>1, <3>3 DEF IInv, ConnsHeld
        <4> QED
          BY <2>5, <3>1, <4>1 DEF IInv, ConnsHeld, SameIdentity, OthersKeep
      <3> QED
        BY <3>2, <3>3
    <2>10. HubsHeld'
      <3>1. \A m \in Names : hubs[m] # None => hubs[m] \in Conns /\ hubs[m] # c
        BY <1>1, Typed DEF IInv, HubsHeld
      <3> QED
        BY <1>1, <2>5, <3>1 DEF IInv, HubsHeld, SameIdentity, OthersKeep
    <2>11. LostToNewer'
      <3>1. SUFFICES ASSUME NEW d \in Conns,
                            \/ reg'[d].phase = "unhub"
                            \/ reg'[d].phase \in {"hub", "driving", "unconn"} /\ conns'[reg[d].name] # d
                     PROVE  reg[d].gen < lastGeneration[reg[d].name]
        BY <1>1, <2>5 DEF LostToNewer, SameIdentity
      <3>2. d # c /\ reg[d].phase = reg'[d].phase
        BY <1>2, <2>5, <2>7, <3>1 DEF OthersKeep
      <3>3. reg[d].name \in Names /\ reg[d].gen \in Nat
        BY <3>1, <3>2 DEF IInv, Admitted
      <3>4. CASE reg[d].phase # "unhub" /\ conns[reg[d].name] = d
        <4>1. reg[d].name = n /\ conns[n] = d
          BY <2>7, <3>1, <3>2, <3>3, <3>4
        <4>2. reg[d].gen < reg[c].gen
          BY <1>4, <4>1, ListenAssumption DEF Supersedes
        <4> QED
          BY <1>2, <3>3, <4>1, <4>2
      <3>5. CASE reg[d].phase = "unhub" \/ conns[reg[d].name] # d
        BY <3>1, <3>2, <3>5 DEF IInv, LostToNewer
      <3> QED
        BY <3>4, <3>5
    <2>12. OpenIsPublished'
      <3>1. SUFFICES ASSUME NEW d \in Conns, reg'[d].phase \in {"hub", "driving"}, ~reg'[d].closed
                     PROVE  conns'[reg[d].name] = d
        BY <2>5 DEF OpenIsPublished, SameIdentity
      <3>2. CASE d = c
        BY <1>2, <2>7, <3>2
      <3>3. CASE d # c
        <4>1. reg[d].phase = reg'[d].phase /\ d # conns[n] /\ ~reg[d].closed
          BY <2>5, <3>1, <3>3 DEF OthersKeep
        <4>2. conns[reg[d].name] = d /\ reg[d].name \in Names
          BY <3>1, <4>1 DEF IInv, OpenIsPublished, Admitted
        <4> QED
          BY <2>7, <4>1, <4>2
      <3> QED
        BY <3>2, <3>3
    <2>13. NewestHub'
      BY <1>1, <2>5 DEF IInv, NewestHub, SameIdentity, OthersKeep
    <2> QED
      BY <1>1, <2>5, <2>8, <2>9, <2>10, <2>11, <2>12, <2>13, TaskKeeps, RowsKept DEF IInv
  <1> QED
    BY <1>3, <1>4

-----------------------------------------------------------------------------
(* The theorems.                                                           *)

LEMMA InitInv == Init => IInv
  <1> SUFFICES ASSUME Init PROVE IInv
    OBVIOUS
  <1>1. \A c \in Conns : reg[c] = Fresh
    BY DEF Init
  <1>2. Fresh \in RegSet /\ Fresh.phase = "new"
    BY DEF Fresh, RegSet, Phases
  <1>3. reg \in [Conns -> RegSet]
    BY <1>1, <1>2 DEF Init
  <1>4. TypeOK
    BY <1>3 DEF Init, TypeOK, RegSet
  <1> QED
    BY <1>1, <1>2, <1>4
    DEF Init, IInv, Tombstones, Admitted, Apart, ConnsHeld, HubsHeld, LostToNewer, EntriesOld,
        ReplacedOld, NewestHolds, NewestHub, OpenIsPublished, NewestIsBacked

LEMMA NextInv == IInv /\ [Next]_vars => IInv'
  <1> SUFFICES ASSUME IInv, [Next]_vars PROVE IInv'
    OBVIOUS
  <1>1. CASE UNCHANGED vars
    BY <1>1
    DEF vars, IInv, TypeOK, Tombstones, Admitted, Apart, ConnsHeld, HubsHeld, LostToNewer,
        EntriesOld, ReplacedOld, NewestHolds, NewestHub, OpenIsPublished, NewestIsBacked, Backed,
        Active, Entry
  <1>2. CASE \E c \in Conns, p \in Peers, n \in Names, q \in BOOLEAN : Decide(c, p, n, q)
    BY <1>2, DecideStep
  <1>3. ASSUME NEW c \in Conns, TaskStep(c)
        PROVE  IInv'
    BY <1>3, ReplyStep, RollbackTargetStep, RollbackStep, PublishStep, PublishHubStep,
       RemoveConnStep, RemoveHubStep, MarkStaleStep DEF TaskStep
  <1>4. CASE \E c \in Conns : EndDrive(c)
    BY <1>4, EndDriveStep
  <1>5. CASE \E n \in Names : SweepExpired(n)
    BY <1>5, SweepStep
  <1> QED
    BY <1>1, <1>2, <1>3, <1>4, <1>5 DEF Next

\* The inductive invariant holds.
THEOREM ListenInvariant == Spec => []IInv
  BY InitInv, NextInv, PTL DEF Spec

\* The registry, the tables and the tasks keep their types: in particular every
\* row has a peer.
THEOREM ListenTypeCorrect == Spec => []TypeOK
  <1>1. IInv => TypeOK
    BY DEF IInv
  <1> QED
    BY <1>1, ListenInvariant, PTL

\* admit never hands out a generation twice for a name, whatever rollbacks and
\* sweeps come between.
THEOREM GenerationsAreUnique == Spec => []GenerationsUnique
  <1>1. IInv => GenerationsUnique
    BY DEF IInv, Apart, GenerationsUnique, Active
  <1> QED
    BY <1>1, ListenInvariant, PTL

\* ConnTable::publish leaves no open connection that its name does not lead to.
THEOREM OpenConnectionIsPublished == Spec => []OpenIsPublished
  <1>1. IInv => OpenIsPublished
    BY DEF IInv
  <1> QED
    BY <1>1, ListenInvariant, PTL

\* The newest registration keeps its row and its hub until its own task ends.
THEOREM NewestKeepsItsRow == Spec => []NewestIsListed
  <1>1. IInv => NewestIsListed
    BY DEF IInv, NewestHolds, NewestHub, NewestIsListed
  <1> QED
    BY <1>1, ListenInvariant, PTL

\* A live row of the newest generation has a task behind it.
THEOREM NewestHasATask == Spec => []NewestIsBacked
  <1>1. IInv => NewestIsBacked
    BY DEF IInv
  <1> QED
    BY <1>1, ListenInvariant, PTL
=============================================================================
