------------------------ MODULE TokenCustodyProofs ------------------------
(***************************************************************************)
(* Proofs about TokenCustody, for any processes, sessions and number of    *)
(* tokens: a live session no fault befell keeps the token that reaches it, *)
(* one process at most carries it, and the store never goes back to an     *)
(* older one.                                                              *)
(***************************************************************************)
EXTENDS TokenCustody, TLAPS

\* What a process's record may look like.
Shaped(r) ==
    /\ r.st # "idle" => r.s \in Sessions
    /\ r.edit # "none" <=> r.st \in {"update", "write"}
    /\ r.st = "write" => r.doc \in [Sessions -> Tokens]

AllShaped == \A p \in Procs : Shaped(proc[p])

\* Every token there is was minted.
Bounded ==
    /\ \A s \in Sessions : current[s] <= minted /\ disk[s] <= minted
    /\ \A p \in Procs : proc[p].tok <= minted
    /\ \A z \in zombies : z.tok <= minted

\* The token in hand is the one the host accepts.
HandIsCurrent ==
    \A p \in Procs :
        (InHand(proc[p]) /\ host[proc[p].s] = "live") => proc[p].tok = current[proc[p].s]

OneHand ==
    \A p, q \in Procs :
        (InHand(proc[p]) /\ InHand(proc[q]) /\ proc[p].s = proc[q].s) => p = q

\* It is newer than anything of the session on disk or on its way to the host.
HandIsNewest ==
    \A p \in Procs : InHand(proc[p]) =>
        /\ disk[proc[p].s] < proc[p].tok
        /\ \A q \in Procs : (proc[q].st = "asked" /\ proc[q].s = proc[p].s) => proc[q].tok < proc[p].tok
        /\ \A z \in zombies : z.s = proc[p].s => z.tok < proc[p].tok

\* Nothing is known of a session before it is opened.
Unopened ==
    \A s \in Sessions : host[s] = "none" =>
        /\ disk[s] = 0
        /\ \A p \in Procs : (InHand(proc[p]) \/ proc[p].st = "asked") => proc[p].s # s
        /\ \A z \in zombies : z.s # s

\* An entry is forgotten after a fault or once the session is over.
ForgetsExcused ==
    \A p \in Procs : proc[p].edit = "forget" =>
        proc[p].s \in harmed \/ host[proc[p].s] = "ended"

\* Under the lock the document in memory is the one on disk, but for what had
\* expired.
DocFresh ==
    \A p \in Procs : proc[p].st = "write" =>
        \A s \in Sessions : proc[p].doc[s] = disk[s] \/ (proc[p].doc[s] = 0 /\ s \in harmed)

IInv ==
    /\ TypeOK /\ AllShaped /\ Bounded /\ HandIsCurrent /\ OneHand /\ HandIsNewest
    /\ Unopened /\ ForgetsExcused /\ DocFresh /\ expired \subseteq harmed /\ Custody

-----------------------------------------------------------------------------
(* Records and types.                                                      *)

LEMMA Typed ==
    ASSUME TypeOK
    PROVE  /\ minted \in Nat /\ minted \in Tokens /\ Tokens \subseteq Nat
           /\ proc \in [Procs -> ProcSet]
           /\ current \in [Sessions -> Tokens] /\ disk \in [Sessions -> Tokens]
           /\ \A s \in Sessions : /\ current[s] \in Nat /\ disk[s] \in Nat
                                  /\ host[s] \in {"none", "live", "ended"}
           /\ \A z \in zombies : z.s \in Sessions /\ z.tok \in Nat
  <1>1. Tokens \subseteq Nat
    BY CustodyAssumption DEF Tokens
  <1>2. \A z \in zombies : z \in [s : Sessions, tok : Tokens]
    BY DEF TypeOK
  <1>3. \A z \in zombies : z.s \in Sessions /\ z.tok \in Nat
    BY <1>1, <1>2
  <1>4. /\ minted \in Tokens /\ proc \in [Procs -> ProcSet]
        /\ current \in [Sessions -> Tokens] /\ disk \in [Sessions -> Tokens]
        /\ host \in [Sessions -> {"none", "live", "ended"}]
    BY DEF TypeOK
  <1>5. \A s \in Sessions : host[s] \in {"none", "live", "ended"}
    BY <1>4
  <1>6. /\ minted \in Nat
        /\ \A s \in Sessions : current[s] \in Nat /\ disk[s] \in Nat
    BY <1>1, <1>4
  <1> QED
    BY <1>1, <1>3, <1>4, <1>5, <1>6, Zenon

LEMMA ProcFields ==
    ASSUME TypeOK, NEW p \in Procs
    PROVE  proc[p] \in ProcSet /\ proc[p].tok \in Tokens /\ proc[p].tok \in Nat
  <1>1. proc[p] \in ProcSet
    BY DEF TypeOK
  <1>2. proc[p].tok \in Tokens
    BY <1>1 DEF ProcSet
  <1> QED
    BY <1>1, <1>2, Typed

LEMMA IdleRecord ==
    Idle \in ProcSet /\ Idle.st = "idle" /\ Idle.edit = "none" /\ Idle.tok = 0 /\ Shaped(Idle)
    /\ ~InHand(Idle)
  BY CustodyAssumption DEF Idle, ProcSet, Tokens, Shaped, InHand

LEMMA AtRecord ==
    ASSUME NEW st \in {"opened", "asked", "granted", "refused", "attached", "lost", "update"},
           NEW s \in Sessions, NEW tok \in Tokens
    PROVE  /\ At(st, s, tok) \in ProcSet
           /\ At(st, s, tok).st = st /\ At(st, s, tok).s = s /\ At(st, s, tok).tok = tok
           /\ At(st, s, tok).edit = "none"
           /\ st # "update" => Shaped(At(st, s, tok))
           /\ InHand(At(st, s, tok)) <=> st \in {"opened", "granted"}
  BY DEF At, Idle, ProcSet, Shaped, InHand

LEMMA AskedRecord ==
    ASSUME NEW s \in Sessions, NEW tok \in Tokens
    PROVE  LET r == At("asked", s, tok) IN
           /\ r \in ProcSet /\ r.st = "asked" /\ r.s = s /\ r.tok = tok /\ r.edit = "none"
           /\ Shaped(r) /\ ~InHand(r)
  BY DEF At, Idle, ProcSet, Shaped, InHand

LEMMA RestRecord ==
    ASSUME NEW st \in {"refused", "attached", "lost"}, NEW s \in Sessions, NEW tok \in Tokens
    PROVE  /\ At(st, s, tok) \in ProcSet
           /\ At(st, s, tok).st = st /\ At(st, s, tok).s = s /\ At(st, s, tok).tok = tok
           /\ At(st, s, tok).edit = "none"
           /\ Shaped(At(st, s, tok)) /\ ~InHand(At(st, s, tok))
  BY DEF At, Idle, ProcSet, Shaped, InHand

LEMMA EditRecord ==
    ASSUME NEW edit \in {"put", "putOpened", "forget", "drop", "renew"},
           NEW s \in Sessions, NEW tok \in Tokens
    PROVE  /\ Edit(edit, s, tok) \in ProcSet
           /\ Edit(edit, s, tok).st = "update" /\ Edit(edit, s, tok).s = s
           /\ Edit(edit, s, tok).tok = tok /\ Edit(edit, s, tok).edit = edit
           /\ Shaped(Edit(edit, s, tok))
           /\ InHand(Edit(edit, s, tok)) <=> edit \in {"put", "putOpened"}
  BY DEF Edit, At, Idle, ProcSet, Shaped, InHand

LEMMA BecomeRecord ==
    ASSUME TypeOK, NEW p \in Procs, NEW r \in ProcSet, Become(p, r)
    PROVE  /\ proc' \in [Procs -> ProcSet]
           /\ proc'[p] = r
           /\ \A q \in Procs : q # p => proc'[q] = proc[q]
  BY DEF TypeOK, Become

\* Whoever holds the lock is the one who writes.
WritesAlone(lk) == \A q \in Procs : proc'[q].st = "write" <=> lk = q

-----------------------------------------------------------------------------
(* A step of one process that leaves the host and the store alone: what it *)
(* may ask, carry, forget or let go of.                                    *)

LEMMA ProcessStep ==
    ASSUME IInv, NEW p \in Procs, NEW r \in ProcSet, Become(p, r),
           host' = host, current' = current, minted' = minted, disk' = disk, expired' = expired,
           harmed \subseteq harmed', harmed' \subseteq Sessions,
           lock' \in Procs \cup {Nobody}, WritesAlone(lock'),
           \A z \in zombies' : z \in zombies
               \/ (proc[p].st = "asked" /\ z = [s |-> proc[p].s, tok |-> proc[p].tok]),
           Shaped(r), r.tok <= minted,
           InHand(r) => InHand(proc[p]) /\ r.s = proc[p].s /\ r.tok = proc[p].tok,
           InHand(proc[p]) => InHand(r) \/ proc[p].s \in harmed',
           r.st = "asked" => r.tok = disk[r.s] /\ disk[r.s] # 0,
           r.edit = "forget" => r.s \in harmed' \/ host[r.s] = "ended",
           r.st = "write" => \A s \in Sessions : r.doc[s] = disk[s] \/ (r.doc[s] = 0 /\ s \in harmed)
    PROVE  IInv'
  <1>1. /\ proc' \in [Procs -> ProcSet]
        /\ proc'[p] = r
        /\ \A q \in Procs : q # p => proc'[q] = proc[q]
    BY BecomeRecord DEF IInv
  <1>2. \A z \in zombies' : z \in [s : Sessions, tok : Tokens]
    <2>1. SUFFICES ASSUME NEW z \in zombies', z \notin zombies
                   PROVE  z \in [s : Sessions, tok : Tokens]
      BY DEF IInv, TypeOK
    <2>2. proc[p].st = "asked" /\ z = [s |-> proc[p].s, tok |-> proc[p].tok]
      BY <2>1
    <2>3. proc[p].s \in Sessions /\ proc[p].tok \in Tokens
      BY <2>2, ProcFields DEF IInv, AllShaped, Shaped
    <2> QED
      BY <2>2, <2>3
  <1>3. TypeOK'
    BY <1>1, <1>2 DEF IInv, TypeOK, WritesAlone
  <1>4. AllShaped'
    BY <1>1 DEF IInv, AllShaped, Shaped
  <1>5. \A z \in zombies' : z \notin zombies =>
            proc[p].st = "asked" /\ z.s = proc[p].s /\ z.tok = proc[p].tok
    OBVIOUS
  <1>6. Bounded'
    BY <1>1, <1>5 DEF IInv, Bounded
  <1>7. HandIsCurrent'
    BY <1>1 DEF IInv, HandIsCurrent
  <1>8. OneHand'
    BY <1>1 DEF IInv, OneHand
  <1>9. \A q \in Procs : InHand(proc'[q]) =>
            InHand(proc[q]) /\ proc'[q].s = proc[q].s /\ proc'[q].tok = proc[q].tok
    BY <1>1
  <1>10. HandIsNewest'
    <2>1. SUFFICES ASSUME NEW q \in Procs, InHand(proc'[q])
                   PROVE  /\ disk[proc'[q].s] < proc'[q].tok
                          /\ \A t \in Procs : (proc'[t].st = "asked" /\ proc'[t].s = proc'[q].s)
                                                => proc'[t].tok < proc'[q].tok
                          /\ \A z \in zombies' : z.s = proc'[q].s => z.tok < proc'[q].tok
      BY DEF HandIsNewest, InHand
    <2>2. InHand(proc[q]) /\ proc'[q].s = proc[q].s /\ proc'[q].tok = proc[q].tok
      BY <1>9, <2>1
    <2>3. disk[proc[q].s] < proc[q].tok
      BY <2>2 DEF IInv, HandIsNewest
    <2>4. ASSUME NEW t \in Procs, proc'[t].st = "asked", proc'[t].s = proc[q].s
          PROVE  proc'[t].tok < proc[q].tok
      <3>1. CASE t = p
        BY <1>1, <2>3, <2>4, <3>1
      <3>2. CASE t # p
        BY <1>1, <2>2, <2>4, <3>2 DEF IInv, HandIsNewest
      <3> QED
        BY <3>1, <3>2
    <2>5. ASSUME NEW z \in zombies', z.s = proc[q].s
          PROVE  z.tok < proc[q].tok
      <3>1. CASE z \in zombies
        BY <2>2, <2>5, <3>1 DEF IInv, HandIsNewest
      <3>2. CASE z \notin zombies
        BY <1>5, <2>2, <2>5, <3>2 DEF IInv, HandIsNewest
      <3> QED
        BY <3>1, <3>2
    <2> QED
      BY <2>2, <2>3, <2>4, <2>5
  <1>11. Unopened'
    <2>1. SUFFICES ASSUME NEW s \in Sessions, host[s] = "none"
                   PROVE  /\ disk[s] = 0
                          /\ \A q \in Procs : (InHand(proc'[q]) \/ proc'[q].st = "asked") => proc'[q].s # s
                          /\ \A z \in zombies' : z.s # s
      BY DEF Unopened, InHand
    <2>2. /\ disk[s] = 0
          /\ \A q \in Procs : (InHand(proc[q]) \/ proc[q].st = "asked") => proc[q].s # s
          /\ \A z \in zombies : z.s # s
      BY <2>1 DEF IInv, Unopened
    <2> QED
      BY <1>1, <1>5, <1>9, <2>2
  <1>12. ForgetsExcused'
    BY <1>1 DEF IInv, ForgetsExcused
  <1>13. DocFresh'
    BY <1>1 DEF IInv, DocFresh
  <1>14. (expired \subseteq harmed)'
    BY DEF IInv
  <1>15. Custody'
    <2>1. SUFFICES ASSUME NEW s \in Sessions, host[s] = "live", s \notin harmed', disk[s] # current[s]
                   PROVE  \E q \in Procs : InHand(proc'[q]) /\ proc'[q].s = s /\ proc'[q].tok = current[s]
      BY DEF Custody, Carries, InHand
    <2>2. PICK q \in Procs : InHand(proc[q]) /\ proc[q].s = s /\ proc[q].tok = current[s]
      BY <2>1 DEF IInv, Custody, Carries
    <2> QED
      BY <1>1, <2>1, <2>2
  <1> QED
    BY <1>3, <1>4, <1>6, <1>7, <1>8, <1>10, <1>11, <1>12, <1>13, <1>14, <1>15 DEF IInv

\* What a step knows of the process that takes it.
LEMMA Stepping ==
    ASSUME IInv, NEW p \in Procs
    PROVE  /\ TypeOK /\ proc[p] \in ProcSet /\ Shaped(proc[p]) /\ 0 \in Tokens
           /\ proc[p].tok \in Tokens /\ proc[p].tok \in Nat /\ proc[p].tok <= minted
           /\ minted \in Nat /\ harmed \subseteq Sessions
           /\ lock \in Procs \cup {Nobody} /\ Nobody \notin Procs
           /\ \A q \in Procs : proc[q].st = "write" <=> lock = q
  <1>1. TypeOK /\ AllShaped /\ Bounded
    BY DEF IInv
  <1>2. 0 \in Tokens
    BY CustodyAssumption DEF Tokens
  <1>3. minted \in Nat /\ proc[p] \in ProcSet /\ proc[p].tok \in Tokens /\ proc[p].tok \in Nat
    BY <1>1, Typed, ProcFields
  <1> QED
    BY <1>1, <1>2, <1>3, CustodyAssumption DEF TypeOK, AllShaped, Bounded

\* The lock stays with its holder when the process neither wrote nor writes.
LEMMA LockKept ==
    ASSUME IInv, NEW p \in Procs, NEW r \in ProcSet, Become(p, r), lock' = lock,
           proc[p].st # "write", r.st # "write"
    PROVE  WritesAlone(lock')
  BY Stepping, BecomeRecord DEF IInv, WritesAlone

\* The lock is free when its holder has done with it.
LEMMA LockFreed ==
    ASSUME IInv, NEW p \in Procs, NEW r \in ProcSet, Become(p, r), r.st # "write",
           lock' = IF lock = p THEN Nobody ELSE lock
    PROVE  WritesAlone(lock')
  BY Stepping, BecomeRecord DEF IInv, WritesAlone

LEMMA TakeStep ==
    ASSUME IInv, NEW p \in Procs, NEW s \in Sessions, NEW same \in BOOLEAN, Take(p, s, same)
    PROVE  IInv'
  <1>1. /\ proc[p].st \in {"idle", "lost"} /\ disk[s] # 0
        /\ host' = host /\ current' = current /\ minted' = minted
        /\ disk' = disk /\ expired' = expired /\ lock' = lock /\ zombies' = zombies
    BY DEF Take, hostVars, storeVars
  <1>2. /\ disk[s] \in Tokens /\ disk[s] \in Nat /\ disk[s] <= minted
    BY Typed DEF IInv, Bounded
  <1>3. ~InHand(proc[p]) /\ proc[p].st # "write"
    BY <1>1, Stepping DEF InHand, Shaped
  <1>4. CASE same /\ s \notin expired
    <2>1. Become(p, At("asked", s, disk[s])) /\ harmed' = harmed
      BY <1>4 DEF Take
    <2> DEFINE r == At("asked", s, disk[s])
    <2>2. /\ r \in ProcSet /\ r.st = "asked" /\ r.s = s /\ r.tok = disk[s] /\ r.edit = "none"
          /\ Shaped(r) /\ ~InHand(r)
      BY <1>2, AskedRecord
    <2> HIDE DEF r
    <2>3. Become(p, r)
      BY <2>1 DEF r
    <2>4. WritesAlone(lock')
      BY <1>1, <1>3, <2>2, <2>3, LockKept
    <2>5. r.tok <= minted /\ harmed \subseteq harmed' /\ harmed' \subseteq Sessions
          /\ lock' \in Procs \cup {Nobody}
      BY <1>1, <1>2, <2>1, <2>2, Stepping
    <2> QED
      BY <1>1, <1>3, <2>2, <2>3, <2>4, <2>5, ProcessStep
  <1>5. CASE ~(same /\ s \notin expired)
    <2>1. Become(p, Edit("forget", s, 0)) /\ harmed' = harmed \cup {s}
      BY <1>5 DEF Take, Harm
    <2> DEFINE r == Edit("forget", s, 0)
    <2>2. /\ r \in ProcSet /\ r.st = "update" /\ r.s = s /\ r.tok = 0 /\ r.edit = "forget"
          /\ Shaped(r) /\ ~InHand(r)
      BY EditRecord, Stepping
    <2> HIDE DEF r
    <2>3. Become(p, r)
      BY <2>1 DEF r
    <2>4. WritesAlone(lock')
      BY <1>1, <1>3, <2>2, <2>3, LockKept
    <2>5. r.tok <= minted /\ harmed \subseteq harmed' /\ harmed' \subseteq Sessions
          /\ lock' \in Procs \cup {Nobody} /\ s \in harmed'
      BY <1>1, <2>1, <2>2, Stepping
    <2> QED
      BY <1>1, <1>3, <2>2, <2>3, <2>4, <2>5, ProcessStep
  <1> QED
    BY <1>4, <1>5

\* The process goes idle, taking a token with it only if that is a fault.
LEMMA GoesIdle ==
    ASSUME IInv, NEW p \in Procs, Become(p, Idle),
           host' = host, current' = current, minted' = minted, disk' = disk, expired' = expired,
           harmed \subseteq harmed', harmed' \subseteq Sessions,
           lock' = IF lock = p THEN Nobody ELSE lock,
           \A z \in zombies' : z \in zombies
               \/ (proc[p].st = "asked" /\ z = [s |-> proc[p].s, tok |-> proc[p].tok]),
           InHand(proc[p]) => proc[p].s \in harmed'
    PROVE  IInv'
  <1> DEFINE r == Idle
  <1>1. r \in ProcSet /\ r.st = "idle" /\ r.edit = "none" /\ r.tok = 0 /\ Shaped(r) /\ ~InHand(r)
    BY IdleRecord
  <1>2. Become(p, r)
    OBVIOUS
  <1> HIDE DEF r
  <1>3. WritesAlone(lock')
    BY <1>1, <1>2, LockFreed
  <1>4. lock' \in Procs \cup {Nobody}
    BY Stepping
  <1>5. minted \in Nat /\ 0 <= minted
    BY Stepping
  <1>6. r.tok = 0
    BY <1>1
  <1>7. r.tok <= minted
    BY <1>5, <1>6, Zenon
  <1> QED
    BY <1>1, <1>2, <1>3, <1>4, <1>7, ProcessStep

LEMMA TakeNothingStep ==
    ASSUME IInv, NEW p \in Procs, TakeNothing(p)
    PROVE  IInv'
  <1>1. /\ proc[p].st = "lost" /\ Become(p, Idle)
        /\ host' = host /\ current' = current /\ minted' = minted
        /\ disk' = disk /\ expired' = expired /\ lock' = lock /\ zombies' = zombies
        /\ harmed' = harmed
    BY DEF TakeNothing, hostVars, storeVars
  <1>2. ~InHand(proc[p]) /\ lock # p /\ harmed \subseteq Sessions
    BY <1>1, Stepping DEF InHand, Shaped
  <1>3. lock' = IF lock = p THEN Nobody ELSE lock
    BY <1>1, <1>2
  <1> QED
    BY <1>1, <1>2, <1>3, GoesIdle

LEMMA LinkFailsStep ==
    ASSUME IInv, NEW p \in Procs, LinkFails(p)
    PROVE  IInv'
  <1>1. /\ proc[p].st \in {"asked", "opened", "granted", "refused"} /\ Become(p, Idle)
        /\ host' = host /\ current' = current /\ minted' = minted
        /\ disk' = disk /\ expired' = expired /\ lock' = lock
        /\ zombies' = IF proc[p].st = "asked"
                      THEN zombies \cup {[s |-> proc[p].s, tok |-> proc[p].tok]} ELSE zombies
        /\ harmed' = IF proc[p].st \in {"opened", "granted"} THEN harmed \cup {proc[p].s} ELSE harmed
    BY DEF LinkFails, hostVars, storeVars, Harm
  <1>2. proc[p].s \in Sessions /\ lock # p /\ proc[p].edit = "none"
    BY <1>1, Stepping DEF Shaped
  <1>3. InHand(proc[p]) => proc[p].s \in harmed'
    BY <1>1, <1>2 DEF InHand
  <1>4. harmed \subseteq harmed' /\ harmed' \subseteq Sessions
    BY <1>1, <1>2, Stepping
  <1> QED
    BY <1>1, <1>2, <1>3, <1>4, GoesIdle

LEMMA CrashStep ==
    ASSUME IInv, NEW p \in Procs, Crash(p)
    PROVE  IInv'
  <1>1. /\ proc[p].st # "idle" /\ Become(p, Idle)
        /\ host' = host /\ current' = current /\ minted' = minted
        /\ disk' = disk /\ expired' = expired /\ lock' = IF lock = p THEN Nobody ELSE lock
        /\ zombies' = IF proc[p].st = "asked"
                      THEN zombies \cup {[s |-> proc[p].s, tok |-> proc[p].tok]} ELSE zombies
        /\ harmed' = IF InHand(proc[p]) THEN harmed \cup {proc[p].s} ELSE harmed
    BY DEF Crash, hostVars, Harm
  <1>2. proc[p].s \in Sessions
    BY <1>1, Stepping DEF Shaped
  <1>3. /\ InHand(proc[p]) => proc[p].s \in harmed'
        /\ harmed \subseteq harmed' /\ harmed' \subseteq Sessions
    BY <1>1, <1>2, Stepping
  <1> QED
    BY <1>1, <1>3, GoesIdle

\* The process sets out to rewrite the document.
LEMMA BeginsEdit ==
    ASSUME IInv, NEW p \in Procs,
           NEW edit \in {"put", "putOpened", "forget", "drop", "renew"},
           NEW s \in Sessions, NEW tok \in Tokens, Become(p, Edit(edit, s, tok)),
           host' = host, current' = current, minted' = minted, disk' = disk, expired' = expired,
           harmed \subseteq harmed', harmed' \subseteq Sessions, zombies' = zombies,
           lock' = IF lock = p THEN Nobody ELSE lock, tok <= minted,
           edit \in {"put", "putOpened"} => InHand(proc[p]) /\ s = proc[p].s /\ tok = proc[p].tok,
           InHand(proc[p]) => edit \in {"put", "putOpened"} \/ proc[p].s \in harmed',
           edit = "forget" => s \in harmed' \/ host[s] = "ended"
    PROVE  IInv'
  <1> DEFINE r == Edit(edit, s, tok)
  <1>1. /\ r \in ProcSet /\ r.st = "update" /\ r.s = s /\ r.tok = tok /\ r.edit = edit /\ Shaped(r)
        /\ InHand(r) <=> edit \in {"put", "putOpened"}
    BY EditRecord
  <1>2. Become(p, r)
    OBVIOUS
  <1> HIDE DEF r
  <1>3. WritesAlone(lock')
    BY <1>1, <1>2, LockFreed
  <1>4. lock' \in Procs \cup {Nobody}
    BY Stepping
  <1>5. r.tok <= minted
    BY <1>1, Zenon
  <1>6. r.st # "asked" /\ r.st # "write"
    BY <1>1
  <1>7. /\ InHand(r) => InHand(proc[p]) /\ r.s = proc[p].s /\ r.tok = proc[p].tok
        /\ InHand(proc[p]) => InHand(r) \/ proc[p].s \in harmed'
        /\ r.edit = "forget" => r.s \in harmed' \/ host[r.s] = "ended"
    BY <1>1, Zenon
  <1> QED
    BY <1>1, <1>2, <1>3, <1>4, <1>5, <1>6, <1>7, ProcessStep

\* The process comes to rest, with nothing in hand.
LEMMA ComesToRest ==
    ASSUME IInv, NEW p \in Procs, NEW st \in {"refused", "attached", "lost"},
           NEW s \in Sessions, NEW tok \in Tokens, Become(p, At(st, s, tok)),
           host' = host, current' = current, minted' = minted, disk' = disk, expired' = expired,
           harmed' = harmed, zombies' = zombies,
           lock' = IF lock = p THEN Nobody ELSE lock, tok <= minted,
           ~InHand(proc[p])
    PROVE  IInv'
  <1> DEFINE r == At(st, s, tok)
  <1>7. r \in ProcSet /\ r.st = st /\ r.s = s /\ r.tok = tok /\ r.edit = "none" /\ Shaped(r)
    BY RestRecord
  <1>8. ~InHand(r)
    BY <1>7 DEF InHand
  <1>1. r \in ProcSet /\ r.st = st /\ r.s = s /\ r.tok = tok /\ r.edit = "none" /\ Shaped(r) /\ ~InHand(r)
    BY <1>7, <1>8
  <1>2. Become(p, r)
    OBVIOUS
  <1> HIDE DEF r
  <1>3. r.st # "asked" /\ r.st # "write"
    BY <1>1
  <1>4. WritesAlone(lock')
    BY <1>1, <1>2, <1>3, LockFreed
  <1>5. lock' \in Procs \cup {Nobody} /\ harmed \subseteq Sessions
    BY Stepping
  <1>6. r.tok <= minted
    BY <1>1, Zenon
  <1> QED
    BY <1>1, <1>2, <1>3, <1>4, <1>5, <1>6, ProcessStep

LEMMA ReadAnswerStep ==
    ASSUME IInv, NEW p \in Procs, ReadAnswer(p)
    PROVE  IInv'
  <1>1. /\ host' = host /\ current' = current /\ minted' = minted
        /\ disk' = disk /\ expired' = expired /\ lock' = lock /\ zombies' = zombies
        /\ harmed' = harmed
    BY DEF ReadAnswer, hostVars, storeVars
  <1>2. proc[p].st \in {"opened", "granted", "refused"}
    BY DEF ReadAnswer
  <1>9. proc[p].s \in Sessions
    BY <1>2, Stepping DEF Shaped
  <1>3. /\ proc[p].s \in Sessions /\ proc[p].tok \in Tokens /\ 0 \in Tokens /\ proc[p].tok <= minted
        /\ harmed \subseteq Sessions /\ minted \in Nat /\ 0 <= minted
    BY <1>9, Stepping
  <1>8. proc[p].edit = "none"
    BY <1>2, Stepping DEF Shaped
  <1>4. lock' = IF lock = p THEN Nobody ELSE lock
    BY <1>1, <1>2, Stepping
  <1>5. CASE proc[p].st = "opened"
    <2>1. Become(p, Edit("putOpened", proc[p].s, proc[p].tok)) /\ InHand(proc[p])
      BY <1>5 DEF ReadAnswer, InHand
    <2> QED
      BY <1>1, <1>3, <1>4, <2>1, BeginsEdit
  <1>6. CASE proc[p].st = "granted"
    <2>1. Become(p, Edit("put", proc[p].s, proc[p].tok)) /\ InHand(proc[p])
      BY <1>6 DEF ReadAnswer, InHand
    <2> QED
      BY <1>1, <1>3, <1>4, <2>1, BeginsEdit
  <1>7. CASE proc[p].st = "refused"
    <2>1. Become(p, Edit("drop", proc[p].s, 0)) /\ ~InHand(proc[p])
      BY <1>7, <1>8 DEF ReadAnswer, InHand
    <2> QED
      BY <1>1, <1>3, <1>4, <2>1, BeginsEdit
  <1> QED
    BY <1>2, <1>5, <1>6, <1>7

\* What the steps of an attached process have in common.
LEMMA AttachedFacts ==
    ASSUME IInv, NEW p \in Procs, proc[p].st = "attached"
    PROVE  /\ proc[p].s \in Sessions /\ ~InHand(proc[p]) /\ lock # p /\ 0 \in Tokens
           /\ harmed \subseteq Sessions /\ minted \in Nat /\ 0 <= minted
  <1>1. proc[p].s \in Sessions /\ ~InHand(proc[p])
    BY Stepping DEF Shaped, InHand
  <1> QED
    BY <1>1, Stepping

LEMMA LegEndsStep ==
    ASSUME IInv, NEW p \in Procs, NEW detach \in BOOLEAN, LegEnds(p, detach)
    PROVE  IInv'
  <1>1. /\ proc[p].st = "attached"
        /\ host' = host /\ current' = current /\ minted' = minted
        /\ disk' = disk /\ expired' = expired /\ lock' = lock /\ zombies' = zombies
        /\ harmed' = harmed
    BY DEF LegEnds, hostVars, storeVars
  <1>2. /\ proc[p].s \in Sessions /\ ~InHand(proc[p]) /\ lock # p /\ 0 \in Tokens
        /\ harmed \subseteq Sessions /\ minted \in Nat /\ 0 <= minted
    BY <1>1, AttachedFacts
  <1>3. lock' = IF lock = p THEN Nobody ELSE lock
    BY <1>1, <1>2
  <1>4. CASE detach
    <2>1. Become(p, Idle)
      BY <1>4 DEF LegEnds
    <2> QED
      BY <1>1, <1>2, <1>3, <2>1, GoesIdle
  <1>5. CASE ~detach
    <2>1. Become(p, At("lost", proc[p].s, 0))
      BY <1>5 DEF LegEnds
    <2> QED
      BY <1>1, <1>2, <1>3, <2>1, ComesToRest
  <1> QED
    BY <1>4, <1>5

LEMMA SeeClosedStep ==
    ASSUME IInv, NEW p \in Procs, SeeClosed(p)
    PROVE  IInv'
  <1>1. /\ proc[p].st = "attached" /\ host[proc[p].s] = "ended"
        /\ Become(p, Edit("forget", proc[p].s, 0))
        /\ host' = host /\ current' = current /\ minted' = minted
        /\ disk' = disk /\ expired' = expired /\ lock' = lock /\ zombies' = zombies
        /\ harmed' = harmed
    BY DEF SeeClosed, hostVars, storeVars
  <1>2. /\ proc[p].s \in Sessions /\ ~InHand(proc[p]) /\ lock # p /\ 0 \in Tokens
        /\ harmed \subseteq Sessions /\ minted \in Nat /\ 0 <= minted
    BY <1>1, AttachedFacts
  <1>3. lock' = IF lock = p THEN Nobody ELSE lock
    BY <1>1, <1>2
  <1> QED
    BY <1>1, <1>2, <1>3, BeginsEdit

LEMMA RenewStep ==
    ASSUME IInv, NEW p \in Procs, Renew(p)
    PROVE  IInv'
  <1>1. /\ proc[p].st = "attached"
        /\ Become(p, Edit("renew", proc[p].s, 0))
        /\ host' = host /\ current' = current /\ minted' = minted
        /\ disk' = disk /\ expired' = expired /\ lock' = lock /\ zombies' = zombies
        /\ harmed' = harmed
    BY DEF Renew, hostVars, storeVars
  <1>2. /\ proc[p].s \in Sessions /\ ~InHand(proc[p]) /\ lock # p /\ 0 \in Tokens
        /\ harmed \subseteq Sessions /\ minted \in Nat /\ 0 <= minted
    BY <1>1, AttachedFacts
  <1>3. lock' = IF lock = p THEN Nobody ELSE lock
    BY <1>1, <1>2
  <1> QED
    BY <1>1, <1>2, <1>3, BeginsEdit

LEMMA ReadDocumentStep ==
    ASSUME IInv, NEW p \in Procs, ReadDocument(p)
    PROVE  IInv'
  <1> DEFINE d == [s \in Sessions |-> IF s \in expired THEN 0 ELSE disk[s]]
             r == [proc[p] EXCEPT !.st = "write", !.doc = d]
  <1>1. /\ proc[p].st = "update" /\ lock = Nobody /\ lock' = p /\ Become(p, r)
        /\ host' = host /\ current' = current /\ minted' = minted
        /\ disk' = disk /\ expired' = expired /\ zombies' = zombies /\ harmed' = harmed
    BY DEF ReadDocument, hostVars
  <1>2. d \in [Sessions -> Tokens]
    BY Typed, Stepping DEF IInv
  <1>3. \A s \in Sessions : d[s] = disk[s] \/ (d[s] = 0 /\ s \in harmed)
    BY DEF IInv
  <1> HIDE DEF d
  <1>4. /\ r \in ProcSet /\ r.st = "write" /\ r.doc = d /\ r.s = proc[p].s
        /\ r.tok = proc[p].tok /\ r.edit = proc[p].edit
    BY <1>2, Stepping DEF ProcSet
  <1> HIDE DEF r
  <1>5. proc[p].s \in Sessions /\ proc[p].edit # "none"
    BY <1>1, Stepping DEF Shaped
  <1>6. Shaped(r) /\ (InHand(r) <=> InHand(proc[p]))
    BY <1>1, <1>2, <1>4, <1>5 DEF Shaped, InHand
  <1>7. WritesAlone(lock')
    BY <1>1, <1>4, Stepping, BecomeRecord DEF IInv, WritesAlone
  <1>8. r.edit = "forget" => r.s \in harmed' \/ host[r.s] = "ended"
    BY <1>1, <1>4 DEF IInv, ForgetsExcused
  <1>9. r.tok <= minted /\ harmed \subseteq Sessions
    BY <1>4, Stepping
  <1> QED
    BY <1>1, <1>3, <1>4, <1>6, <1>7, <1>8, <1>9, ProcessStep

LEMMA WriteFailsStep ==
    ASSUME IInv, NEW p \in Procs, WriteFails(p)
    PROVE  IInv'
  <1>1. /\ proc[p].st = "write" /\ lock' = Nobody
        /\ Become(p, IF proc[p].edit = "put" THEN Edit("forget", proc[p].s, 0) ELSE After(proc[p]))
        /\ host' = host /\ current' = current /\ minted' = minted
        /\ disk' = disk /\ expired' = expired /\ zombies' = zombies
        /\ harmed' = IF proc[p].edit \in {"put", "putOpened"} THEN harmed \cup {proc[p].s} ELSE harmed
    BY DEF WriteFails, hostVars, Harm
  <1>2. proc[p].s \in Sessions /\ 0 \in Tokens /\ minted \in Nat /\ 0 <= minted
    BY <1>1, Stepping DEF Shaped
  <1>3. harmed \subseteq harmed' /\ harmed' \subseteq Sessions
    BY <1>1, <1>2, Stepping
  <1>4. lock' = IF lock = p THEN Nobody ELSE lock
    BY <1>1, Stepping
  <1>5. InHand(proc[p]) <=> proc[p].edit \in {"put", "putOpened"}
    BY <1>1 DEF InHand
  <1>6. CASE proc[p].edit = "put"
    <2>1. Become(p, Edit("forget", proc[p].s, 0)) /\ proc[p].s \in harmed'
      BY <1>1, <1>6
    <2> QED
      BY <1>1, <1>2, <1>3, <1>4, <2>1, BeginsEdit
  <1>7. CASE proc[p].edit = "renew"
    <2>1. Become(p, At("attached", proc[p].s, 0)) /\ ~InHand(proc[p]) /\ harmed' = harmed
      BY <1>1, <1>5, <1>7 DEF After
    <2> QED
      BY <1>1, <1>2, <1>4, <2>1, ComesToRest
  <1>8. CASE proc[p].edit \notin {"put", "renew"}
    <2>1. Become(p, Idle) /\ (InHand(proc[p]) => proc[p].s \in harmed')
      BY <1>1, <1>5, <1>8 DEF After
    <2> QED
      BY <1>1, <1>3, <1>4, <2>1, GoesIdle
  <1> QED
    BY <1>6, <1>7, <1>8

LEMMA ExpireStep ==
    ASSUME IInv, NEW s \in Sessions, Expire(s)
    PROVE  IInv'
  <1>1. /\ disk[s] # 0 /\ expired' = expired \cup {s} /\ harmed' = harmed \cup {s}
        /\ host' = host /\ current' = current /\ minted' = minted
        /\ disk' = disk /\ lock' = lock /\ proc' = proc /\ zombies' = zombies
    BY DEF Expire, hostVars, Harm
  <1>2. TypeOK'
    BY <1>1 DEF IInv, TypeOK
  <1>3. AllShaped' /\ Bounded' /\ HandIsCurrent' /\ OneHand' /\ HandIsNewest' /\ Unopened'
    BY <1>1
    DEF IInv, AllShaped, Shaped, Bounded, HandIsCurrent, OneHand, HandIsNewest, Unopened, InHand
  <1>4. ForgetsExcused' /\ DocFresh' /\ (expired \subseteq harmed)'
    BY <1>1 DEF IInv, ForgetsExcused, DocFresh
  <1>5. Custody'
    BY <1>1 DEF IInv, Custody, Carries, InHand
  <1> QED
    BY <1>2, <1>3, <1>4, <1>5 DEF IInv

\* The session ends, whoever ends it: a process may begin to forget its entry.
LEMMA SessionOver ==
    ASSUME IInv, NEW s \in Sessions, host[s] = "live",
           host' = [host EXCEPT ![s] = "ended"], current' = [current EXCEPT ![s] = 0],
           minted' = minted, disk' = disk, expired' = expired, lock' = lock,
           zombies' = zombies, harmed' = harmed,
           proc' \in [Procs -> ProcSet],
           \A q \in Procs : proc'[q] = proc[q]
               \/ /\ Shaped(proc'[q]) /\ ~InHand(proc'[q]) /\ ~InHand(proc[q])
                  /\ proc'[q].st = "update" /\ proc'[q].s = s /\ proc'[q].tok = 0
                  /\ proc[q].st # "write"
    PROVE  IInv'
  <1>1. /\ host \in [Sessions -> {"none", "live", "ended"}] /\ current \in [Sessions -> Tokens]
        /\ 0 \in Tokens /\ minted \in Nat
    BY Typed, CustodyAssumption DEF IInv, TypeOK, Tokens
  <1>2. /\ host' \in [Sessions -> {"none", "live", "ended"}] /\ current' \in [Sessions -> Tokens]
        /\ \A t \in Sessions : /\ host'[t] = IF t = s THEN "ended" ELSE host[t]
                               /\ current'[t] = IF t = s THEN 0 ELSE current[t]
    BY <1>1
  <1>3. \A q \in Procs : (InHand(proc[q]) \/ InHand(proc'[q]) \/ proc'[q].st \in {"asked", "write"}
                            \/ proc[q].st = "write") => proc'[q] = proc[q]
    OBVIOUS
  <1>4. TypeOK'
    BY <1>2, <1>3 DEF IInv, TypeOK
  <1>5. AllShaped'
    <2>1. \A q \in Procs : Shaped(proc'[q])
      BY DEF IInv, AllShaped
    <2> QED
      BY <2>1 DEF AllShaped, Shaped
  <1>6. Bounded'
    <2>1. \A q \in Procs : proc'[q].tok <= minted
      BY <1>1 DEF IInv, Bounded
    <2> QED
      BY <1>1, <1>2, <2>1 DEF IInv, Bounded
  <1>7. OneHand' /\ HandIsNewest' /\ DocFresh' /\ (expired \subseteq harmed)'
    <2>1. OneHand'
      BY <1>3 DEF IInv, OneHand
    <2>2. HandIsNewest'
      BY <1>3 DEF IInv, HandIsNewest
    <2>3. DocFresh'
      BY <1>3 DEF IInv, DocFresh
    <2> QED
      BY <2>1, <2>2, <2>3 DEF IInv
  <1>8. \A p \in Procs : (InHand(proc[p]) \/ proc[p].edit = "forget") => proc[p].s \in Sessions
    BY DEF IInv, AllShaped, Shaped, InHand
  <1>9. HandIsCurrent'
    <2>1. SUFFICES ASSUME NEW p \in Procs, InHand(proc'[p]), host'[proc'[p].s] = "live"
                   PROVE  proc'[p].tok = current'[proc'[p].s]
      BY DEF HandIsCurrent, InHand
    <2>2. proc'[p] = proc[p]
      BY <1>3, <2>1
    <2> QED
      BY <1>2, <1>8, <2>1, <2>2 DEF IInv, HandIsCurrent
  <1>10. Unopened'
    <2>1. SUFFICES ASSUME NEW t \in Sessions, host[t] = "none"
                   PROVE  /\ disk[t] = 0
                          /\ \A p \in Procs : (InHand(proc'[p]) \/ proc'[p].st = "asked") => proc'[p].s # t
                          /\ \A z \in zombies : z.s # t
      BY <1>2 DEF Unopened, InHand
    <2> QED
      BY <1>3, <2>1 DEF IInv, Unopened
  <1>11. ForgetsExcused'
    <2>1. SUFFICES ASSUME NEW p \in Procs, proc'[p].edit = "forget", proc'[p].s \notin harmed
                   PROVE  host'[proc'[p].s] = "ended"
      BY DEF ForgetsExcused
    <2>2. CASE proc'[p] = proc[p]
      BY <1>2, <1>8, <2>1, <2>2 DEF IInv, ForgetsExcused
    <2>3. CASE proc'[p] # proc[p]
      BY <1>2, <2>3
    <2> QED
      BY <2>2, <2>3
  <1>12. Custody'
    <2>1. SUFFICES ASSUME NEW t \in Sessions, host'[t] = "live", t \notin harmed, disk[t] # current'[t]
                   PROVE  \E p \in Procs : InHand(proc'[p]) /\ proc'[p].s = t /\ proc'[p].tok = current'[t]
      BY DEF Custody, Carries, InHand
    <2>2. t # s /\ host[t] = "live" /\ current'[t] = current[t]
      BY <1>2, <2>1
    <2>3. PICK p \in Procs : InHand(proc[p]) /\ proc[p].s = t /\ proc[p].tok = current[t]
      BY <2>1, <2>2 DEF IInv, Custody, Carries
    <2> QED
      BY <1>3, <2>2, <2>3
  <1> QED
    BY <1>4, <1>5, <1>6, <1>7, <1>9, <1>10, <1>11, <1>12 DEF IInv

LEMMA EndSessionStep ==
    ASSUME IInv, NEW s \in Sessions, EndSession(s)
    PROVE  IInv'
  <1>1. proc \in [Procs -> ProcSet]
    BY DEF IInv, TypeOK
  <1>2. /\ host[s] = "live"
        /\ host' = [host EXCEPT ![s] = "ended"] /\ current' = [current EXCEPT ![s] = 0]
        /\ minted' = minted /\ disk' = disk /\ expired' = expired /\ lock' = lock
        /\ zombies' = zombies /\ harmed' = harmed /\ proc' = proc
    BY DEF EndSession, storeVars
  <1> QED
    BY <1>1, <1>2, SessionOver

LEMMA CloseStep ==
    ASSUME IInv, NEW p \in Procs, NEW s \in Sessions, Close(p, s)
    PROVE  IInv'
  <1> DEFINE r == Edit("forget", s, 0)
  <1>1. /\ proc[p].st = "idle" /\ host[s] = "live" /\ Become(p, r)
        /\ host' = [host EXCEPT ![s] = "ended"] /\ current' = [current EXCEPT ![s] = 0]
        /\ minted' = minted /\ disk' = disk /\ expired' = expired /\ lock' = lock
        /\ zombies' = zombies /\ harmed' = harmed
    BY DEF Close, storeVars
  <1>2. /\ r \in ProcSet /\ r.st = "update" /\ r.s = s /\ r.tok = 0 /\ Shaped(r) /\ ~InHand(r)
    BY EditRecord, Stepping
  <1> HIDE DEF r
  <1>3. ~InHand(proc[p]) /\ proc[p].st # "write"
    BY <1>1, Stepping DEF Shaped, InHand
  <1>4. /\ proc' \in [Procs -> ProcSet]
        /\ proc'[p] = r
        /\ \A q \in Procs : q # p => proc'[q] = proc[q]
    BY <1>1, <1>2, BecomeRecord DEF IInv
  <1>5. \A q \in Procs : proc'[q] = proc[q]
               \/ /\ Shaped(proc'[q]) /\ ~InHand(proc'[q]) /\ ~InHand(proc[q])
                  /\ proc'[q].st = "update" /\ proc'[q].s = s /\ proc'[q].tok = 0
                  /\ proc[q].st # "write"
    BY <1>2, <1>3, <1>4
  <1> QED
    BY <1>1, <1>4, <1>5, SessionOver

\* The token the host mints is newer than any there is.
LEMMA Mints ==
    ASSUME IInv, NEW s \in Sessions, Mint(s)
    PROVE  /\ minted' = minted + 1 /\ minted' \in Tokens /\ minted \in Nat
           /\ current' \in [Sessions -> Tokens]
           /\ \A t \in Sessions : current'[t] = IF t = s THEN minted + 1 ELSE current[t]
           /\ \A t \in Sessions : current'[t] <= minted'
  <1>1. /\ minted \in Nat /\ minted < MaxToken /\ minted' = minted + 1 /\ MaxToken \in Nat
        /\ current \in [Sessions -> Tokens] /\ current' = [current EXCEPT ![s] = minted + 1]
    BY Typed, CustodyAssumption DEF IInv, Mint
  <1>2. minted' \in Tokens
    BY <1>1 DEF Tokens
  <1>3. /\ current' \in [Sessions -> Tokens]
        /\ \A t \in Sessions : current'[t] = IF t = s THEN minted + 1 ELSE current[t]
    BY <1>1, <1>2
  <1>4. \A t \in Sessions : current[t] \in Nat /\ current[t] <= minted
    BY Typed DEF IInv, Bounded
  <1> QED
    BY <1>1, <1>2, <1>3, <1>4

\* An answer with a fresh token, to one process; nobody else has one in hand.
LEMMA GivesToken ==
    ASSUME IInv, NEW p \in Procs, NEW s \in Sessions, NEW st \in {"opened", "granted"},
           Mint(s), Become(p, At(st, s, minted + 1)), host' = [host EXCEPT ![s] = "live"],
           disk' = disk, expired' = expired, lock' = lock, zombies' = zombies, harmed' = harmed,
           proc[p].st \in {"idle", "asked"}, host[s] # "ended",
           \A q \in Procs : InHand(proc[q]) => proc[q].s # s
    PROVE  IInv'
  <1> DEFINE m == minted + 1
             r == At(st, s, m)
  <1>1. /\ minted' = m /\ m \in Tokens /\ minted \in Nat /\ m \in Nat
        /\ current' \in [Sessions -> Tokens]
        /\ \A t \in Sessions : current'[t] = IF t = s THEN m ELSE current[t]
        /\ \A t \in Sessions : current'[t] <= minted'
    BY Mints
  <1>2. /\ r \in ProcSet /\ r.st = st /\ r.s = s /\ r.tok = m /\ r.edit = "none" /\ Shaped(r)
        /\ InHand(r)
    BY <1>1, AtRecord
  <1>3. Become(p, r)
    OBVIOUS
  <1> HIDE DEF r
  <1>4. /\ proc' \in [Procs -> ProcSet] /\ proc'[p] = r
        /\ \A q \in Procs : q # p => proc'[q] = proc[q]
    BY <1>2, <1>3, BecomeRecord DEF IInv
  <1>5. ~InHand(proc[p]) /\ proc[p].st # "write" /\ r.st # "write" /\ r.st # "asked"
    BY <1>2, Stepping DEF Shaped, InHand
  <1>6. /\ \A q \in Procs : proc[q].tok \in Nat /\ proc[q].tok <= minted
        /\ \A z \in zombies : z.tok \in Nat /\ z.tok <= minted
        /\ \A t \in Sessions : disk[t] \in Nat /\ disk[t] <= minted
    BY Typed, ProcFields DEF IInv, Bounded
  <1>7. /\ host \in [Sessions -> {"none", "live", "ended"}]
        /\ host' \in [Sessions -> {"none", "live", "ended"}]
        /\ \A t \in Sessions : host'[t] = IF t = s THEN "live" ELSE host[t]
    BY DEF IInv, TypeOK
  <1>8. TypeOK'
    BY <1>1, <1>4, <1>5, <1>7 DEF IInv, TypeOK
  <1>9. AllShaped'
    BY <1>2, <1>4 DEF IInv, AllShaped, Shaped
  <1>10. Bounded'
    <2>1. \A q \in Procs : proc'[q].tok <= m
      BY <1>1, <1>2, <1>4, <1>6
    <2> QED
      BY <1>1, <1>6, <2>1 DEF Bounded
  <1>11. HandIsCurrent'
    <2>1. SUFFICES ASSUME NEW q \in Procs, InHand(proc'[q]), host'[proc'[q].s] = "live"
                   PROVE  proc'[q].tok = current'[proc'[q].s]
      BY DEF HandIsCurrent, InHand
    <2>2. CASE q = p
      BY <1>1, <1>2, <1>4, <2>2
    <2>3. CASE q # p
      <3>1. proc'[q] = proc[q] /\ proc[q].s # s
        BY <1>4, <2>1, <2>3
      <3>2. proc[q].s \in Sessions
        BY <2>1, <3>1 DEF IInv, AllShaped, Shaped, InHand
      <3> QED
        BY <1>1, <1>7, <2>1, <3>1, <3>2 DEF IInv, HandIsCurrent
    <2> QED
      BY <2>2, <2>3
  <1>12. OneHand'
    BY <1>2, <1>4 DEF IInv, OneHand
  <1>13. HandIsNewest'
    <2>1. SUFFICES ASSUME NEW q \in Procs, InHand(proc'[q])
                   PROVE  /\ disk[proc'[q].s] < proc'[q].tok
                          /\ \A t \in Procs : (proc'[t].st = "asked" /\ proc'[t].s = proc'[q].s)
                                                => proc'[t].tok < proc'[q].tok
                          /\ \A z \in zombies : z.s = proc'[q].s => z.tok < proc'[q].tok
      BY DEF HandIsNewest, InHand
    <2>2. CASE q = p
      <3>1. proc'[q].s = s /\ proc'[q].tok = m
        BY <1>2, <1>4, <2>2
      <3>2. \A t \in Procs : proc'[t].st = "asked" => proc'[t].tok <= minted /\ proc'[t].tok \in Nat
        BY <1>4, <1>5, <1>6
      <3> QED
        BY <1>1, <1>6, <3>1, <3>2
    <2>3. CASE q # p
      <3>1. proc'[q] = proc[q] /\ InHand(proc[q])
        BY <1>4, <2>1, <2>3
      <3>2. \A t \in Procs : proc'[t].st = "asked" => proc'[t] = proc[t]
        BY <1>4, <1>5
      <3> QED
        BY <3>1, <3>2 DEF IInv, HandIsNewest
    <2> QED
      BY <2>2, <2>3
  <1>14. Unopened'
    <2>1. SUFFICES ASSUME NEW t \in Sessions, host'[t] = "none"
                   PROVE  /\ disk[t] = 0
                          /\ \A q \in Procs : (InHand(proc'[q]) \/ proc'[q].st = "asked") => proc'[q].s # t
                          /\ \A z \in zombies : z.s # t
      BY DEF Unopened, InHand
    <2>2. t # s /\ host[t] = "none"
      BY <1>7, <2>1
    <2> QED
      BY <1>2, <1>4, <2>2 DEF IInv, Unopened
  <1>15. ForgetsExcused'
    <2>1. SUFFICES ASSUME NEW q \in Procs, proc'[q].edit = "forget", proc'[q].s \notin harmed
                   PROVE  host'[proc'[q].s] = "ended"
      BY DEF ForgetsExcused
    <2>2. proc'[q] = proc[q]
      BY <1>2, <1>4, <2>1
    <2>3. proc[q].s \in Sessions /\ host[proc[q].s] = "ended"
      BY <2>1, <2>2 DEF IInv, ForgetsExcused, AllShaped, Shaped
    <2> QED
      BY <1>7, <2>2, <2>3
  <1>16. DocFresh' /\ (expired \subseteq harmed)'
    BY <1>4, <1>5 DEF IInv, DocFresh
  <1>17. Custody'
    <2>1. SUFFICES ASSUME NEW t \in Sessions, host'[t] = "live", t \notin harmed, disk[t] # current'[t]
                   PROVE  \E q \in Procs : InHand(proc'[q]) /\ proc'[q].s = t /\ proc'[q].tok = current'[t]
      BY DEF Custody, Carries, InHand
    <2>2. CASE t = s
      BY <1>1, <1>2, <1>4, <2>2
    <2>3. CASE t # s
      <3>1. host[t] = "live" /\ current'[t] = current[t]
        BY <1>1, <1>7, <2>1, <2>3
      <3>2. PICK q \in Procs : InHand(proc[q]) /\ proc[q].s = t /\ proc[q].tok = current[t]
        BY <2>1, <3>1 DEF IInv, Custody, Carries
      <3> QED
        BY <1>4, <1>5, <3>1, <3>2
    <2> QED
      BY <2>2, <2>3
  <1> QED
    BY <1>8, <1>9, <1>10, <1>11, <1>12, <1>13, <1>14, <1>15, <1>16, <1>17 DEF IInv

LEMMA OpenStep ==
    ASSUME IInv, NEW p \in Procs, NEW s \in Sessions, Open(p, s)
    PROVE  IInv'
  <1>1. /\ proc[p].st = "idle" /\ host[s] = "none" /\ host' = [host EXCEPT ![s] = "live"]
        /\ Mint(s) /\ Become(p, At("opened", s, minted + 1))
        /\ disk' = disk /\ expired' = expired /\ lock' = lock /\ zombies' = zombies
        /\ harmed' = harmed
    BY DEF Open, storeVars
  <1>2. \A q \in Procs : InHand(proc[q]) => proc[q].s # s
    BY <1>1 DEF IInv, Unopened
  <1> QED
    BY <1>1, <1>2, GivesToken

LEMMA RedeemStep ==
    ASSUME IInv, NEW p \in Procs, Redeem(p)
    PROVE  IInv'
  <1> DEFINE s == proc[p].s
             tok == proc[p].tok
  <1>1. /\ proc[p].st = "asked" /\ host' = host
        /\ disk' = disk /\ expired' = expired /\ lock' = lock /\ zombies' = zombies
        /\ harmed' = harmed
    BY DEF Redeem, storeVars
  <1>2. s \in Sessions /\ tok \in Tokens /\ tok <= minted
    BY <1>1, Stepping DEF Shaped
  <1>3. CASE Accepts(s, tok)
    <2>1. Mint(s) /\ Become(p, At("granted", s, minted + 1)) /\ host[s] = "live" /\ current[s] = tok
      BY <1>3 DEF Redeem, Accepts
    <2>2. host' = [host EXCEPT ![s] = "live"]
      BY <1>1, <1>2, <2>1 DEF IInv, TypeOK
    <2>3. \A q \in Procs : InHand(proc[q]) => proc[q].s # s
      <3>1. SUFFICES ASSUME NEW q \in Procs, InHand(proc[q]), proc[q].s = s
                     PROVE  FALSE
        OBVIOUS
      <3>2. proc[q].tok = tok
        BY <2>1, <3>1 DEF IInv, HandIsCurrent
      <3>3. tok < proc[q].tok
        BY <1>1, <3>1 DEF IInv, HandIsNewest
      <3>4. tok \in Nat
        BY Stepping
      <3> QED
        BY <3>2, <3>3, <3>4
    <2> QED
      BY <1>1, <1>2, <2>1, <2>2, <2>3, GivesToken
  <1>4. CASE ~Accepts(s, tok)
    <2>1. Become(p, At("refused", s, tok)) /\ current' = current /\ minted' = minted
      BY <1>4 DEF Redeem
    <2>2. ~InHand(proc[p]) /\ lock # p
      BY <1>1, Stepping DEF Shaped, InHand
    <2>3. lock' = IF lock = p THEN Nobody ELSE lock
      BY <1>1, <2>2
    <2> QED
      BY <1>1, <1>2, <2>1, <2>2, <2>3, ComesToRest
  <1> QED
    BY <1>3, <1>4

LEMMA RedeemZombieStep ==
    ASSUME IInv, NEW z \in zombies, RedeemZombie(z)
    PROVE  IInv'
  <1>1. /\ zombies' = zombies \ {z} /\ host' = host /\ proc' = proc
        /\ disk' = disk /\ expired' = expired /\ lock' = lock
    BY DEF RedeemZombie, storeVars
  <1>2. z.s \in Sessions /\ z.tok \in Nat
    BY Typed DEF IInv
  <1>3. CASE current' = current /\ minted' = minted /\ harmed' = harmed
    <2>1. TypeOK' /\ Custody'
      BY <1>1, <1>3 DEF IInv, TypeOK, Custody, Carries, InHand
    <2> QED
      BY <1>1, <1>3, <2>1
      DEF IInv, AllShaped, Shaped, Bounded, HandIsCurrent, OneHand, HandIsNewest, Unopened,
          ForgetsExcused, DocFresh, InHand
  <1>4. CASE Accepts(z.s, z.tok) /\ Mint(z.s) /\ harmed' = harmed \cup {z.s}
    <2> DEFINE s == z.s
    <2>1. /\ minted' = minted + 1 /\ minted' \in Tokens /\ minted \in Nat
          /\ current' \in [Sessions -> Tokens]
          /\ \A t \in Sessions : current'[t] = IF t = s THEN minted + 1 ELSE current[t]
          /\ \A t \in Sessions : current'[t] <= minted'
      BY <1>2, <1>4, Mints
    <2>2. host[s] = "live" /\ current[s] = z.tok
      BY <1>4 DEF Accepts
    <2>3. \A q \in Procs : InHand(proc[q]) => proc[q].s # s
      <3>1. SUFFICES ASSUME NEW q \in Procs, InHand(proc[q]), proc[q].s = s
                     PROVE  FALSE
        OBVIOUS
      <3>2. proc[q].tok = z.tok
        BY <2>2, <3>1 DEF IInv, HandIsCurrent
      <3>3. z.tok < proc[q].tok
        BY <3>1 DEF IInv, HandIsNewest
      <3> QED
        BY <1>2, <3>2, <3>3
    <2>4. TypeOK'
      BY <1>1, <1>2, <1>4, <2>1 DEF IInv, TypeOK
    <2>5. AllShaped' /\ OneHand' /\ HandIsNewest' /\ Unopened'
      BY <1>1 DEF IInv, AllShaped, Shaped, OneHand, HandIsNewest, Unopened, InHand
    <2>6. Bounded'
      <3>1. /\ \A q \in Procs : proc[q].tok \in Nat /\ proc[q].tok <= minted
            /\ \A y \in zombies : y.tok \in Nat /\ y.tok <= minted
            /\ \A t \in Sessions : disk[t] \in Nat /\ disk[t] <= minted
        BY Typed, ProcFields DEF IInv, Bounded
      <3> QED
        BY <1>1, <2>1, <3>1 DEF Bounded
    <2>7. HandIsCurrent'
      <3>1. \A q \in Procs : InHand(proc[q]) => proc[q].s \in Sessions
        BY DEF IInv, AllShaped, Shaped, InHand
      <3>2. \A q \in Procs : (InHand(proc[q]) /\ host[proc[q].s] = "live")
                               => proc[q].tok = current'[proc[q].s]
        BY <2>1, <2>3, <3>1 DEF IInv, HandIsCurrent
      <3> QED
        BY <1>1, <3>2 DEF HandIsCurrent, InHand
    <2>8. ForgetsExcused' /\ DocFresh' /\ (expired \subseteq harmed)'
      BY <1>1, <1>4 DEF IInv, ForgetsExcused, DocFresh
    <2>9. Custody'
      <3>1. SUFFICES ASSUME NEW t \in Sessions, host[t] = "live", t \notin harmed, t # s
                     PROVE  disk[t] = current'[t] \/ \E q \in Procs : Carries(q, t, current'[t])
        BY <1>1, <1>4 DEF Custody, Carries, InHand
      <3>2. current'[t] = current[t]
        BY <2>1, <3>1
      <3> QED
        BY <3>1, <3>2 DEF IInv, Custody
    <2> QED
      BY <2>4, <2>5, <2>6, <2>7, <2>8, <2>9 DEF IInv
  <1> QED
    BY <1>3, <1>4 DEF RedeemZombie, Harm

\* What a rewrite puts on disk: the entry of its own session is newer, gone or
\* as it was; the others are as they were, or gone because they had expired.
LEMMA Written ==
    ASSUME IInv, NEW p \in Procs, proc[p].st = "write"
    PROVE  LET r == proc[p] IN
           /\ Edited(r) \in [Sessions -> Tokens]
           /\ \A t \in Sessions : t # r.s =>
                  Edited(r)[t] = disk[t] \/ (Edited(r)[t] = 0 /\ t \in harmed)
           /\ InHand(r) => Edited(r)[r.s] = r.tok
           /\ r.edit \in {"forget", "drop"} => Edited(r)[r.s] = 0
           /\ r.edit = "renew" =>
                  Edited(r)[r.s] = disk[r.s] \/ (Edited(r)[r.s] = 0 /\ r.s \in harmed)
           /\ r.edit \in {"put", "putOpened", "forget", "drop", "renew"}
           /\ InHand(r) <=> r.edit \in {"put", "putOpened"}
  <1> DEFINE r == proc[p]
  <1>1. /\ r.doc \in [Sessions -> Tokens] /\ r.s \in Sessions /\ r.tok \in Tokens /\ 0 \in Tokens
        /\ r.edit # "none" /\ r \in ProcSet
    BY Stepping DEF Shaped
  <1>2. r.edit \in {"put", "putOpened", "forget", "drop", "renew"}
    BY <1>1 DEF ProcSet
  <1>3. InHand(r) <=> r.edit \in {"put", "putOpened"}
    BY DEF InHand
  <1>4. \A t \in Sessions : r.doc[t] = disk[t] \/ (r.doc[t] = 0 /\ t \in harmed)
    BY DEF IInv, DocFresh
  <1> HIDE DEF r
  <1>5. CASE r.edit \in {"put", "putOpened"}
    <2>1. Edited(r) = [r.doc EXCEPT ![r.s] = r.tok]
      BY <1>5 DEF Edited
    <2> QED
      BY <1>1, <1>2, <1>3, <1>4, <1>5, <2>1 DEF r
  <1>6. CASE r.edit \in {"forget", "drop"}
    <2>1. Edited(r) = [r.doc EXCEPT ![r.s] = 0]
      BY <1>6 DEF Edited
    <2> QED
      BY <1>1, <1>2, <1>3, <1>4, <1>6, <2>1 DEF r
  <1>7. CASE r.edit = "renew"
    <2>1. Edited(r) = r.doc
      BY <1>7 DEF Edited
    <2> QED
      BY <1>1, <1>2, <1>3, <1>4, <1>7, <2>1 DEF r
  <1> QED
    BY <1>2, <1>5, <1>6, <1>7

\* What the process is once it has written.
LEMMA AfterRecord ==
    ASSUME IInv, NEW p \in Procs, proc[p].st = "write"
    PROVE  LET r == After(proc[p]) IN
           /\ r \in ProcSet /\ Shaped(r) /\ ~InHand(r) /\ r.tok = 0 /\ r.edit = "none"
           /\ r.st \in {"attached", "idle"}
  <1>1. proc[p].s \in Sessions /\ 0 \in Tokens
    BY Stepping DEF Shaped
  <1>2. CASE proc[p].edit \in {"put", "renew"}
    <2>1. After(proc[p]) = At("attached", proc[p].s, 0)
      BY <1>2 DEF After
    <2> QED
      BY <1>1, <2>1, RestRecord
  <1>3. CASE proc[p].edit \notin {"put", "renew"}
    <2>1. After(proc[p]) = Idle
      BY <1>3 DEF After
    <2> QED
      BY <2>1, IdleRecord
  <1> QED
    BY <1>2, <1>3

LEMMA WriteDocumentStep ==
    ASSUME IInv, NEW p \in Procs, WriteDocument(p)
    PROVE  IInv' /\ \A t \in Sessions : disk'[t] # 0 => disk'[t] >= disk[t]
  <1> DEFINE s == proc[p].s
             tok == proc[p].tok
             edit == proc[p].edit
             r == After(proc[p])
  <1>1. /\ proc[p].st = "write" /\ disk' = Edited(proc[p]) /\ lock' = Nobody /\ Become(p, r)
        /\ expired' = {t \in expired : disk'[t] # 0} \ {s}
        /\ harmed' = IF edit = "drop" /\ disk[s] = current[s] THEN harmed \cup {s} ELSE harmed
        /\ host' = host /\ current' = current /\ minted' = minted /\ zombies' = zombies
    BY DEF WriteDocument, hostVars, Harm
  <1>2. /\ disk' \in [Sessions -> Tokens]
        /\ \A t \in Sessions : t # s => disk'[t] = disk[t] \/ (disk'[t] = 0 /\ t \in harmed)
        /\ InHand(proc[p]) => disk'[s] = tok
        /\ edit \in {"forget", "drop"} => disk'[s] = 0
        /\ edit = "renew" => disk'[s] = disk[s] \/ (disk'[s] = 0 /\ s \in harmed)
        /\ edit \in {"put", "putOpened", "forget", "drop", "renew"}
        /\ InHand(proc[p]) <=> edit \in {"put", "putOpened"}
    BY <1>1, Written
  <1>3. /\ r \in ProcSet /\ Shaped(r) /\ ~InHand(r) /\ r.tok = 0 /\ r.edit = "none"
        /\ r.st # "asked" /\ r.st # "write"
    BY <1>1, AfterRecord
  <1> HIDE DEF r
  <1>4. /\ proc' \in [Procs -> ProcSet] /\ proc'[p] = r
        /\ \A q \in Procs : q # p => proc'[q] = proc[q]
    BY <1>1, <1>3, BecomeRecord DEF IInv
  <1>5. s \in Sessions /\ tok \in Nat /\ tok <= minted /\ minted \in Nat /\ harmed \subseteq Sessions
    BY <1>1, Stepping DEF Shaped
  <1>6. /\ \A t \in Sessions : disk[t] \in Nat /\ disk[t] <= minted /\ disk'[t] \in Nat
        /\ harmed \subseteq harmed' /\ harmed' \subseteq Sessions
    BY <1>1, <1>2, <1>5, Typed DEF IInv, Bounded
  <1>7. InHand(proc[p]) => disk[s] < tok
    BY DEF IInv, HandIsNewest
  <1>8. \A q \in Procs : q # p => proc[q].st # "write"
    BY <1>1, Stepping
  <1>9. \A q \in Procs : InHand(proc'[q]) => q # p /\ proc'[q] = proc[q]
    BY <1>3, <1>4
  <1>10. \A t \in Sessions : \/ disk'[t] = disk[t]
                             \/ disk'[t] = 0
                             \/ InHand(proc[p]) /\ t = s /\ disk'[t] = tok
    BY <1>2, <1>5
  <1>11. TypeOK'
    <2>1. \A q \in Procs : proc'[q].st # "write"
      BY <1>3, <1>4, <1>8
    <2>2. expired' \subseteq {t \in Sessions : disk'[t] # 0}
      BY <1>1 DEF IInv, TypeOK
    <2>3. Nobody \notin Procs
      BY CustodyAssumption
    <2> QED
      BY <1>1, <1>2, <1>4, <1>6, <2>1, <2>2, <2>3 DEF IInv, TypeOK
  <1>12. AllShaped'
    BY <1>3, <1>4 DEF IInv, AllShaped, Shaped
  <1>13. Bounded'
    <2>1. \A q \in Procs : proc'[q].tok <= minted
      BY <1>3, <1>4, <1>5 DEF IInv, Bounded
    <2>2. \A t \in Sessions : disk'[t] <= minted
      BY <1>5, <1>6, <1>10
    <2> QED
      BY <1>1, <2>1, <2>2 DEF IInv, Bounded
  <1>14. HandIsCurrent' /\ OneHand'
    BY <1>1, <1>9 DEF IInv, HandIsCurrent, OneHand
  <1>15. HandIsNewest'
    <2>1. SUFFICES ASSUME NEW q \in Procs, InHand(proc'[q])
                   PROVE  /\ disk'[proc'[q].s] < proc'[q].tok
                          /\ \A t \in Procs : (proc'[t].st = "asked" /\ proc'[t].s = proc'[q].s)
                                                => proc'[t].tok < proc'[q].tok
                          /\ \A z \in zombies : z.s = proc'[q].s => z.tok < proc'[q].tok
      BY <1>1 DEF HandIsNewest, InHand
    <2>2. q # p /\ proc'[q] = proc[q] /\ InHand(proc[q])
      BY <1>9, <2>1
    <2>3. /\ disk[proc[q].s] < proc[q].tok
          /\ \A t \in Procs : (proc[t].st = "asked" /\ proc[t].s = proc[q].s) => proc[t].tok < proc[q].tok
          /\ \A z \in zombies : z.s = proc[q].s => z.tok < proc[q].tok
      BY <2>2 DEF IInv, HandIsNewest
    <2>4. proc[q].s \in Sessions /\ proc[q].tok \in Nat
      BY <2>2, ProcFields DEF IInv, AllShaped, Shaped, InHand
    <2>5. InHand(proc[p]) => proc[q].s # s
      BY <2>2 DEF IInv, OneHand
    <2>6. disk'[proc[q].s] < proc[q].tok
      BY <1>6, <1>10, <2>3, <2>4, <2>5
    <2>7. \A t \in Procs : proc'[t].st = "asked" => proc'[t] = proc[t]
      BY <1>3, <1>4
    <2> QED
      BY <2>2, <2>3, <2>6, <2>7
  <1>16. Unopened'
    <2>1. SUFFICES ASSUME NEW t \in Sessions, host[t] = "none"
                   PROVE  /\ disk'[t] = 0
                          /\ \A q \in Procs : (InHand(proc'[q]) \/ proc'[q].st = "asked") => proc'[q].s # t
                          /\ \A z \in zombies : z.s # t
      BY <1>1 DEF Unopened, InHand
    <2>2. /\ disk[t] = 0 /\ (InHand(proc[p]) => s # t)
          /\ \A q \in Procs : (InHand(proc[q]) \/ proc[q].st = "asked") => proc[q].s # t
          /\ \A z \in zombies : z.s # t
      BY <2>1 DEF IInv, Unopened
    <2> QED
      BY <1>3, <1>4, <1>10, <2>2
  <1>17. ForgetsExcused'
    BY <1>1, <1>3, <1>4, <1>6 DEF IInv, ForgetsExcused
  <1>18. DocFresh'
    BY <1>3, <1>4, <1>8 DEF DocFresh
  <1>19. (expired \subseteq harmed)'
    BY <1>1, <1>6 DEF IInv
  <1>20. Custody'
    <2>1. SUFFICES ASSUME NEW t \in Sessions, host[t] = "live", t \notin harmed', disk'[t] # current[t]
                   PROVE  \E q \in Procs : InHand(proc'[q]) /\ proc'[q].s = t /\ proc'[q].tok = current[t]
      BY <1>1 DEF Custody, Carries, InHand
    <2>2. t \notin harmed
      BY <1>6, <2>1
    <2>3. ~(t = s /\ InHand(proc[p]))
      BY <1>2, <2>1 DEF IInv, HandIsCurrent
    <2>4. disk[t] # current[t]
      <3>1. CASE t = s
        <4>1. edit # "forget"
          BY <2>1, <2>2, <3>1 DEF IInv, ForgetsExcused
        <4>2. CASE edit = "drop"
          BY <1>1, <2>1, <3>1, <4>2
        <4>3. CASE edit = "renew"
          BY <1>2, <2>1, <2>2, <3>1, <4>3
        <4> QED
          BY <1>2, <2>3, <3>1, <4>1, <4>2, <4>3
      <3>2. CASE t # s
        BY <1>2, <2>1, <2>2, <3>2
      <3> QED
        BY <3>1, <3>2
    <2>5. PICK q \in Procs : InHand(proc[q]) /\ proc[q].s = t /\ proc[q].tok = current[t]
      BY <2>1, <2>2, <2>4 DEF IInv, Custody, Carries
    <2>6. q # p
      BY <2>3, <2>5
    <2> QED
      BY <1>4, <2>5, <2>6
  <1>21. \A t \in Sessions : disk'[t] # 0 => disk'[t] >= disk[t]
    BY <1>5, <1>6, <1>7, <1>10
  <1> QED
    BY <1>11, <1>12, <1>13, <1>14, <1>15, <1>16, <1>17, <1>18, <1>19, <1>20, <1>21 DEF IInv

-----------------------------------------------------------------------------
(* The theorems.                                                           *)

LEMMA InitInv == Init => IInv
  <1> SUFFICES ASSUME Init PROVE IInv
    OBVIOUS
  <1>1. \A p \in Procs : proc[p] = Idle
    BY DEF Init
  <1>2. 0 \in Tokens
    BY CustodyAssumption DEF Tokens
  <1>3. TypeOK
    <2>1. proc \in [Procs -> ProcSet]
      BY IdleRecord DEF Init
    <2>2. \A p \in Procs : proc[p].st = "write" <=> lock = p
      BY <1>1, IdleRecord, CustodyAssumption DEF Init
    <2> QED
      BY <1>2, <2>1, <2>2 DEF Init, TypeOK
  <1>4. AllShaped
    BY <1>1, IdleRecord DEF AllShaped
  <1>5. Bounded
    BY <1>1, IdleRecord DEF Init, Bounded
  <1>6. HandIsCurrent /\ OneHand /\ HandIsNewest
    BY <1>1, IdleRecord DEF HandIsCurrent, OneHand, HandIsNewest
  <1>7. Unopened
    BY <1>1, IdleRecord DEF Init, Unopened
  <1>8. ForgetsExcused /\ DocFresh
    BY <1>1, IdleRecord DEF ForgetsExcused, DocFresh
  <1>9. Custody /\ expired \subseteq harmed
    BY DEF Init, Custody
  <1> QED
    BY <1>3, <1>4, <1>5, <1>6, <1>7, <1>8, <1>9 DEF IInv

\* A step of one process keeps the invariant; only the rewrite of the document
\* touches the disk, and it does not go back.
LEMMA ProcInv ==
    ASSUME IInv, NEW p \in Procs, ProcStep(p)
    PROVE  IInv' /\ (disk' = disk \/ WriteDocument(p))
  <1>1. CASE \E s \in Sessions : Open(p, s) \/ Close(p, s)
    BY <1>1, OpenStep, CloseStep DEF Open, Close, storeVars
  <1>2. CASE \E s \in Sessions, same \in BOOLEAN : Take(p, s, same)
    BY <1>2, TakeStep DEF Take, storeVars
  <1>3. CASE TakeNothing(p)
    BY <1>3, TakeNothingStep DEF TakeNothing, storeVars
  <1>4. CASE ReadAnswer(p)
    BY <1>4, ReadAnswerStep DEF ReadAnswer, storeVars
  <1>5. CASE \E detach \in BOOLEAN : LegEnds(p, detach)
    BY <1>5, LegEndsStep DEF LegEnds, storeVars
  <1>6. CASE SeeClosed(p)
    BY <1>6, SeeClosedStep DEF SeeClosed, storeVars
  <1>7. CASE Renew(p)
    BY <1>7, RenewStep DEF Renew, storeVars
  <1>8. CASE ReadDocument(p)
    BY <1>8, ReadDocumentStep DEF ReadDocument
  <1>9. CASE WriteDocument(p)
    BY <1>9, WriteDocumentStep
  <1>10. CASE WriteFails(p)
    BY <1>10, WriteFailsStep DEF WriteFails
  <1>11. CASE LinkFails(p)
    BY <1>11, LinkFailsStep DEF LinkFails, storeVars
  <1>12. CASE Crash(p)
    BY <1>12, CrashStep DEF Crash
  <1> QED
    BY <1>1, <1>2, <1>3, <1>4, <1>5, <1>6, <1>7, <1>8, <1>9, <1>10, <1>11, <1>12 DEF ProcStep

LEMMA NextInv ==
    ASSUME IInv, [Next]_vars
    PROVE  IInv' /\ (disk' = disk \/ \E p \in Procs : WriteDocument(p))
  <1>1. CASE UNCHANGED vars
    BY <1>1
    DEF vars, IInv, TypeOK, AllShaped, Shaped, Bounded, HandIsCurrent, OneHand, HandIsNewest,
        Unopened, ForgetsExcused, DocFresh, Custody, Carries, InHand
  <1>2. CASE \E p \in Procs : ProcStep(p)
    BY <1>2, ProcInv
  <1>3. CASE \E p \in Procs : Redeem(p)
    BY <1>3, RedeemStep DEF Redeem, storeVars
  <1>4. CASE \E z \in zombies : RedeemZombie(z)
    BY <1>4, RedeemZombieStep DEF RedeemZombie, storeVars
  <1>5. CASE \E s \in Sessions : EndSession(s)
    BY <1>5, EndSessionStep DEF EndSession, storeVars
  <1>6. CASE \E s \in Sessions : Expire(s)
    BY <1>6, ExpireStep DEF Expire
  <1> QED
    BY <1>1, <1>2, <1>3, <1>4, <1>5, <1>6 DEF Next

\* The inductive invariant holds.
THEOREM CustodyInvariant == Spec => []IInv
  BY InitInv, NextInv, PTL DEF Spec

\* The store's lock is held exactly by the process between the read and the
\* write of a rewrite, and every token is one that was minted.
THEOREM CustodyTypeCorrect == Spec => []TypeOK
  <1>1. IInv => TypeOK
    BY DEF IInv
  <1> QED
    BY <1>1, CustodyInvariant, PTL

\* A live session whose token no fault befell can be reached from the store or
\* from the process that is about to put the token there.
THEOREM TokenIsKept == Spec => []Custody
  <1>1. IInv => Custody
    BY DEF IInv
  <1> QED
    BY <1>1, CustodyInvariant, PTL

\* The token the host accepts is carried by one process at most, and is not on
\* disk while it is carried.
THEOREM TokenHasOneHeir == Spec => []OneHeir
  <1>1. ASSUME IInv, NEW s \in Sessions, NEW p \in Procs, NEW q \in Procs,
               Carries(p, s, current[s])
        PROVE  (Carries(q, s, current[s]) => p = q) /\ disk[s] # current[s]
    <2>1. InHand(proc[p]) /\ proc[p].s = s /\ proc[p].tok = current[s]
      BY <1>1 DEF Carries
    <2>2. disk[s] < current[s] /\ disk[s] \in Nat /\ current[s] \in Nat
      BY <1>1, <2>1, Typed DEF IInv, HandIsNewest
    <2>3. Carries(q, s, current[s]) => p = q
      BY <1>1, <2>1 DEF IInv, OneHand, Carries
    <2> QED
      BY <2>2, <2>3
  <1>2. IInv => OneHeir
    BY <1>1 DEF OneHeir
  <1> QED
    BY <1>2, CustodyInvariant, PTL

\* The store never goes back to an older token of a session.
THEOREM StoreNeverRewound == Spec => NeverRewound
  <1>1. ASSUME IInv, [Next]_vars
        PROVE  [\A s \in Sessions : disk'[s] # 0 => disk'[s] >= disk[s]]_vars
    <2>1. CASE disk' = disk
      BY <1>1, <2>1, Typed DEF IInv
    <2>2. CASE \E p \in Procs : WriteDocument(p)
      BY <1>1, <2>2, WriteDocumentStep
    <2> QED
      BY <1>1, <2>1, <2>2, NextInv
  <1> QED
    BY <1>1, CustodyInvariant, PTL DEF Spec, NeverRewound
=============================================================================
