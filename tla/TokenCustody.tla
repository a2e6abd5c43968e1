---------------------------- MODULE TokenCustody ----------------------------
(***************************************************************************)
(* Custody of the resume tokens on a client machine: the store every qsh   *)
(* process of the user shares (resume.rs, resume.json under a file lock),  *)
(* the operations that use it (ops/session.rs: session_open,               *)
(* session_attach, session_close; ops/session/recovery.rs: reattach;       *)
(* ops/session/reader.rs: forget_if_closed; ops/session/attach.rs:         *)
(* renew_credential), and the host's side of a redemption                  *)
(* (broker/resume.rs: issue, rotate).                                      *)
(*                                                                         *)
(* The host holds one token per session and kills it as it mints the       *)
(* successor.  Between that and the successor's put the client machine may *)
(* lose it: a process dies, an answer is lost, the disk refuses the write. *)
(* A session some such fault befell is in harmed (a history variable), so  *)
(* that a property can speak of the others.                                *)
(*                                                                         *)
(* Tokens are numbered in the order they are minted.  A rewrite of the     *)
(* document is two steps, the read and the write, both under the lock; it  *)
(* is replaced as a whole (write_durably), so a crash leaves one or the    *)
(* other.                                                                  *)
(***************************************************************************)
EXTENDS Naturals

CONSTANTS Procs,      \* processes of one user on one machine
          Sessions,   \* session_refs; one is opened at most once
          MaxToken,   \* bound on the tokens a run mints
          Nobody      \* no process

ASSUME CustodyAssumption == MaxToken \in Nat /\ Nobody \notin Procs

VARIABLES
    host,      \* the host's view of each session: none, live, ended
    current,   \* the token the host accepts; 0 is none
    minted,    \* how many tokens were minted
    disk,      \* resume.json: the token of each session, 0 is no entry
    expired,   \* the entries past their expires_at
    lock,      \* the holder of resume.lock
    proc,      \* what each process is doing
    zombies,   \* attach requests whose client has given up: {[s, tok]}
    harmed     \* the sessions whose token a fault befell: history

vars == <<host, current, minted, disk, expired, lock, proc, zombies, harmed>>
hostVars == <<host, current, minted>>
storeVars == <<disk, expired, lock>>

NoDoc == <<>>

Idle == [st |-> "idle", s |-> "none", tok |-> 0, edit |-> "none", doc |-> NoDoc]

Init ==
    /\ host = [s \in Sessions |-> "none"]
    /\ current = [s \in Sessions |-> 0]
    /\ minted = 0
    /\ disk = [s \in Sessions |-> 0]
    /\ expired = {}
    /\ lock = Nobody
    /\ proc = [p \in Procs |-> Idle]
    /\ zombies = {}
    /\ harmed = {}

Harm(s) == harmed' = harmed \cup {s}

Become(p, r) == proc' = [proc EXCEPT ![p] = r]

At(st, s, tok) == [Idle EXCEPT !.st = st, !.s = s, !.tok = tok]

\* The process goes on to rewrite the document: put, forget or renew.
Edit(edit, s, tok) == [At("update", s, tok) EXCEPT !.edit = edit]

\* The process is on its way from an answer to the put of the token in it.
InHand(r) == r.st \in {"opened", "granted"} \/ r.edit \in {"put", "putOpened"}

-----------------------------------------------------------------------------
(* The host.                                                               *)

\* issue and rotate: the successor replaces the token in the same step.
Mint(s) ==
    /\ minted < MaxToken
    /\ minted' = minted + 1
    /\ current' = [current EXCEPT ![s] = minted + 1]

\* session_open: the session exists with its credential before the answer.
Open(p, s) ==
    /\ proc[p].st = "idle" /\ host[s] = "none"
    /\ host' = [host EXCEPT ![s] = "live"]
    /\ Mint(s)
    /\ Become(p, At("opened", s, minted + 1))
    /\ UNCHANGED <<storeVars, zombies, harmed>>

\* Mutant: any token the session ever had is redeemed.
AcceptsAny(s, tok) == host[s] = "live" /\ tok # 0

\* verify: only the current token of a session that lives is redeemed.
Accepts(s, tok) == host[s] = "live" /\ current[s] = tok

\* Mutant: a token that was already redeemed is answered with its successor.
RedeemAgain(p) ==
    LET r == proc[p] IN
    /\ r.st = "asked"
    /\ \/ /\ Accepts(r.s, r.tok)
          /\ Mint(r.s)
          /\ Become(p, At("granted", r.s, minted + 1))
       \/ /\ ~Accepts(r.s, r.tok)
          /\ Become(p, At(IF host[r.s] = "live" THEN "granted" ELSE "refused", r.s, current[r.s]))
          /\ UNCHANGED <<current, minted>>
    /\ UNCHANGED <<host, storeVars, zombies, harmed>>

\* The host answers an attach: Attached with the successor, or AUTH_FAILED,
\* which does not tell a stale token from a session that is gone.
Redeem(p) ==
    LET r == proc[p] IN
    /\ r.st = "asked"
    /\ \/ /\ Accepts(r.s, r.tok)
          /\ Mint(r.s)
          /\ Become(p, At("granted", r.s, minted + 1))
       \/ /\ ~Accepts(r.s, r.tok)
          /\ Become(p, At("refused", r.s, r.tok))
          /\ UNCHANGED <<current, minted>>
    /\ UNCHANGED <<host, storeVars, zombies, harmed>>

\* A request whose client has given up reaches the host all the same.
RedeemZombie(z) ==
    /\ zombies' = zombies \ {z}
    /\ \/ /\ Accepts(z.s, z.tok)
          /\ Mint(z.s)
          /\ Harm(z.s)
       \/ UNCHANGED <<current, minted, harmed>>
    /\ UNCHANGED <<host, storeVars, proc>>

\* The host removes the session: its child ended, or its TTL.
EndSession(s) ==
    /\ host[s] = "live"
    /\ host' = [host EXCEPT ![s] = "ended"]
    /\ current' = [current EXCEPT ![s] = 0]
    /\ UNCHANGED <<minted, storeVars, proc, zombies, harmed>>

-----------------------------------------------------------------------------
(* An attach, first or again.                                              *)

\* take_for reads without the lock.  An entry bound to another peer than the
\* one connected to, or expired, is forgotten; else the token is presented.
Take(p, s, samePeer) ==
    /\ proc[p].st \in {"idle", "lost"}
    /\ proc[p].st = "lost" => s = proc[p].s
    /\ disk[s] # 0
    /\ IF samePeer /\ s \notin expired
       THEN /\ Become(p, At("asked", s, disk[s]))
            /\ harmed' = harmed
       ELSE /\ Become(p, Edit("forget", s, 0))
            /\ Harm(s)
    /\ UNCHANGED <<hostVars, storeVars, zombies>>

\* A recovery that finds no entry gives up.
TakeNothing(p) ==
    /\ proc[p].st = "lost" /\ disk[proc[p].s] = 0
    /\ Become(p, Idle)
    /\ UNCHANGED <<hostVars, storeVars, zombies, harmed>>

\* The answer arrives: the successor is put before the stream is opened, a
\* refusal forgets the entry.
ReadAnswer(p) ==
    LET r == proc[p] IN
    /\ \/ r.st = "opened"  /\ Become(p, Edit("putOpened", r.s, r.tok))
       \/ r.st = "granted" /\ Become(p, Edit("put", r.s, r.tok))
       \/ r.st = "refused" /\ Become(p, Edit("drop", r.s, 0))
    /\ UNCHANGED <<hostVars, storeVars, zombies, harmed>>

\* The connection fails before the answer is read; a request under way may
\* still reach the host.
LinkFails(p) ==
    LET r == proc[p] IN
    /\ r.st \in {"asked", "opened", "granted", "refused"}
    /\ Become(p, Idle)
    /\ zombies' = IF r.st = "asked" THEN zombies \cup {[s |-> r.s, tok |-> r.tok]} ELSE zombies
    /\ IF r.st \in {"opened", "granted"} THEN Harm(r.s) ELSE harmed' = harmed
    /\ UNCHANGED <<hostVars, storeVars>>

\* The leg of an attached process is lost, or the user detaches.
LegEnds(p, detach) ==
    /\ proc[p].st = "attached"
    /\ Become(p, IF detach THEN Idle ELSE At("lost", proc[p].s, 0))
    /\ UNCHANGED <<hostVars, storeVars, zombies, harmed>>

\* An attached process reads session.closed, or closes the session itself.
SeeClosed(p) ==
    /\ proc[p].st = "attached" /\ host[proc[p].s] = "ended"
    /\ Become(p, Edit("forget", proc[p].s, 0))
    /\ UNCHANGED <<hostVars, storeVars, zombies, harmed>>

\* session_close: the entry is forgotten once the host has closed it.
Close(p, s) ==
    /\ proc[p].st = "idle" /\ host[s] = "live"
    /\ host' = [host EXCEPT ![s] = "ended"]
    /\ current' = [current EXCEPT ![s] = 0]
    /\ Become(p, Edit("forget", s, 0))
    /\ UNCHANGED <<minted, storeVars, zombies, harmed>>

\* renew_credential of an attached process.
Renew(p) ==
    /\ proc[p].st = "attached"
    /\ Become(p, Edit("renew", proc[p].s, 0))
    /\ UNCHANGED <<hostVars, storeVars, zombies, harmed>>

-----------------------------------------------------------------------------
(* ResumeStore::update.                                                    *)

\* Mutant: the document is read without waiting for the lock.
ReadUnlocked(p) ==
    /\ proc[p].st = "update"
    /\ lock' = p
    /\ Become(p, [proc[p] EXCEPT !.st = "write",
                     !.doc = [s \in Sessions |-> IF s \in expired THEN 0 ELSE disk[s]]])
    /\ UNCHANGED <<hostVars, disk, expired, zombies, harmed>>

\* Take the lock, read the document, purge what has expired.
ReadDocument(p) ==
    /\ proc[p].st = "update" /\ lock = Nobody
    /\ lock' = p
    /\ Become(p, [proc[p] EXCEPT !.st = "write",
                     !.doc = [s \in Sessions |-> IF s \in expired THEN 0 ELSE disk[s]]])
    /\ UNCHANGED <<hostVars, disk, expired, zombies, harmed>>

\* The edit of the document.
Edited(r) ==
    CASE r.edit \in {"put", "putOpened"} -> [r.doc EXCEPT ![r.s] = r.tok]
      [] r.edit \in {"forget", "drop"}   -> [r.doc EXCEPT ![r.s] = 0]
      [] OTHER                           -> r.doc

\* What follows the write.
After(r) ==
    CASE r.edit \in {"put", "renew"} -> At("attached", r.s, 0)
      [] OTHER                       -> Idle

\* Replace the document and let go of the lock.  The drop that follows a
\* refusal harms a session whose entry another process has renewed meanwhile.
WriteDocument(p) ==
    LET r == proc[p] IN
    /\ r.st = "write"
    /\ disk' = Edited(r)
    /\ expired' = {s \in expired : disk'[s] # 0} \ {r.s}
    /\ lock' = Nobody
    /\ Become(p, After(r))
    /\ IF r.edit = "drop" /\ disk[r.s] = current[r.s] THEN Harm(r.s) ELSE harmed' = harmed
    /\ UNCHANGED <<hostVars, zombies>>

\* The write fails.  An attach that cannot keep its successor forgets the
\* entry; a failed forget or renew is ignored.
WriteFails(p) ==
    LET r == proc[p] IN
    /\ r.st = "write"
    /\ lock' = Nobody
    /\ Become(p, IF r.edit = "put" THEN Edit("forget", r.s, 0) ELSE After(r))
    /\ IF r.edit \in {"put", "putOpened"} THEN Harm(r.s) ELSE harmed' = harmed
    /\ UNCHANGED <<hostVars, disk, expired, zombies>>

\* Time passes: an entry reaches its expires_at.
Expire(s) ==
    /\ disk[s] # 0 /\ s \notin expired
    /\ expired' = expired \cup {s}
    /\ Harm(s)
    /\ UNCHANGED <<hostVars, disk, lock, proc, zombies>>

\* A process dies: its request may still arrive, the lock is released.
Crash(p) ==
    LET r == proc[p] IN
    /\ r.st # "idle"
    /\ Become(p, Idle)
    /\ lock' = IF lock = p THEN Nobody ELSE lock
    /\ zombies' = IF r.st = "asked" THEN zombies \cup {[s |-> r.s, tok |-> r.tok]} ELSE zombies
    /\ IF InHand(r) THEN Harm(r.s) ELSE harmed' = harmed
    /\ UNCHANGED <<hostVars, disk, expired>>

-----------------------------------------------------------------------------
ProcStep(p) ==
    \/ \E s \in Sessions : Open(p, s) \/ Close(p, s)
    \/ \E s \in Sessions, same \in BOOLEAN : Take(p, s, same)
    \/ TakeNothing(p)
    \/ ReadAnswer(p)
    \/ \E detach \in BOOLEAN : LegEnds(p, detach)
    \/ SeeClosed(p)
    \/ Renew(p)
    \/ ReadDocument(p)
    \/ WriteDocument(p)
    \/ WriteFails(p)
    \/ LinkFails(p)
    \/ Crash(p)

Next ==
    \/ \E p \in Procs : ProcStep(p) \/ Redeem(p)
    \/ \E z \in zombies : RedeemZombie(z)
    \/ \E s \in Sessions : EndSession(s) \/ Expire(s)

Spec == Init /\ [][Next]_vars

-----------------------------------------------------------------------------
(* Properties.                                                             *)

Tokens == 0..MaxToken

ProcSet ==
    [st : {"idle", "opened", "asked", "granted", "refused", "attached", "lost", "update", "write"},
     s : Sessions \cup {"none"},
     tok : Tokens,
     edit : {"none", "put", "putOpened", "forget", "drop", "renew"},
     doc : [Sessions -> Tokens] \cup {NoDoc}]

\* The lock of the store is held by the process that rewrites it, if any.
TypeOK ==
    /\ host \in [Sessions -> {"none", "live", "ended"}]
    /\ current \in [Sessions -> Tokens]
    /\ minted \in Tokens
    /\ disk \in [Sessions -> Tokens]
    /\ expired \subseteq {s \in Sessions : disk[s] # 0}
    /\ lock \in Procs \cup {Nobody}
    /\ zombies \subseteq [s : Sessions, tok : Tokens]
    /\ proc \in [Procs -> ProcSet]
    /\ \A p \in Procs : proc[p].st = "write" <=> lock = p
    /\ harmed \subseteq Sessions

\* The process is on its way to put token t of session s.
Carries(p, s, t) == InHand(proc[p]) /\ proc[p].s = s /\ proc[p].tok = t

\* A live session stays reachable: unless a fault befell its token, the store
\* holds the token the host accepts, or a process is about to put it there,
\* however the rewrites of several processes for several sessions interleave.
Custody ==
    \A s \in Sessions :
        (host[s] = "live" /\ s \notin harmed)
            => disk[s] = current[s] \/ \E p \in Procs : Carries(p, s, current[s])

\* The token the host accepts is known once: on disk or in the hands of one
\* process, never of two that would both redeem or both put it.
OneHeir ==
    \A s \in Sessions : \A p, q \in Procs :
        (host[s] = "live" /\ Carries(p, s, current[s]))
            => (Carries(q, s, current[s]) => p = q) /\ disk[s] # current[s]

\* The entry of a session never goes back to an older token: a late put cannot
\* overwrite a successor, whatever crashed or got lost.
NeverRewound ==
    [][\A s \in Sessions : disk'[s] # 0 => disk'[s] >= disk[s]]_vars

\* What a refusal drops is dead weight, as session_attach's comment says of
\* the entry it forgets.  The code breaks it: see the refusal_forgets run.
RefusedIsDeadWeight ==
    [][\A p \in Procs : \A s \in Sessions :
          (proc[p].edit = "drop" /\ proc[p].s = s /\ WriteDocument(p))
              => ~(host[s] = "live" /\ disk[s] = current[s])]_vars
=============================================================================
