------------------------------ MODULE OutputLog ------------------------------
(***************************************************************************)
(* What a session's replay store promises its readers, with no ring, no    *)
(* chunks and no byte budget: one totally ordered log of bytes and control *)
(* events, forgotten from the front, and readers that get every item of it *)
(* once and in order, or are told that there is a gap.                     *)
(***************************************************************************)
EXTENDS Naturals, Sequences

CONSTANT Readers

VARIABLES
    log,    \* everything ever written
    floor,  \* how many items, from the front, are forgotten
    at,     \* how many items each reader has been given, or told it lost
    got     \* the last answer

vars == <<log, floor, at, got>>

Nothing == [by |-> "nobody"]

Init ==
    /\ log = <<>>
    /\ floor = 0
    /\ at = [r \in Readers |-> 0]
    /\ got = Nothing

\* The log only grows, and only at its end.
Write ==
    /\ Len(log') > Len(log)
    /\ SubSeq(log', 1, Len(log)) = log
    /\ UNCHANGED <<floor, at, got>>

\* The oldest items are forgotten.
Forget ==
    /\ floor' \in (floor + 1)..Len(log)
    /\ UNCHANGED <<log, at, got>>

\* A reader is repositioned.
Seek(r) ==
    /\ at' \in {[at EXCEPT ![r] = k] : k \in 0..Len(log)}
    /\ got' = Nothing
    /\ UNCHANGED <<log, floor>>

Refuse(r) ==
    /\ got' = [by |-> r, error |-> "CursorBeyondEnd"]
    /\ UNCHANGED <<log, floor, at>>

\* The reader is told of a gap exactly when it is behind what is kept; it gets
\* a contiguous run from there on, and an empty one only when it is up to date.
Read(r) ==
    LET gap == at[r] < floor
        p == IF gap THEN floor ELSE at[r]
    IN  /\ \E q \in p..Len(log) :
             /\ got' = [by |-> r, gap |-> gap, items |-> SubSeq(log, p + 1, q)]
             /\ at' = [at EXCEPT ![r] = q]
             /\ q = p => q = Len(log)
        /\ UNCHANGED <<log, floor>>

Next ==
    \/ Write
    \/ Forget
    \/ \E r \in Readers : Seek(r) \/ Refuse(r) \/ Read(r)

Spec == Init /\ [][Next]_vars
=============================================================================
