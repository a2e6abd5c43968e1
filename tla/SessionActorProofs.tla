------------------------- MODULE SessionActorProofs -------------------------
(***************************************************************************)
(* Proofs about SessionActor, for any closers, first signals and amount of *)
(* output: the order of the entries a session leaves in its ring, what a   *)
(* caller of close may rely on, and that no pull sleeps over an append.    *)
(***************************************************************************)
EXTENDS SessionActor, FiniteSetTheorems, TLAPS

Items == {"out", "exit", "closed"}
ActorSteps == {"loop", "abort", "mark", "append", "answer", "gone"}
Signals == {"HUP", "INT", "TERM", "KILL"}

ClosingRec == [on : BOOLEAN, next : Signals \cup {"none"}, forced : BOOLEAN]
MetaRec == [state : {"running", "exited"}, closing : BOOLEAN, closed : BOOLEAN]
PullerRec == [at : {"register", "read", "check", "wait"}, seen : Nat, woken : BOOLEAN]

TypeOK ==
    /\ child \in {"alive", "dead", "reaped"}
    /\ chunks \in Nat /\ pump \in {"idle", "busy", "pushed", "done"}
    /\ aborted \in BOOLEAN /\ eof \in BOOLEAN
    /\ log \in Seq(Items)
    /\ exiting \in BOOLEAN /\ outputDone \in BOOLEAN /\ exitAppended \in BOOLEAN
    /\ closing \in ClosingRec
    /\ actor \in ActorSteps
    /\ meta \in MetaRec
    /\ closer \in [Closers -> {"idle", "sent", "joined", "resolved"}]
    /\ calls \in Nat
    /\ puller \in PullerRec

\* The exit is due only when the pump is over, and the pump never starts again.
Drained ==
    /\ eof => pump = "done"
    /\ outputDone => eof
    /\ exitAppended => outputDone

\* Where the entries of the actor stand in the log, and how far the actor is.
ExitInLog == \A i \in Positions("exit") :
    /\ exitAppended
    /\ \A j \in Positions("exit") : j = i
    /\ \A j \in Positions("out") : j < i
    /\ \A j \in Positions("closed") : i < j

ClosedInLog ==
    /\ Positions("closed") # {} <=> actor \in {"answer", "gone"}
    /\ \A i, j \in Positions("closed") : i = j

Resolution == \A k \in Closers : closer[k] = "resolved" => actor = "gone"

ActorInv == TypeOK /\ Drained /\ ExitInLog /\ ClosedInLog /\ Resolution

\* A pull that is registered and has not been woken has seen the whole log when
\* it decided to sleep, unless the append it missed is about to be announced.
Unannounced == IF pump = "pushed" THEN 1 ELSE 0

PullInv ==
    /\ puller.seen <= Len(log)
    /\ puller.at \in {"check", "wait"} /\ ~puller.woken
         => Len(log) - Unannounced <= puller.seen

-----------------------------------------------------------------------------
\* What an append does to the positions of each item.
LEMMA AppendPositions ==
    ASSUME log \in Seq(Items), NEW x \in Items, log' = Append(log, x)
    PROVE  /\ log' \in Seq(Items) /\ Len(log') = Len(log) + 1
           /\ Len(log) \in Nat
           /\ \A y : Positions(y)' = IF y = x THEN Positions(y) \cup {Len(log) + 1}
                                              ELSE Positions(y)
           /\ \A y : \A i \in Positions(y) : i \in 1..Len(log)
<1>1. /\ log' \in Seq(Items) /\ Len(log') = Len(log) + 1 /\ Len(log) \in Nat
      /\ DOMAIN log = 1..Len(log) /\ DOMAIN log' = 1..(Len(log) + 1)
    OBVIOUS
<1>2. \A i \in 1..Len(log) : log'[i] = log[i]
    OBVIOUS
<1>3. log'[Len(log) + 1] = x
    OBVIOUS
<1>4. ASSUME NEW y
      PROVE  Positions(y)' = IF y = x THEN Positions(y) \cup {Len(log) + 1} ELSE Positions(y)
    BY <1>1, <1>2, <1>3 DEF Positions
<1>. QED BY <1>1, <1>4 DEF Positions

\* An unchanged log.
LEMMA SamePositions ==
    ASSUME UNCHANGED log
    PROVE  \A y : Positions(y)' = Positions(y)
BY DEF Positions

\* The updates of the records that the actions make.
LEMMA RecordUpdates ==
    /\ \A c \in ClosingRec : \A x \in Signals \cup {"none"} :
           [c EXCEPT !.next = x] \in ClosingRec /\ [c EXCEPT !.forced = TRUE] \in ClosingRec
    /\ \A x \in Signals \cup {"none"} : [on |-> TRUE, forced |-> FALSE, next |-> x] \in ClosingRec
    /\ \A m \in MetaRec :
           /\ [m EXCEPT !.state = "exited"] \in MetaRec
           /\ [m EXCEPT !.closing = TRUE] \in MetaRec
           /\ [m EXCEPT !.closing = TRUE, !.closed = TRUE] \in MetaRec
    /\ \A p \in PullerRec :
           /\ [p EXCEPT !.woken = TRUE] \in PullerRec
           /\ [p EXCEPT !.at = "read", !.woken = FALSE] \in PullerRec
           /\ \A n \in Nat : [p EXCEPT !.at = "register", !.seen = n] \in PullerRec
           /\ \A a \in {"check", "wait", "register"} : [p EXCEPT !.at = a] \in PullerRec
BY DEF ClosingRec, MetaRec, PullerRec

LEMMA WakeTyped == puller \in PullerRec => Wake \in PullerRec
BY RecordUpdates DEF Wake

\* Every value stays in its set.
LEMMA TypeKept ==
    ASSUME TypeOK, [Next]_vars
    PROVE  TypeOK'
<1>1. CASE ChildDies
    BY <1>1 DEF ChildDies, TypeOK, pumpVars, actorVars, ActorSteps, Items
<1>2. CASE PumpRead
    BY <1>2 DEF PumpRead, TypeOK, pumpVars, actorVars, ActorSteps, Items
<1>3. CASE PumpPush
    BY <1>3 DEF PumpPush, TypeOK, pumpVars, actorVars, ActorSteps, Items
<1>4. CASE PumpNotify
    BY <1>4, WakeTyped DEF PumpNotify, TypeOK, pumpVars, actorVars, ActorSteps, Items
<1>5. CASE PumpEof
    BY <1>5 DEF PumpEof, TypeOK, pumpVars, actorVars, ActorSteps, Items
<1>6. CASE PumpAborted
    BY <1>6 DEF PumpAborted, TypeOK, pumpVars, actorVars, ActorSteps, Items
<1>7. CASE AppendExit
    <2>1. log' \in Seq(Items)
        BY <1>7 DEF AppendExit, TypeOK, Items
    <2>2. puller' \in PullerRec
        BY <1>7, WakeTyped DEF AppendExit, TypeOK
    <2>3. meta' \in MetaRec
        BY <1>7, RecordUpdates DEF AppendExit, TypeOK
    <2>. QED BY <1>7, <2>1, <2>2, <2>3 DEF AppendExit, TypeOK, pumpVars, ActorSteps
<1>8. CASE BreakLoop
    BY <1>8 DEF BreakLoop, Running, TypeOK, pumpVars, actorVars, ActorSteps, Items
<1>9. CASE SeeEof
    BY <1>9 DEF SeeEof, Select, TypeOK, pumpVars, actorVars, ActorSteps, Items
<1>10. CASE SeeExit
    BY <1>10 DEF SeeExit, Select, TypeOK, pumpVars, actorVars, ActorSteps, Items
<1>11. CASE Escalate
    <2>1. closing' \in ClosingRec
        <3>1. closing \in ClosingRec
            BY DEF TypeOK
        <3>2. CASE closing.next # "none"
            <4>1. (IF closing.next = "KILL" THEN "none" ELSE "KILL") \in Signals \cup {"none"}
                BY DEF Signals
            <4>. QED BY <1>11, <3>1, <3>2, <4>1, RecordUpdates DEF Escalate
        <3>3. CASE closing.next = "none"
            BY <1>11, <3>1, <3>3, RecordUpdates DEF Escalate
        <3>. QED BY <3>2, <3>3
    <2>. QED BY <1>11, <2>1 DEF Escalate, TypeOK, pumpVars
<1>12. CASE AbortTasks
    BY <1>12 DEF AbortTasks, TypeOK, pumpVars, actorVars, ActorSteps, Items
<1>13. CASE MarkClosed
    BY <1>13, RecordUpdates DEF MarkClosed, TypeOK, pumpVars, actorVars, ActorSteps, Items
<1>14. CASE AppendClosed
    <2>1. log' \in Seq(Items)
        BY <1>14 DEF AppendClosed, TypeOK, Items
    <2>2. puller' \in PullerRec
        BY <1>14, WakeTyped DEF AppendClosed, TypeOK
    <2>3. meta' \in MetaRec
        BY <1>14, RecordUpdates DEF AppendClosed, TypeOK
    <2>. QED BY <1>14, <2>1, <2>2, <2>3 DEF AppendClosed, TypeOK, pumpVars, ActorSteps
<1>15. CASE AnswerClosers
    BY <1>15 DEF AnswerClosers, TypeOK, pumpVars, actorVars, ActorSteps, Items
<1>16. CASE PullRegister
    <2>1. puller' \in PullerRec
        BY <1>16, RecordUpdates DEF PullRegister, TypeOK
    <2>. QED BY <1>16, <2>1 DEF PullRegister, TypeOK, pumpVars, actorVars
<1>17. CASE PullRead
    <2>1. puller' \in PullerRec
        <3>1. puller \in PullerRec /\ Len(log) \in Nat
            BY DEF TypeOK
        <3>. QED BY <1>17, <3>1, RecordUpdates DEF PullRead
    <2>. QED BY <1>17, <2>1 DEF PullRead, TypeOK, pumpVars, actorVars
<1>18. CASE PullSleep
    <2>1. puller' \in PullerRec
        BY <1>18, RecordUpdates DEF PullSleep, TypeOK
    <2>. QED BY <1>18, <2>1 DEF PullSleep, TypeOK, pumpVars, actorVars
<1>19. CASE PullWoken
    <2>1. puller' \in PullerRec
        BY <1>19, RecordUpdates DEF PullWoken, TypeOK
    <2>. QED BY <1>19, <2>1 DEF PullWoken, TypeOK, pumpVars, actorVars
<1>20. ASSUME NEW sig \in FirstSignals, HandleSignal(sig)
      PROVE  TypeOK'
    BY <1>20 DEF HandleSignal, Select, actorVars, pumpVars, TypeOK, pumpVars, actorVars, ActorSteps, Items
<1>21. ASSUME NEW k \in Closers, NEW sig \in FirstSignals, HandleClose(k, sig)
      PROVE  TypeOK'
    <2>1. closing' \in ClosingRec /\ meta' \in MetaRec
        <3>1. closing \in ClosingRec /\ meta \in MetaRec
            BY DEF TypeOK
        <3>2. CASE closing.on
            BY <1>21, <3>1, <3>2 DEF HandleClose
        <3>3. CASE ~closing.on
            <4>1. \A b \in BOOLEAN : (IF b THEN "none" ELSE StepAfter(sig)) \in Signals \cup {"none"}
                BY DEF StepAfter, Signals
            <4>. DEFINE exited == meta.state = "exited" \/ exiting
            <4>2. closing' = [on |-> TRUE, forced |-> FALSE,
                              next |-> IF exited THEN "none" ELSE StepAfter(sig)]
                BY <1>21, <3>3 DEF HandleClose
            <4>3. (IF exited THEN "none" ELSE StepAfter(sig)) \in Signals \cup {"none"}
                BY <4>1
            <4>. HIDE DEF exited
            <4>4. closing' \in ClosingRec
                BY <4>2, <4>3, RecordUpdates
            <4>5. meta' \in MetaRec
                BY <1>21, <3>1, <3>3, RecordUpdates DEF HandleClose
            <4>. QED BY <4>4, <4>5
        <3>. QED BY <3>2, <3>3
    <2>2. closer' \in [Closers -> {"idle", "sent", "joined", "resolved"}]
        BY <1>21 DEF HandleClose, TypeOK
    <2>. QED BY <1>21, <2>1, <2>2 DEF HandleClose, TypeOK, pumpVars
<1>22. ASSUME NEW k \in Closers, SendClose(k)
      PROVE  TypeOK'
    BY <1>22 DEF SendClose, actorVars, pumpVars, TypeOK, pumpVars, actorVars, ActorSteps, Items
<1>23. CASE UNCHANGED vars
    BY <1>23 DEF vars, actorVars, pumpVars, TypeOK, pumpVars, actorVars, ActorSteps, Items
<1>. QED BY <1>1, <1>2, <1>3, <1>4, <1>5, <1>6, <1>7, <1>8, <1>9, <1>10, <1>11, <1>12, <1>13, <1>14, <1>15, <1>16, <1>17, <1>18, <1>19, <1>20, <1>21, <1>22, <1>23 DEF Next, PumpStep, ActorStep, PullStep

-----------------------------------------------------------------------------
\* A step appends a chunk, the exit or the closed entry, or it leaves the log
\* and the actor's part of it alone.
Silent ==
    /\ UNCHANGED <<log, exitAppended>>
    /\ actor' \in {"answer", "gone"} <=> actor \in {"answer", "gone"}

LEMMA StepKinds ==
    ASSUME [Next]_vars
    PROVE  PumpPush \/ AppendExit \/ AppendClosed \/ Silent
<1>. USE DEF Silent, pumpVars, actorVars
<1>1. ChildDies => Silent
    BY DEF ChildDies
<1>2. PumpRead => Silent
    BY DEF PumpRead
<1>3. PumpNotify => Silent
    BY DEF PumpNotify
<1>4. PumpEof => Silent
    BY DEF PumpEof
<1>5. PumpAborted => Silent
    BY DEF PumpAborted
<1>6. BreakLoop => Silent
    BY DEF BreakLoop, Running
<1>7. SeeEof => Silent
    BY DEF SeeEof, Select, Running
<1>8. SeeExit => Silent
    BY DEF SeeExit, Select, Running
<1>9. Escalate => Silent
    BY DEF Escalate, Select, Running
<1>10. AbortTasks => Silent
    BY DEF AbortTasks
<1>11. MarkClosed => Silent
    BY DEF MarkClosed
<1>12. AnswerClosers => Silent
    BY DEF AnswerClosers
<1>13. PullRegister => Silent
    BY DEF PullRegister
<1>14. PullRead => Silent
    BY DEF PullRead
<1>15. PullSleep => Silent
    BY DEF PullSleep
<1>16. PullWoken => Silent
    BY DEF PullWoken
<1>17. \A sig \in FirstSignals : HandleSignal(sig) => Silent
    BY DEF HandleSignal
<1>18. \A k \in Closers, sig \in FirstSignals : HandleClose(k, sig) => Silent
    BY DEF HandleClose
<1>19. \A k \in Closers : SendClose(k) => Silent
    BY DEF SendClose
<1>20. UNCHANGED vars => Silent
    BY DEF vars
<1>. QED BY <1>1, <1>2, <1>3, <1>4, <1>5, <1>6, <1>7, <1>8, <1>9, <1>10, <1>11, <1>12, <1>13, <1>14, <1>15, <1>16, <1>17, <1>18, <1>19, <1>20 DEF Next, PumpStep, ActorStep, PullStep

\* The flags of the actor follow the end of the pump.
LEMMA DrainedKept ==
    ASSUME TypeOK, Drained, [Next]_vars
    PROVE  Drained'
<1>1. CASE ChildDies
    BY <1>1 DEF ChildDies, Drained, TypeOK, pumpVars, actorVars
<1>2. CASE PumpRead
    BY <1>2 DEF PumpRead, Drained, TypeOK, pumpVars, actorVars
<1>3. CASE PumpPush
    BY <1>3 DEF PumpPush, Drained, TypeOK, pumpVars, actorVars
<1>4. CASE PumpNotify
    BY <1>4 DEF PumpNotify, Drained, TypeOK, pumpVars, actorVars
<1>5. CASE PumpEof
    BY <1>5 DEF PumpEof, Drained, TypeOK, pumpVars, actorVars
<1>6. CASE PumpAborted
    BY <1>6 DEF PumpAborted, Drained, TypeOK, pumpVars, actorVars
<1>7. CASE AppendExit
    BY <1>7 DEF AppendExit, Running, ExitDue, Drained, TypeOK, pumpVars, actorVars
<1>8. CASE BreakLoop
    BY <1>8 DEF BreakLoop, Running, Drained, TypeOK, pumpVars, actorVars
<1>9. CASE SeeEof
    BY <1>9 DEF SeeEof, Select, Running, Drained, TypeOK, pumpVars, actorVars
<1>10. CASE SeeExit
    BY <1>10 DEF SeeExit, Select, Running, Drained, TypeOK, pumpVars, actorVars
<1>11. CASE Escalate
    BY <1>11 DEF Escalate, Select, Running, Drained, TypeOK, pumpVars, actorVars
<1>12. CASE AbortTasks
    BY <1>12 DEF AbortTasks, Drained, TypeOK, pumpVars, actorVars
<1>13. CASE MarkClosed
    BY <1>13 DEF MarkClosed, Drained, TypeOK, pumpVars, actorVars
<1>14. CASE AppendClosed
    BY <1>14 DEF AppendClosed, Drained, TypeOK, pumpVars, actorVars
<1>15. CASE AnswerClosers
    BY <1>15 DEF AnswerClosers, Drained, TypeOK, pumpVars, actorVars
<1>16. CASE PullRegister
    BY <1>16 DEF PullRegister, Drained, TypeOK, pumpVars, actorVars
<1>17. CASE PullRead
    BY <1>17 DEF PullRead, Drained, TypeOK, pumpVars, actorVars
<1>18. CASE PullSleep
    BY <1>18 DEF PullSleep, Drained, TypeOK, pumpVars, actorVars
<1>19. CASE PullWoken
    BY <1>19 DEF PullWoken, Drained, TypeOK, pumpVars, actorVars
<1>20. CASE \E sig \in FirstSignals : HandleSignal(sig)
    BY <1>20 DEF HandleSignal, Drained, pumpVars, actorVars
<1>21. CASE \E k \in Closers, sig \in FirstSignals : HandleClose(k, sig)
    BY <1>21 DEF HandleClose, Drained, pumpVars, actorVars
<1>22. CASE \E k \in Closers : SendClose(k)
    BY <1>22 DEF SendClose, Drained, pumpVars, actorVars
<1>23. CASE UNCHANGED vars
    BY <1>23 DEF vars, Drained, pumpVars, actorVars
<1>. QED BY <1>1, <1>2, <1>3, <1>4, <1>5, <1>6, <1>7, <1>8, <1>9, <1>10, <1>11, <1>12, <1>13, <1>14, <1>15, <1>16, <1>17, <1>18, <1>19, <1>20, <1>21, <1>22, <1>23 DEF Next, PumpStep, ActorStep, PullStep

\* Nothing follows the exit but the closed entry, and each comes once.
LEMMA EntriesKept ==
    ASSUME TypeOK, Drained, ExitInLog, ClosedInLog, [Next]_vars
    PROVE  ExitInLog' /\ ClosedInLog'
<1>. DEFINE n == Len(log) + 1
<1>1. CASE PumpPush
    <2>1. /\ \A y : Positions(y)' = IF y = "out" THEN Positions(y) \cup {n} ELSE Positions(y)
          /\ UNCHANGED <<exitAppended, actor>>
        BY <1>1, AppendPositions DEF PumpPush, TypeOK, Items, actorVars
    <2>2. Positions("exit") = {}
        BY <1>1 DEF PumpPush, ExitInLog, Drained
    <2>. QED BY <2>1, <2>2 DEF ExitInLog, ClosedInLog
<1>2. CASE AppendExit
    <2>1. /\ \A y : Positions(y)' = IF y = "exit" THEN Positions(y) \cup {n} ELSE Positions(y)
          /\ \A y : \A i \in Positions(y) : i \in 1..Len(log)
          /\ Len(log) \in Nat
        BY <1>2, AppendPositions DEF AppendExit, TypeOK, Items
    <2>2. exitAppended' /\ ~exitAppended /\ UNCHANGED actor /\ actor = "loop"
        BY <1>2 DEF AppendExit, Running, ExitDue
    <2>3. Positions("exit") = {} /\ Positions("closed") = {}
        BY <2>2 DEF ExitInLog, ClosedInLog
    <2>4. Positions("exit")' = {n} /\ Positions("closed")' = {} /\ Positions("out")' = Positions("out")
        BY <2>1, <2>3
    <2>5. \A j \in Positions("out") : j < n
        BY <2>1
    <2>. QED BY <2>2, <2>4, <2>5 DEF ExitInLog, ClosedInLog
<1>3. CASE AppendClosed
    <2>1. /\ \A y : Positions(y)' = IF y = "closed" THEN Positions(y) \cup {n} ELSE Positions(y)
          /\ \A y : \A i \in Positions(y) : i \in 1..Len(log)
          /\ Len(log) \in Nat
        BY <1>3, AppendPositions DEF AppendClosed, TypeOK, Items
    <2>2. actor = "append" /\ actor' = "answer" /\ UNCHANGED exitAppended
        BY <1>3 DEF AppendClosed
    <2>3. Positions("closed") = {}
        BY <2>2 DEF ClosedInLog
    <2>4. Positions("closed")' = {n} /\ Positions("exit")' = Positions("exit")
          /\ Positions("out")' = Positions("out")
        BY <2>1, <2>3
    <2>5. \A i \in Positions("exit") : i < n
        BY <2>1
    <2>. QED BY <2>2, <2>4, <2>5 DEF ExitInLog, ClosedInLog
<1>4. CASE Silent
    <2>1. \A y : Positions(y)' = Positions(y)
        BY <1>4, SamePositions DEF Silent
    <2>. QED BY <1>4, <2>1 DEF Silent, ExitInLog, ClosedInLog
<1>. QED BY <1>1, <1>2, <1>3, <1>4, StepKinds

\* Only the last step of the actor, or a send to an actor that is gone, answers
\* a closer; and gone is the end.
LEMMA ResolutionKept ==
    ASSUME TypeOK, Resolution, [Next]_vars
    PROVE  Resolution'
<1>1. CASE \E k \in Closers : SendClose(k)
    BY <1>1 DEF SendClose, Resolution, TypeOK, actorVars
<1>2. CASE AnswerClosers
    BY <1>2 DEF AnswerClosers, Resolution
<1>3. CASE \E k \in Closers, sig \in FirstSignals : HandleClose(k, sig)
    BY <1>3 DEF HandleClose, Resolution, TypeOK
<1>4. CASE UNCHANGED closer /\ (actor = "gone" => actor' = "gone")
    BY <1>4 DEF Resolution
<1>5. ChildDies => UNCHANGED closer /\ (actor = "gone" => actor' = "gone")
    BY DEF ChildDies, actorVars
<1>6. PumpRead => UNCHANGED closer /\ (actor = "gone" => actor' = "gone")
    BY DEF PumpRead, actorVars
<1>7. PumpPush => UNCHANGED closer /\ (actor = "gone" => actor' = "gone")
    BY DEF PumpPush, actorVars
<1>8. PumpNotify => UNCHANGED closer /\ (actor = "gone" => actor' = "gone")
    BY DEF PumpNotify, actorVars
<1>9. PumpEof => UNCHANGED closer /\ (actor = "gone" => actor' = "gone")
    BY DEF PumpEof, actorVars
<1>10. PumpAborted => UNCHANGED closer /\ (actor = "gone" => actor' = "gone")
    BY DEF PumpAborted, actorVars
<1>11. AppendExit => UNCHANGED closer /\ (actor = "gone" => actor' = "gone")
    BY DEF AppendExit, Running, ExitDue, actorVars
<1>12. BreakLoop => UNCHANGED closer /\ (actor = "gone" => actor' = "gone")
    BY DEF BreakLoop, Running, actorVars
<1>13. SeeEof => UNCHANGED closer /\ (actor = "gone" => actor' = "gone")
    BY DEF SeeEof, Select, Running, actorVars
<1>14. SeeExit => UNCHANGED closer /\ (actor = "gone" => actor' = "gone")
    BY DEF SeeExit, Select, Running, actorVars
<1>15. Escalate => UNCHANGED closer /\ (actor = "gone" => actor' = "gone")
    BY DEF Escalate, Select, Running, actorVars
<1>16. AbortTasks => UNCHANGED closer /\ (actor = "gone" => actor' = "gone")
    BY DEF AbortTasks, actorVars
<1>17. MarkClosed => UNCHANGED closer /\ (actor = "gone" => actor' = "gone")
    BY DEF MarkClosed, actorVars
<1>18. AppendClosed => UNCHANGED closer /\ (actor = "gone" => actor' = "gone")
    BY DEF AppendClosed, actorVars
<1>19. PullRegister => UNCHANGED closer /\ (actor = "gone" => actor' = "gone")
    BY DEF PullRegister, actorVars
<1>20. PullRead => UNCHANGED closer /\ (actor = "gone" => actor' = "gone")
    BY DEF PullRead, actorVars
<1>21. PullSleep => UNCHANGED closer /\ (actor = "gone" => actor' = "gone")
    BY DEF PullSleep, actorVars
<1>22. PullWoken => UNCHANGED closer /\ (actor = "gone" => actor' = "gone")
    BY DEF PullWoken, actorVars
<1>23. \A sig \in FirstSignals : HandleSignal(sig) => UNCHANGED <<closer, actor>>
    BY DEF HandleSignal, actorVars
<1>24. UNCHANGED vars => UNCHANGED <<closer, actor>>
    BY DEF vars, actorVars
<1>. QED BY <1>1, <1>2, <1>3, <1>4, <1>5, <1>6, <1>7, <1>8, <1>9, <1>10, <1>11, <1>12, <1>13, <1>14, <1>15, <1>16, <1>17, <1>18, <1>19, <1>20, <1>21, <1>22, <1>23, <1>24 DEF Next, PumpStep, ActorStep, PullStep

-----------------------------------------------------------------------------
(* The pull *)

\* What a wake-up does to the pull.
LEMMA WakeEffect ==
    ASSUME puller \in PullerRec
    PROVE  /\ Wake.seen = puller.seen
           /\ Wake.at = puller.at
           /\ Wake.at \in {"check", "wait"} => Wake.woken
BY DEF Wake, PullerRec

\* The announced part of the log is never slept over.
LEMMA PullKept ==
    ASSUME TypeOK, PullInv, [Next]_vars
    PROVE  PullInv'
<1>1. puller \in PullerRec /\ puller.seen \in Nat /\ log \in Seq(Items) /\ Len(log) \in Nat
    BY DEF TypeOK, PullerRec
<1>. DEFINE Kept == UNCHANGED <<log, puller>> /\ (pump' = "pushed" <=> pump = "pushed")
<1>2. CASE Kept
    BY <1>1, <1>2 DEF PullInv, Unannounced
<1>3. CASE PumpPush
    <2>1. Len(log') = Len(log) + 1 /\ pump # "pushed" /\ pump' = "pushed" /\ UNCHANGED puller
        BY <1>1, <1>3, AppendPositions DEF PumpPush, Items
    <2>. QED BY <1>1, <2>1 DEF PullInv, Unannounced
<1>4. ASSUME puller' = Wake, Len(log') \in Nat, Len(log') >= Len(log)
      PROVE  PullInv'
    <2>1. puller'.seen <= Len(log')
        BY <1>1, <1>4, WakeEffect DEF PullInv
    <2>2. puller'.at \in {"check", "wait"} => puller'.woken
        BY <1>1, <1>4, WakeEffect
    <2>. QED BY <2>1, <2>2 DEF PullInv
<1>5. CASE PumpNotify
    BY <1>1, <1>4, <1>5 DEF PumpNotify
<1>6. CASE AppendExit
    <2>1. Len(log') = Len(log) + 1 /\ puller' = Wake
        BY <1>1, <1>6, AppendPositions DEF AppendExit, Items
    <2>. QED BY <1>1, <1>4, <2>1
<1>7. CASE AppendClosed
    <2>1. Len(log') = Len(log) + 1 /\ puller' = Wake
        BY <1>1, <1>7, AppendPositions DEF AppendClosed, Items
    <2>. QED BY <1>1, <1>4, <2>1
<1>8. CASE PullRegister
    <2>1. puller'.seen = puller.seen /\ puller'.at = "read" /\ UNCHANGED log
        BY <1>1, <1>8 DEF PullRegister, PullerRec
    <2>. QED BY <2>1 DEF PullInv
<1>9. CASE PullRead
    <2>1. UNCHANGED <<log, pump>>
        BY <1>9 DEF PullRead, pumpVars
    <2>2. CASE Len(log) > puller.seen
        <3>1. puller'.seen = Len(log) /\ puller'.at = "register"
            BY <1>1, <1>9, <2>2 DEF PullRead, PullerRec
        <3>. QED BY <1>1, <2>1, <3>1 DEF PullInv
    <2>3. CASE ~(Len(log) > puller.seen)
        <3>1. puller'.seen = puller.seen
            BY <1>1, <1>9, <2>3 DEF PullRead, PullerRec
        <3>. QED BY <1>1, <2>1, <2>3, <3>1 DEF PullInv, Unannounced
    <2>. QED BY <2>2, <2>3
<1>10. CASE PullSleep
    <2>1. /\ puller'.seen = puller.seen /\ puller'.woken = puller.woken /\ puller.at = "check"
          /\ UNCHANGED <<log, pump>>
        BY <1>1, <1>10 DEF PullSleep, PullerRec, pumpVars
    <2>. QED BY <2>1 DEF PullInv, Unannounced
<1>11. CASE PullWoken
    <2>1. puller'.seen = puller.seen /\ puller'.at = "register" /\ UNCHANGED log
        BY <1>1, <1>11 DEF PullWoken, PullerRec
    <2>. QED BY <2>1 DEF PullInv
<1>12. ChildDies => Kept
    BY DEF ChildDies, pumpVars
<1>13. PumpRead => Kept
    BY DEF PumpRead, pumpVars
<1>14. PumpEof => Kept
    BY DEF PumpEof, pumpVars
<1>15. PumpAborted => Kept
    BY DEF PumpAborted, pumpVars
<1>16. BreakLoop => Kept
    BY DEF BreakLoop, pumpVars
<1>17. SeeEof => Kept
    BY DEF SeeEof, pumpVars
<1>18. SeeExit => Kept
    BY DEF SeeExit, pumpVars
<1>19. Escalate => Kept
    BY DEF Escalate, pumpVars
<1>20. AbortTasks => Kept
    BY DEF AbortTasks, pumpVars
<1>21. MarkClosed => Kept
    BY DEF MarkClosed, pumpVars
<1>22. AnswerClosers => Kept
    BY DEF AnswerClosers, pumpVars
<1>23. \A sig \in FirstSignals : HandleSignal(sig) => Kept
    BY DEF HandleSignal, pumpVars
<1>24. \A k \in Closers, sig \in FirstSignals : HandleClose(k, sig) => Kept
    BY DEF HandleClose, pumpVars
<1>25. \A k \in Closers : SendClose(k) => Kept
    BY DEF SendClose, pumpVars
<1>26. UNCHANGED vars => Kept
    BY DEF vars, pumpVars
<1>. QED
    BY <1>2, <1>3, <1>5, <1>6, <1>7, <1>8, <1>9, <1>10, <1>11, <1>12, <1>13, <1>14, <1>15, <1>16, <1>17, <1>18, <1>19, <1>20, <1>21, <1>22, <1>23, <1>24, <1>25, <1>26
    DEF Next, PumpStep, ActorStep, PullStep

-----------------------------------------------------------------------------
(* Theorems *)

\* The inductive invariant: types, the drained output, the place of each entry
\* in the ring, and what an answered close implies.
THEOREM ActorInvariant == Spec => [](ActorInv /\ PullInv)
<1>1. Init => ActorInv /\ PullInv
    <2>. SUFFICES ASSUME Init PROVE ActorInv /\ PullInv
        OBVIOUS
    <2>1. TypeOK
        <3>1. closing \in ClosingRec
            BY DEF Init, NotClosing, ClosingRec
        <3>2. meta \in MetaRec
            BY DEF Init, MetaRec
        <3>3. puller \in PullerRec
            BY DEF Init, PullerRec
        <3>4. log \in Seq(Items) /\ closer \in [Closers -> {"idle", "sent", "joined", "resolved"}]
            BY DEF Init
        <3>5. aborted \in BOOLEAN /\ eof \in BOOLEAN
            BY Zenon DEF Init
        <3>6. exiting \in BOOLEAN /\ outputDone \in BOOLEAN /\ exitAppended \in BOOLEAN
            BY Zenon DEF Init
        <3>. QED BY <3>1, <3>2, <3>3, <3>4, <3>5, <3>6 DEF Init, TypeOK, ActorSteps
    <2>2. Drained /\ Resolution
        BY DEF Init, Drained, Resolution
    <2>3. \A y : Positions(y) = {}
        BY DEF Init, Positions
    <2>4. ExitInLog /\ ClosedInLog
        BY <2>3 DEF Init, ExitInLog, ClosedInLog
    <2>5. PullInv
        BY DEF Init, PullInv
    <2>. QED BY <2>1, <2>2, <2>4, <2>5 DEF ActorInv
<1>2. ActorInv /\ PullInv /\ [Next]_vars => (ActorInv /\ PullInv)'
    BY TypeKept, DrainedKept, EntriesKept, ResolutionKept, PullKept DEF ActorInv
<1>. QED BY <1>1, <1>2, PTL DEF Spec

\* A set with at most one member.
LEMMA AtMostOne ==
    ASSUME NEW S, \A i, j \in S : i = j
    PROVE  Cardinality(S) <= 1
<1>1. CASE S = {}
    BY <1>1, FS_EmptySet
<1>2. CASE S # {}
    <2>1. PICK x : S = {x}
        BY <1>2
    <2>. QED BY <2>1, FS_Singleton
<1>. QED BY <1>1, <1>2

\* `session.exit' is appended once, after all output and before
\* `session.closed', which is appended once, in whatever order the child's exit,
\* the end of its output, signals and closes arrive.
THEOREM ExitComesLast == Spec => []ExitIsFinal
<1>1. ActorInv => ExitIsFinal
    BY AtMostOne DEF ActorInv, ExitInLog, ClosedInLog, ExitIsFinal
<1>. QED BY <1>1, ActorInvariant, PTL

\* Every caller of close that has returned finds `Closed' in the ring, be it the
\* first, one that joined, or one whose command was dropped with the inbox.
THEOREM CloseMeansClosed == Spec => []ClosersResolveAfterClosed
<1>1. ActorInv => ClosersResolveAfterClosed
    BY DEF ActorInv, Resolution, ClosedInLog, ClosersResolveAfterClosed
<1>. QED BY <1>1, ActorInvariant, PTL

\* A pull that sleeps and has not been woken has seen everything in the ring,
\* but for a chunk the pump has pushed and is about to announce.
NoSleepOverAppend ==
    puller.at = "wait" /\ ~puller.woken /\ pump # "pushed" => puller.seen = Len(log)

\* No wake-up of a pull is lost: the safety half of PullSeesAppends, which needs
\* no fairness.
THEOREM PullIsWoken == Spec => []NoSleepOverAppend
<1>1. TypeOK /\ PullInv => NoSleepOverAppend
    <2>. SUFFICES ASSUME TypeOK, PullInv PROVE NoSleepOverAppend
        OBVIOUS
    <2>1. puller.seen \in Nat /\ Len(log) \in Nat
        BY DEF TypeOK, PullerRec
    <2>. QED BY <2>1 DEF PullInv, NoSleepOverAppend, Unannounced
<1>. QED BY <1>1, ActorInvariant, PTL DEF ActorInv
=============================================================================
