------------------------- MODULE ExecutorRpc_proofs -------------------------
(* Proofs about ExecutorRpc, for any calls, executions and timeouts: it      *)
(* implements ReplyChannel, because _cv, the flag looked at again under it   *)
(* and the busy loop let one caller at a time into the executor.             *)
EXTENDS ExecutorRpc, SequenceTheorems, TLAPS

\* A call not yet broadcast: nothing was given to it, and it did not give up.
Fresh(i) == i \notin calls /\ got[i] = None /\ i \notin gaveUp

\* Callers that have not reached the executor are fresh and queued nowhere.
BeforeQueue ==
    \A c \in Call : at[c] \in {"idle", "direct", "submit"} =>
        /\ Fresh(c) /\ c # task
        /\ \A k \in 1..Len(rpcQueue) : rpcQueue[k] # c

\* What is queued is fresh, queued once, and is not being served.
Queued ==
    \A k \in 1..Len(rpcQueue) :
        /\ Fresh(rpcQueue[k]) /\ rpcQueue[k] # task
        /\ \A m \in 1..Len(rpcQueue) : rpcQueue[m] = rpcQueue[k] => m = k

\* Before the flag is set nobody has queued anything, and the loop, if it runs
\* already, has nothing to do.
Window ==
    /\ started # "yes" /\ ~closed =>
           rpcQueue = <<>> /\ \A c \in Call : at[c] \notin {"submit", "waiting"}
    /\ started = "starting" => loop \in {"head", "wait"} /\ task = None /\ ~closed
    /\ started = "no" => loop \in {"none", "exited", "crashed"}
    /\ started = "no" /\ ~closed => loop = "none"
    /\ started = "yes" => loop # "none"
    /\ closer = "no" <=> ~closed
    /\ closer \in {"shut", "gone", "done"} => started = "no"

\* While a direct call holds _cv the loop is not running, or is stuck at the wait.
Holder ==
    lock # None =>
        /\ at[lock] = "inside" /\ calls = {lock} /\ task = None
        /\ \/ loop \in {"none", "exited", "crashed"}
           \/ loop \in {"head", "wait"} /\ rpcQueue = <<>> /\ ~closed

\* The loop is inside with the task it serves, or with an execution.
Serving ==
    /\ task # None => loop \in {"head", "mid", "final"} /\ step # "none"
    /\ task # None /\ step = "call" => calls = {task} /\ loop \in {"head", "mid"}
    /\ task = None => step = "none"
    /\ loop = "exec" => task = None /\ \E e \in Exec : calls = {e}

\* Nobody else is inside.
Alone ==
    /\ calls # {} => \/ lock # None
                     \/ task # None /\ step = "call"
                     \/ loop = "exec"
    /\ \A c \in Call : at[c] = "inside" => lock = c

-----------------------------------------------------------------------------
LEMMA HeadTail ==
    ASSUME NEW S, NEW s \in Seq(S), s # <<>>
    PROVE  /\ Head(s) \in S /\ Head(s) = s[1] /\ Tail(s) \in Seq(S)
           /\ Len(s) \in Nat /\ Len(s) >= 1 /\ Len(Tail(s)) = Len(s) - 1
           /\ \A k \in 1..Len(Tail(s)) : Tail(s)[k] = s[k + 1]
BY HeadTailProperties, EmptySeq, LenProperties

LEMMA Appended ==
    ASSUME NEW S, NEW s \in Seq(S), NEW x \in S
    PROVE  /\ Append(s, x) \in Seq(S) /\ Len(Append(s, x)) = Len(s) + 1
           /\ Len(s) \in Nat
           /\ \A k \in 1..Len(s) + 1 : Append(s, x)[k] = IF k = Len(s) + 1 THEN x ELSE s[k]
OBVIOUS

-----------------------------------------------------------------------------
(* The type invariant.                                                       *)

LEMMA HandBackType ==
    ASSUME RpcTypeOK, NEW i \in Item, NEW outcome \in {"result", "error"}, HandBack(i, outcome)
    PROVE  /\ lock' \in Call \cup {None}
           /\ at' \in [Call -> {"idle", "direct", "inside", "submit", "waiting", "returned", "raised", "timedout"}]
           /\ loop' \in {"none", "head", "wait", "exec", "mid", "final", "exited", "crashed"}
           /\ task' \in Call \cup {None} /\ step' \in {"none", "call", "check", "set"}
           /\ verdict' \in {"none", "result", "error"}
BY DEF HandBack, RpcTypeOK, loopVars

LEMMA BroadcastType ==
    ASSUME RpcTypeOK, NEW i \in Item, Broadcast(i)
    PROVE  /\ calls' \in SUBSET Item /\ wire' \in Seq(Item) /\ results' \in Seq(Item)
           /\ got' \in [Item -> Item \cup {None}] /\ gaveUp' \in SUBSET Item
BY Appended DEF Broadcast, RpcTypeOK

LEMMA RpcTypeNext ==
    ASSUME RpcTypeOK, [RpcNext]_rpcVars
    PROVE  RpcTypeOK'
<1> USE DEF RpcTypeOK
<1>1. ASSUME NEW c \in Call, Enter(c) PROVE RpcTypeOK'
      BY <1>1 DEF Enter, callerVars, loopVars, execVars, deathVars
<1>2. ASSUME NEW c \in Call, SubmitRpc(c) PROVE RpcTypeOK'
      BY <1>2 DEF SubmitRpc, callerVars, loopVars, execVars, deathVars
<1>3. ASSUME NEW c \in Call, CallReturns(c) PROVE RpcTypeOK'
      BY <1>3 DEF CallReturns, callerVars, loopVars, execVars, deathVars
<1>4. ASSUME NEW c \in Call, CallTimesOut(c) PROVE RpcTypeOK'
      BY <1>4 DEF CallTimesOut, callerVars, loopVars, execVars, deathVars
<1>5. ASSUME NEW c \in Call, DeadlinePasses(c) PROVE RpcTypeOK'
      BY <1>5 DEF DeadlinePasses, callerVars, loopVars, execVars, deathVars
<1>6. ASSUME NEW c \in Call, Direct(c) PROVE RpcTypeOK'
      <2>1. c \in Item
            BY <1>6, BroadcastType DEF Item
      <2>2. CASE started = "yes"
            BY <1>6, <2>1, <2>2 DEF Direct, callerVars, loopVars, execVars, deathVars
      <2>3. CASE started # "yes" /\ exClosed
            BY <1>6, <2>1, <2>3 DEF Direct, callerVars, loopVars, execVars, deathVars
      <2>4. CASE started # "yes" /\ ~exClosed
            BY <1>6, <2>1, <2>4, BroadcastType DEF Direct, callerVars, loopVars, execVars, deathVars
      <2> QED BY <1>6, <2>2, <2>3, <2>4 DEF Direct
<1>7. CASE StartLoop
      BY <1>7 DEF StartLoop, callerVars, loopVars, execVars, deathVars
<1>8. CASE SetStarted
      BY <1>8 DEF SetStarted, callerVars, loopVars, execVars, deathVars
<1>9. CASE CheckDone
      BY <1>9 DEF CheckDone, callerVars, loopVars, execVars, deathVars
<1>10. CASE SetOutcome
      BY <1>10 DEF SetOutcome, callerVars, loopVars, execVars, deathVars
<1>11. CASE Drained
      BY <1>11 DEF Drained, callerVars, loopVars, execVars, deathVars
<1>12. CASE LoopWakes
      BY <1>12 DEF LoopWakes, callerVars, loopVars, execVars, deathVars
<1>13. CASE WorkerDies
      BY <1>13 DEF WorkerDies, callerVars, loopVars, execVars, deathVars
<1>14. CASE WorkerEnds
      BY <1>14 DEF WorkerEnds, callerVars, loopVars, execVars, deathVars
<1>15. CASE CloseBegin
      BY <1>15 DEF CloseBegin, callerVars, loopVars, execVars, deathVars
<1>16. CASE CloseJoin
      BY <1>16 DEF CloseJoin, callerVars, loopVars, execVars, deathVars
<1>17. CASE MonitorWakes
      <2>1. CASE exClosed
            BY <1>17, <2>1 DEF MonitorWakes, callerVars, loopVars, execVars, deathVars
      <2>2. CASE ~exClosed
            BY <1>17, <2>2 DEF MonitorWakes, callerVars, loopVars, execVars, deathVars
      <2> QED BY <1>17, <2>1, <2>2 DEF MonitorWakes
<1>18. CASE MonitorShuts
      <2>1. monitor' \in {"gone", "done"} /\ exClosed' \in BOOLEAN /\ mqOpen' \in BOOLEAN
            BY <1>18 DEF MonitorShuts
      <2>2. UNCHANGED <<at, fut, late, rpcQueue, lock, started, loop, task, step, verdict, closed, closer,
                       calls, wire, results, got, gaveUp, workers, isFailed>>
            BY <1>18 DEF MonitorShuts, callerVars, loopVars, execVars, deathVars
      <2> QED BY <2>1, <2>2
<1>19. CASE CloseShuts
      <2>1. closer' \in {"gone", "done"} /\ exClosed' \in BOOLEAN /\ mqOpen' \in BOOLEAN
            BY <1>19 DEF CloseShuts
      <2>2. UNCHANGED <<at, fut, late, rpcQueue, lock, started, loop, task, step, verdict, closed,
                       calls, wire, results, got, gaveUp, workers, isFailed, monitor>>
            BY <1>19 DEF CloseShuts, callerVars, loopVars, execVars, deathVars
      <2> QED BY <2>1, <2>2
<1>20. ASSUME NEW e \in Exec, LoopExecutes(e) PROVE RpcTypeOK'
      <2>1. e \in Item
            BY <1>20, BroadcastType DEF Item
      <2>2. CASE exClosed
            BY <1>20, <2>1, <2>2 DEF LoopExecutes, callerVars, loopVars, execVars, deathVars
      <2>3. CASE ~exClosed
            BY <1>20, <2>1, <2>3, BroadcastType DEF LoopExecutes, callerVars, loopVars, execVars, deathVars
      <2> QED BY <1>20, <2>2, <2>3 DEF LoopExecutes
<1>21. CASE TakeTask
      <2>1. Head(rpcQueue) \in Call /\ Head(rpcQueue) \in Item /\ Tail(rpcQueue) \in Seq(Call)
            BY <1>21, HeadTail DEF TakeTask, Item
      <2>2. CASE fut[Head(rpcQueue)] # "pending"
            BY <1>21, <2>1, <2>2 DEF TakeTask, callerVars, loopVars, execVars, deathVars
      <2>3. CASE fut[Head(rpcQueue)] = "pending" /\ (Head(rpcQueue) \in late \/ exClosed)
            BY <1>21, <2>1, <2>3 DEF TakeTask, callerVars, loopVars, execVars, deathVars
      <2>4. CASE fut[Head(rpcQueue)] = "pending" /\ ~(Head(rpcQueue) \in late \/ exClosed)
            BY <1>21, <2>1, <2>4, BroadcastType DEF TakeTask, callerVars, loopVars, execVars, deathVars
      <2> QED BY <1>21, <2>2, <2>3, <2>4 DEF TakeTask
<1>22. CASE FailPending
      <2>3. rpcQueue # <<>> => Head(rpcQueue) \in Call /\ Tail(rpcQueue) \in Seq(Call)
            BY HeadTail
      <2>1. rpcQueue' \in Seq(Call) /\ task' \in Call \cup {None} /\ step' \in {"none", "call", "check", "set"}
           /\ verdict' \in {"none", "result", "error"} /\ loop' \in {"final", "exited"}
            BY <1>22, <2>3 DEF FailPending
      <2>2. UNCHANGED <<at, fut, late, lock, started, closed, closer, calls, wire, results, got, gaveUp,
                       workers, isFailed, exClosed, mqOpen, monitor>>
            BY <1>22 DEF FailPending, callerVars, loopVars, execVars, deathVars
      <2> QED BY <2>1, <2>2
<1>23. ASSUME NEW i \in Item, ExecutorReply(i) PROVE RpcTypeOK'
      <2>1. Head(results) \in Item /\ Tail(results) \in Seq(Item)
            BY <1>23, HeadTail DEF ExecutorReply
      <2> QED BY <1>23, <2>1, HandBackType DEF ExecutorReply, execVars, deathVars
<1>24. ASSUME NEW i \in Item, ExecutorRaise(i) PROVE RpcTypeOK'
      BY <1>24, HandBackType DEF ExecutorRaise, execVars, deathVars
<1>25. CASE WorkerServes
      <2>1. Head(wire) \in Item /\ Tail(wire) \in Seq(Item)
            BY <1>25, HeadTail DEF WorkerServes
      <2> QED BY <1>25, <2>1 DEF WorkerServes, callerVars, loopVars, execVars, deathVars
<1>26. CASE UNCHANGED rpcVars
      BY <1>26 DEF rpcVars, callerVars, loopVars, execVars, deathVars
<1> HIDE DEF RpcTypeOK
<1> QED BY <1>1, <1>2, <1>3, <1>4, <1>5, <1>6, <1>7, <1>8, <1>9, <1>10, <1>11, <1>12, <1>13, <1>14, <1>15, <1>16, <1>17, <1>18, <1>19, <1>20, <1>21, <1>22, <1>23, <1>24, <1>25, <1>26
        DEF RpcNext, Caller, BusyLoop, Executor, Monitor, Closing
-----------------------------------------------------------------------------
(* The inductive invariant.                                                 *)

Parts == BeforeQueue /\ Queued /\ Window /\ Holder /\ Serving /\ Alone

\* The variables the parts speak of, all but what the callers' threads do.
core == <<at, rpcQueue, lock, started, loop, task, step, closed, closer, calls, got, gaveUp>>

LEMMA CoreUnchanged ==
    ASSUME Parts, UNCHANGED core
    PROVE  Parts'
BY DEF core, Parts, BeforeQueue, Queued, Window, Holder, Serving, Alone, Fresh

LEMMA EnterInv ==
    ASSUME RpcTypeOK, Parts, NEW c \in Call, Enter(c)
    PROVE  Parts'
<1> USE RpcAssumption DEF Parts, RpcTypeOK, Item
<1>1. BeforeQueue'
      BY DEF Enter, BeforeQueue, Fresh, callerVars, loopVars, execVars, deathVars
<1>2. Queued'
      BY DEF Enter, Queued, Fresh, callerVars, loopVars, execVars, deathVars
<1>3. Window'
      BY DEF Enter, Window, callerVars, loopVars, execVars, deathVars
<1>4. Holder'
      BY DEF Enter, Holder, callerVars, loopVars, execVars, deathVars
<1>5. Serving'
      BY DEF Enter, Serving, callerVars, loopVars, execVars, deathVars
<1>6. Alone'
      BY DEF Enter, Alone, callerVars, loopVars, execVars, deathVars
<1> QED BY <1>1, <1>2, <1>3, <1>4, <1>5, <1>6

LEMMA DirectInv ==
    ASSUME RpcTypeOK, Parts, NEW c \in Call, Direct(c)
    PROVE  Parts'
<1> USE RpcAssumption DEF Parts, RpcTypeOK, Item
<1>1. BeforeQueue'
      BY DEF Direct, Broadcast, BeforeQueue, Queued, Fresh, callerVars, loopVars, execVars, deathVars
<1>2. Queued'
      BY DEF Direct, Broadcast, Queued, BeforeQueue, Fresh, callerVars, loopVars, execVars, deathVars
<1>3. Window'
      BY DEF Direct, Broadcast, Window, callerVars, loopVars, execVars, deathVars
<1>4. Holder'
      BY DEF Direct, Broadcast, Holder, Window, Serving, Alone, callerVars, loopVars, execVars, deathVars
<1>5. Serving'
      BY DEF Direct, Broadcast, Serving, Window, Alone, Holder, callerVars, loopVars, execVars, deathVars
<1>6. Alone'
      BY DEF Direct, Broadcast, Alone, Holder, callerVars, loopVars, execVars, deathVars
<1> QED BY <1>1, <1>2, <1>3, <1>4, <1>5, <1>6

LEMMA SubmitInv ==
    ASSUME RpcTypeOK, Parts, NEW c \in Call, SubmitRpc(c)
    PROVE  Parts'
<1> USE RpcAssumption DEF Parts, RpcTypeOK, Item
<1>1. Len(rpcQueue') = Len(rpcQueue) + 1 /\ Len(rpcQueue) \in Nat
       /\ \A k \in 1..Len(rpcQueue') : rpcQueue'[k] = IF k = Len(rpcQueue) + 1 THEN c ELSE rpcQueue[k]
      BY Appended DEF SubmitRpc
<1>2. BeforeQueue'
      BY <1>1 DEF SubmitRpc, BeforeQueue, Fresh, callerVars, loopVars, execVars, deathVars
<1>3. Queued'
      BY <1>1 DEF SubmitRpc, Queued, BeforeQueue, Fresh, callerVars, loopVars, execVars, deathVars
<1>4. Window'
      BY <1>1 DEF SubmitRpc, Window, callerVars, loopVars, execVars, deathVars
<1>5. Holder'
      BY <1>1 DEF SubmitRpc, Holder, callerVars, loopVars, execVars, deathVars
<1>6. Serving'
      BY <1>1 DEF SubmitRpc, Serving, callerVars, loopVars, execVars, deathVars
<1>7. Alone'
      BY <1>1 DEF SubmitRpc, Alone, callerVars, loopVars, execVars, deathVars
<1> QED BY <1>2, <1>3, <1>4, <1>5, <1>6, <1>7

LEMMA ReturnsInv ==
    ASSUME RpcTypeOK, Parts, NEW c \in Call, CallReturns(c)
    PROVE  Parts'
<1> USE RpcAssumption DEF Parts, RpcTypeOK, Item
<1>1. BeforeQueue'
      BY DEF CallReturns, BeforeQueue, Fresh, callerVars, loopVars, execVars, deathVars
<1>2. Queued'
      BY DEF CallReturns, Queued, Fresh, callerVars, loopVars, execVars, deathVars
<1>3. Window'
      BY DEF CallReturns, Window, callerVars, loopVars, execVars, deathVars
<1>4. Holder'
      BY DEF CallReturns, Holder, callerVars, loopVars, execVars, deathVars
<1>5. Serving'
      BY DEF CallReturns, Serving, callerVars, loopVars, execVars, deathVars
<1>6. Alone'
      BY DEF CallReturns, Alone, callerVars, loopVars, execVars, deathVars
<1> QED BY <1>1, <1>2, <1>3, <1>4, <1>5, <1>6

LEMMA TimesOutInv ==
    ASSUME RpcTypeOK, Parts, NEW c \in Call, CallTimesOut(c)
    PROVE  Parts'
<1> USE RpcAssumption DEF Parts, RpcTypeOK, Item
<1>1. BeforeQueue'
      BY DEF CallTimesOut, BeforeQueue, Fresh, callerVars, loopVars, execVars, deathVars
<1>2. Queued'
      BY DEF CallTimesOut, Queued, Fresh, callerVars, loopVars, execVars, deathVars
<1>3. Window'
      BY DEF CallTimesOut, Window, callerVars, loopVars, execVars, deathVars
<1>4. Holder'
      BY DEF CallTimesOut, Holder, callerVars, loopVars, execVars, deathVars
<1>5. Serving'
      BY DEF CallTimesOut, Serving, callerVars, loopVars, execVars, deathVars
<1>6. Alone'
      BY DEF CallTimesOut, Alone, callerVars, loopVars, execVars, deathVars
<1> QED BY <1>1, <1>2, <1>3, <1>4, <1>5, <1>6

LEMMA StartInv ==
    ASSUME RpcTypeOK, Parts, StartLoop
    PROVE  Parts'
<1> USE RpcAssumption DEF Parts, RpcTypeOK, Item
<1>1. started = "no" /\ closer = "no" /\ task = None
      BY DEF StartLoop, Window, Serving
<1>2. BeforeQueue'
      BY <1>1 DEF StartLoop, BeforeQueue, Fresh, callerVars, loopVars, execVars, deathVars
<1>3. Queued'
      BY <1>1 DEF StartLoop, Queued, Fresh, callerVars, loopVars, execVars, deathVars
<1>4. Window'
      BY <1>1 DEF StartLoop, Window, Serving, callerVars, loopVars, execVars, deathVars
<1>5. Holder'
      BY <1>1 DEF StartLoop, Holder, Window, callerVars, loopVars, execVars, deathVars
<1>6. Serving'
      BY <1>1 DEF StartLoop, Serving, Alone, callerVars, loopVars, execVars, deathVars
<1>7. Alone'
      BY <1>1 DEF StartLoop, Alone, callerVars, loopVars, execVars, deathVars
<1> QED BY <1>2, <1>3, <1>4, <1>5, <1>6, <1>7

LEMMA SetStartedInv ==
    ASSUME RpcTypeOK, Parts, SetStarted
    PROVE  Parts'
<1> USE RpcAssumption DEF Parts, RpcTypeOK, Item
<1>1. BeforeQueue'
      BY DEF SetStarted, BeforeQueue, Fresh, callerVars, loopVars, execVars, deathVars
<1>2. Queued'
      BY DEF SetStarted, Queued, Fresh, callerVars, loopVars, execVars, deathVars
<1>3. Window'
      BY DEF SetStarted, Window, callerVars, loopVars, execVars, deathVars
<1>4. Holder'
      BY DEF SetStarted, Holder, callerVars, loopVars, execVars, deathVars
<1>5. Serving'
      BY DEF SetStarted, Serving, callerVars, loopVars, execVars, deathVars
<1>6. Alone'
      BY DEF SetStarted, Alone, callerVars, loopVars, execVars, deathVars
<1> QED BY <1>1, <1>2, <1>3, <1>4, <1>5, <1>6

LEMMA TakeTaskInv ==
    ASSUME RpcTypeOK, Parts, TakeTask
    PROVE  Parts'
<1> USE RpcAssumption DEF Parts, RpcTypeOK, Item
<1>1. Len(rpcQueue') = Len(rpcQueue) - 1 /\ Len(rpcQueue) \in Nat /\ Len(rpcQueue) >= 1 /\ Head(rpcQueue) = rpcQueue[1]
       /\ \A k \in 1..Len(rpcQueue') : rpcQueue'[k] = rpcQueue[k + 1]
      BY HeadTail DEF TakeTask
<1>2. BeforeQueue'
      BY <1>1 DEF TakeTask, Broadcast, BeforeQueue, Fresh, callerVars, loopVars, execVars, deathVars
<1>3. Queued'
      BY <1>1 DEF TakeTask, Broadcast, Queued, Fresh, callerVars, loopVars, execVars, deathVars
<1>4. Window'
      BY <1>1 DEF TakeTask, Broadcast, Window, callerVars, loopVars, execVars, deathVars
<1>5. Holder'
      BY <1>1 DEF TakeTask, Broadcast, Holder, callerVars, loopVars, execVars, deathVars
<1>6. Serving'
      BY <1>1 DEF TakeTask, Broadcast, Serving, Holder, Alone, callerVars, loopVars, execVars, deathVars
<1>7. Alone'
      BY <1>1 DEF TakeTask, Broadcast, Alone, Holder, callerVars, loopVars, execVars, deathVars
<1> QED BY <1>2, <1>3, <1>4, <1>5, <1>6, <1>7

LEMMA CheckDoneInv ==
    ASSUME RpcTypeOK, Parts, CheckDone
    PROVE  Parts'
<1> USE RpcAssumption DEF Parts, RpcTypeOK, Item
<1>1. BeforeQueue'
      BY DEF CheckDone, BeforeQueue, Fresh, callerVars, loopVars, execVars, deathVars
<1>2. Queued'
      BY DEF CheckDone, Queued, Fresh, callerVars, loopVars, execVars, deathVars
<1>3. Window'
      BY DEF CheckDone, Window, callerVars, loopVars, execVars, deathVars
<1>4. Holder'
      BY DEF CheckDone, Holder, Serving, callerVars, loopVars, execVars, deathVars
<1>5. Serving'
      BY DEF CheckDone, Serving, callerVars, loopVars, execVars, deathVars
<1>6. Alone'
      BY DEF CheckDone, Alone, Serving, callerVars, loopVars, execVars, deathVars
<1> QED BY <1>1, <1>2, <1>3, <1>4, <1>5, <1>6

LEMMA SetOutcomeInv ==
    ASSUME RpcTypeOK, Parts, SetOutcome
    PROVE  Parts'
<1> USE RpcAssumption DEF Parts, RpcTypeOK, Item
<1>1. BeforeQueue'
      BY DEF SetOutcome, BeforeQueue, Fresh, callerVars, loopVars, execVars, deathVars
<1>2. Queued'
      BY DEF SetOutcome, Queued, Fresh, callerVars, loopVars, execVars, deathVars
<1>3. Window'
      BY DEF SetOutcome, Window, Serving, callerVars, loopVars, execVars, deathVars
<1>4. Holder'
      BY DEF SetOutcome, Holder, callerVars, loopVars, execVars, deathVars
<1>5. Serving'
      BY DEF SetOutcome, Serving, callerVars, loopVars, execVars, deathVars
<1>6. Alone'
      BY DEF SetOutcome, Alone, Serving, Holder, callerVars, loopVars, execVars, deathVars
<1> QED BY <1>1, <1>2, <1>3, <1>4, <1>5, <1>6

LEMMA DrainedInv ==
    ASSUME RpcTypeOK, Parts, Drained
    PROVE  Parts'
<1> USE RpcAssumption DEF Parts, RpcTypeOK, Item
<1>1. BeforeQueue'
      BY DEF Drained, BeforeQueue, Fresh, callerVars, loopVars, execVars, deathVars
<1>2. Queued'
      BY DEF Drained, Queued, Fresh, callerVars, loopVars, execVars, deathVars
<1>3. Window'
      BY DEF Drained, Window, callerVars, loopVars, execVars, deathVars
<1>4. Holder'
      BY DEF Drained, Holder, callerVars, loopVars, execVars, deathVars
<1>5. Serving'
      BY DEF Drained, Serving, callerVars, loopVars, execVars, deathVars
<1>6. Alone'
      BY DEF Drained, Alone, callerVars, loopVars, execVars, deathVars
<1> QED BY <1>1, <1>2, <1>3, <1>4, <1>5, <1>6

LEMMA LoopWakesInv ==
    ASSUME RpcTypeOK, Parts, LoopWakes
    PROVE  Parts'
<1> USE RpcAssumption DEF Parts, RpcTypeOK, Item
<1>1. BeforeQueue'
      BY DEF LoopWakes, BeforeQueue, Fresh, callerVars, loopVars, execVars, deathVars
<1>2. Queued'
      BY DEF LoopWakes, Queued, Fresh, callerVars, loopVars, execVars, deathVars
<1>3. Window'
      BY DEF LoopWakes, Window, callerVars, loopVars, execVars, deathVars
<1>4. Holder'
      BY DEF LoopWakes, Holder, callerVars, loopVars, execVars, deathVars
<1>5. Serving'
      BY DEF LoopWakes, Serving, callerVars, loopVars, execVars, deathVars
<1>6. Alone'
      BY DEF LoopWakes, Alone, callerVars, loopVars, execVars, deathVars
<1> QED BY <1>1, <1>2, <1>3, <1>4, <1>5, <1>6

LEMMA LoopExecutesInv ==
    ASSUME RpcTypeOK, Parts, NEW e \in Exec, LoopExecutes(e)
    PROVE  Parts'
<1> USE RpcAssumption DEF Parts, RpcTypeOK, Item
<1>1. BeforeQueue'
      BY DEF LoopExecutes, Broadcast, BeforeQueue, Fresh, callerVars, loopVars, execVars, deathVars
<1>2. Queued'
      BY DEF LoopExecutes, Broadcast, Queued, Fresh, callerVars, loopVars, execVars, deathVars
<1>3. Window'
      BY DEF LoopExecutes, Broadcast, Window, callerVars, loopVars, execVars, deathVars
<1>4. Holder'
      BY DEF LoopExecutes, Broadcast, Holder, callerVars, loopVars, execVars, deathVars
<1>5. Serving'
      <2>1. calls = {} /\ task = None /\ task' = None /\ step' = step /\ step = "none"
            BY DEF LoopExecutes, Serving, Alone, loopVars
      <2>2. CASE exClosed
            BY <2>1, <2>2 DEF LoopExecutes, Serving
      <2>3. CASE ~exClosed
            BY <2>1, <2>3 DEF LoopExecutes, Broadcast, Serving
      <2> QED BY <2>2, <2>3
<1>6. Alone'
      BY DEF LoopExecutes, Broadcast, Alone, Serving, callerVars, loopVars, execVars, deathVars
<1> QED BY <1>1, <1>2, <1>3, <1>4, <1>5, <1>6

LEMMA FailPendingInv ==
    ASSUME RpcTypeOK, Parts, FailPending
    PROVE  Parts'
<1> USE RpcAssumption DEF Parts, RpcTypeOK, Item
<1>1. CASE rpcQueue = <<>>
      BY <1>1 DEF FailPending, BeforeQueue, Queued, Window, Holder, Serving, Alone, Fresh,
                  callerVars, execVars
<1>2. CASE rpcQueue # <<>>
      <2>1. /\ Len(Tail(rpcQueue)) = Len(rpcQueue) - 1 /\ Len(rpcQueue) \in Nat /\ Len(rpcQueue) >= 1
            /\ Head(rpcQueue) = rpcQueue[1] /\ rpcQueue[1] \in Call
            /\ \A k \in 1..Len(Tail(rpcQueue)) : Tail(rpcQueue)[k] = rpcQueue[k + 1]
            BY <1>2, HeadTail
      <2>2. /\ UNCHANGED <<at, lock, started, loop, closed, closer, calls, got, gaveUp>>
            /\ rpcQueue' = Tail(rpcQueue) /\ task' = Head(rpcQueue)
            /\ step' = "check" /\ task = None /\ loop = "final"
            BY <1>2 DEF FailPending, callerVars, execVars
      <2>3. BeforeQueue'
            BY <2>1, <2>2 DEF BeforeQueue, Fresh
      <2>4. Queued'
            BY <2>1, <2>2 DEF Queued, Fresh
      <2>5. Window'
            BY <2>1, <2>2 DEF Window
      <2>6. Holder' /\ Serving' /\ Alone'
            BY <2>1, <2>2 DEF Holder, Serving, Alone
      <2> QED BY <2>3, <2>4, <2>5, <2>6
<1> QED BY <1>1, <1>2

LEMMA ReplyInv ==
    ASSUME RpcTypeOK, Parts, NEW i \in Item, ExecutorReply(i)
    PROVE  Parts'
<1> USE RpcAssumption DEF Parts, RpcTypeOK, Item
<1>1. BeforeQueue'
      BY DEF ExecutorReply, HandBack, BeforeQueue, Holder, Serving, Fresh, callerVars, loopVars, execVars, deathVars
<1>2. Queued'
      BY DEF ExecutorReply, HandBack, Queued, Holder, Serving, Fresh, callerVars, loopVars, execVars, deathVars
<1>3. Window'
      BY DEF ExecutorReply, HandBack, Window, Serving, Alone, Holder, callerVars, loopVars, execVars, deathVars
<1>4. Holder'
      BY DEF ExecutorReply, HandBack, Holder, Serving, callerVars, loopVars, execVars, deathVars
<1>5. Serving'
      BY DEF ExecutorReply, HandBack, Serving, Holder, callerVars, loopVars, execVars, deathVars
<1>6. Alone'
      BY DEF ExecutorReply, HandBack, Alone, Holder, Serving, callerVars, loopVars, execVars, deathVars
<1> QED BY <1>1, <1>2, <1>3, <1>4, <1>5, <1>6

LEMMA RaiseInv ==
    ASSUME RpcTypeOK, Parts, NEW i \in Item, ExecutorRaise(i)
    PROVE  Parts'
<1> USE RpcAssumption DEF Parts, RpcTypeOK, Item
<1>1. BeforeQueue'
      BY DEF ExecutorRaise, HandBack, BeforeQueue, Holder, Serving, Fresh, callerVars, loopVars, execVars, deathVars
<1>2. Queued'
      BY DEF ExecutorRaise, HandBack, Queued, Holder, Serving, Fresh, callerVars, loopVars, execVars, deathVars
<1>3. Window'
      BY DEF ExecutorRaise, HandBack, Window, Serving, Alone, Holder, callerVars, loopVars, execVars, deathVars
<1>4. Holder'
      BY DEF ExecutorRaise, HandBack, Holder, Serving, callerVars, loopVars, execVars, deathVars
<1>5. Serving'
      BY DEF ExecutorRaise, HandBack, Serving, Holder, callerVars, loopVars, execVars, deathVars
<1>6. Alone'
      BY DEF ExecutorRaise, HandBack, Alone, Holder, Serving, callerVars, loopVars, execVars, deathVars
<1> QED BY <1>1, <1>2, <1>3, <1>4, <1>5, <1>6

LEMMA CloseBeginInv ==
    ASSUME RpcTypeOK, Parts, CloseBegin
    PROVE  Parts'
<1> USE RpcAssumption DEF Parts, RpcTypeOK, Item
<1>1. BeforeQueue'
      BY DEF CloseBegin, BeforeQueue, Fresh, callerVars, loopVars, execVars, deathVars
<1>2. Queued'
      BY DEF CloseBegin, Queued, Fresh, callerVars, loopVars, execVars, deathVars
<1>3. Window'
      BY DEF CloseBegin, Window, callerVars, loopVars, execVars, deathVars
<1>4. Holder'
      BY DEF CloseBegin, Holder, callerVars, loopVars, execVars, deathVars
<1>5. Serving'
      BY DEF CloseBegin, Serving, callerVars, loopVars, execVars, deathVars
<1>6. Alone'
      BY DEF CloseBegin, Alone, callerVars, loopVars, execVars, deathVars
<1> QED BY <1>1, <1>2, <1>3, <1>4, <1>5, <1>6

LEMMA CloseJoinInv ==
    ASSUME RpcTypeOK, Parts, CloseJoin
    PROVE  Parts'
<1> USE RpcAssumption DEF Parts, RpcTypeOK, Item
<1>1. BeforeQueue'
      BY DEF CloseJoin, BeforeQueue, Fresh, callerVars, loopVars, execVars, deathVars
<1>2. Queued'
      BY DEF CloseJoin, Queued, Fresh, callerVars, loopVars, execVars, deathVars
<1>3. Window'
      BY DEF CloseJoin, Window, callerVars, loopVars, execVars, deathVars
<1>4. Holder'
      BY DEF CloseJoin, Holder, callerVars, loopVars, execVars, deathVars
<1>5. Serving'
      BY DEF CloseJoin, Serving, callerVars, loopVars, execVars, deathVars
<1>6. Alone'
      BY DEF CloseJoin, Alone, callerVars, loopVars, execVars, deathVars
<1> QED BY <1>1, <1>2, <1>3, <1>4, <1>5, <1>6

LEMMA CloseShutsInv ==
    ASSUME RpcTypeOK, Parts, CloseShuts
    PROVE  Parts'
<1> USE RpcAssumption DEF Parts, RpcTypeOK, Item
<1>1. BeforeQueue'
      BY DEF CloseShuts, BeforeQueue, Fresh, callerVars, loopVars, execVars, deathVars
<1>2. Queued'
      BY DEF CloseShuts, Queued, Fresh, callerVars, loopVars, execVars, deathVars
<1>3. Window'
      BY DEF CloseShuts, Window, callerVars, loopVars, execVars, deathVars
<1>4. Holder'
      BY DEF CloseShuts, Holder, callerVars, loopVars, execVars, deathVars
<1>5. Serving'
      BY DEF CloseShuts, Serving, callerVars, loopVars, execVars, deathVars
<1>6. Alone'
      BY DEF CloseShuts, Alone, callerVars, loopVars, execVars, deathVars
<1> QED BY <1>1, <1>2, <1>3, <1>4, <1>5, <1>6

LEMMA RpcInitInv == RpcInit => RpcTypeOK /\ Parts
<1> SUFFICES ASSUME RpcInit PROVE RpcTypeOK /\ Parts
    OBVIOUS
<1> USE RpcAssumption, EmptySeq DEF RpcInit, Item
<1>1. RpcTypeOK
      BY DEF RpcTypeOK
<1>2. BeforeQueue /\ Queued
      BY DEF BeforeQueue, Queued, Fresh
<1>3. Window /\ Holder /\ Serving /\ Alone
      BY DEF Window, Holder, Serving, Alone
<1> QED BY <1>1, <1>2, <1>3 DEF Parts

LEMMA PartsNext ==
    ASSUME RpcTypeOK, Parts, [RpcNext]_rpcVars
    PROVE  Parts'
<1>1. ASSUME NEW c \in Call, Caller(c) PROVE Parts'
      BY <1>1, EnterInv, DirectInv, SubmitInv, ReturnsInv, TimesOutInv DEF Caller
<1>2. ASSUME NEW c \in Call, DeadlinePasses(c) PROVE Parts'
      BY <1>2, CoreUnchanged DEF DeadlinePasses, core, loopVars, execVars
<1>3. CASE StartLoop \/ SetStarted
      BY <1>3, StartInv, SetStartedInv
<1>4. CASE BusyLoop
      BY <1>4, TakeTaskInv, CheckDoneInv, SetOutcomeInv, DrainedInv, LoopWakesInv,
         FailPendingInv, LoopExecutesInv DEF BusyLoop
<1>5. CASE Executor
      BY <1>5, ReplyInv, RaiseInv DEF Executor
<1>6. CASE WorkerServes \/ WorkerDies \/ WorkerEnds
      BY <1>6, CoreUnchanged DEF WorkerServes, WorkerDies, WorkerEnds, core, callerVars, loopVars, execVars
<1>7. CASE Monitor
      BY <1>7, CoreUnchanged DEF Monitor, MonitorWakes, MonitorShuts, core, callerVars, loopVars, execVars
<1>8. CASE CloseBegin \/ Closing
      BY <1>8, CloseBeginInv, CloseJoinInv, CloseShutsInv DEF Closing
<1>9. CASE UNCHANGED rpcVars
      BY <1>9, CoreUnchanged DEF rpcVars, core, callerVars, loopVars, execVars
<1> QED BY <1>1, <1>2, <1>3, <1>4, <1>5, <1>6, <1>7, <1>8, <1>9 DEF RpcNext

LEMMA RpcInvariant == RpcSafety => [](RpcTypeOK /\ Parts)
BY RpcInitInv, RpcTypeNext, PartsNext, PTL DEF RpcSafety

\* Every variable keeps its shape: a deadline passes only for a call that set one.
THEOREM RpcTypeCorrect == RpcSafety => []RpcTypeOK
BY RpcInvariant, PTL

-----------------------------------------------------------------------------
(* What the callers are told.                                                *)

Pending(c) == c = task \/ \E k \in 1..Len(rpcQueue) : rpcQueue[k] = c

\* A future that is not done is queued or being served; whoever is told of a
\* result was given a reply.
Told ==
    /\ \A c \in Call : fut[c] = "pending" => Pending(c)
    /\ \A c \in Call : at[c] = "returned" \/ fut[c] = "result" => got[c] # None
    /\ verdict = "result" => task # None /\ got[task] # None

toldVars == <<at, fut, rpcQueue, task, verdict, got>>

LEMMA ToldUnchanged ==
    ASSUME Told, UNCHANGED toldVars
    PROVE  Told'
BY DEF toldVars, Told, Pending

LEMMA CallerTold ==
    ASSUME RpcTypeOK, Parts, Told, NEW c \in Call, Caller(c)
    PROVE  Told'
<1> USE DEF RpcTypeOK
<1>1. CASE Enter(c)
      BY <1>1 DEF Enter, Told, Pending, loopVars, execVars
<1>2. CASE Direct(c)
      BY <1>2 DEF Direct, Broadcast, Told, Pending, loopVars, execVars
<1>3. CASE SubmitRpc(c)
      <2>1. /\ Len(rpcQueue') = Len(rpcQueue) + 1 /\ Len(rpcQueue) \in Nat
            /\ \A k \in 1..Len(rpcQueue') : rpcQueue'[k] = IF k = Len(rpcQueue) + 1 THEN c ELSE rpcQueue[k]
            BY <1>3, Appended DEF SubmitRpc
      <2>2. /\ at' = [at EXCEPT ![c] = "waiting"] /\ fut' = [fut EXCEPT ![c] = "pending"]
            /\ UNCHANGED <<task, verdict, got>>
            BY <1>3 DEF SubmitRpc, loopVars, execVars
      <2>3. ASSUME NEW d \in Call, Pending(d) \/ d = c PROVE Pending(d)'
            <3>1. CASE d = c
                  BY <2>1, <3>1 DEF Pending
            <3>2. ASSUME NEW k \in 1..Len(rpcQueue), rpcQueue[k] = d PROVE Pending(d)'
                  <4>1. k \in 1..Len(rpcQueue') /\ rpcQueue'[k] = d
                        BY <2>1, <3>2
                  <4> QED BY <4>1 DEF Pending
            <3> QED BY <2>2, <2>3, <3>1, <3>2 DEF Pending
      <2> QED BY <2>2, <2>3 DEF Told
<1>4. CASE CallReturns(c)
      BY <1>4 DEF CallReturns, Told, Pending, loopVars, execVars
<1>5. CASE CallTimesOut(c)
      BY <1>5 DEF CallTimesOut, Told, Pending, loopVars, execVars
<1> QED BY <1>1, <1>2, <1>3, <1>4, <1>5 DEF Caller

\* What is taken off the queue is being served, or was done already.
LEMMA TakenTold ==
    ASSUME RpcTypeOK, Told, task = None, rpcQueue # <<>>, rpcQueue' = Tail(rpcQueue),
           UNCHANGED <<at, fut, got>>,
           \/ task' = Head(rpcQueue)
           \/ task' = None /\ fut[Head(rpcQueue)] # "pending",
           verdict' \in {verdict, "error"}
    PROVE  Told'
<1>1. /\ Len(Tail(rpcQueue)) = Len(rpcQueue) - 1 /\ Len(rpcQueue) \in Nat
      /\ Head(rpcQueue) = rpcQueue[1] /\ rpcQueue[1] \in Call
      /\ \A k \in 1..Len(Tail(rpcQueue)) : Tail(rpcQueue)[k] = rpcQueue[k + 1]
      BY HeadTail DEF RpcTypeOK
<1>2. verdict' # "result"
      BY DEF Told
<1>3. ASSUME NEW c \in Call, fut[c] = "pending" PROVE Pending(c)'
      <2>1. PICK k \in 1..Len(rpcQueue) : rpcQueue[k] = c
            BY <1>3, RpcAssumption DEF Told, Pending, Item
      <2>2. CASE k = 1
            BY <1>1, <1>3, <2>1, <2>2 DEF Pending
      <2>3. CASE k # 1
            <3>1. k - 1 \in 1..Len(rpcQueue') /\ rpcQueue'[k - 1] = c
                  BY <1>1, <2>1, <2>3
            <3> QED BY <3>1 DEF Pending
      <2> QED BY <2>2, <2>3
<1> QED BY <1>2, <1>3 DEF Told

LEMMA LoopTold ==
    ASSUME RpcTypeOK, Parts, Told, BusyLoop
    PROVE  Told'
<1> USE DEF RpcTypeOK
<1>1. CASE TakeTask
      BY <1>1, TakenTold DEF TakeTask, callerVars, execVars, Broadcast
<1>2. CASE CheckDone
      BY <1>2 DEF CheckDone, Told, Pending, callerVars, execVars
<1>3. CASE SetOutcome
      BY <1>3 DEF SetOutcome, Told, Pending, execVars
<1>4. CASE FailPending
      BY <1>4, TakenTold, ToldUnchanged DEF FailPending, callerVars, execVars, toldVars
<1>5. CASE Drained \/ LoopWakes \/ \E e \in Exec : LoopExecutes(e)
      BY <1>5, ToldUnchanged DEF Drained, LoopWakes, LoopExecutes, Broadcast, callerVars, execVars, toldVars
<1> QED BY <1>1, <1>2, <1>3, <1>4, <1>5 DEF BusyLoop

LEMMA ExecutorTold ==
    ASSUME RpcTypeOK, Parts, Told, NEW i \in Item, ExecutorReply(i) \/ ExecutorRaise(i)
    PROVE  Told'
<1>1. UNCHANGED <<fut, rpcQueue, task>>
      BY DEF ExecutorReply, ExecutorRaise, HandBack, loopVars
<1>2. CASE ExecutorReply(i)
      <2>1. got' = [got EXCEPT ![i] = Head(results)] /\ Head(results) # None
            BY <1>2, HeadTail, RpcAssumption DEF ExecutorReply, RpcTypeOK
      <2>2. PICK outcome \in {"result", "error"} : HandBack(i, outcome)
            BY <1>2 DEF ExecutorReply
      <2>3. /\ \A c \in Call : at'[c] = "returned" => at[c] = "returned" \/ c = i
            /\ verdict' = "result" => verdict = "result" \/ task = i
            BY <2>2 DEF HandBack, RpcTypeOK, loopVars
      <2>4. \A j \in Item : got[j] # None \/ j = i => got'[j] # None
            BY <2>1 DEF RpcTypeOK
      <2>5. task = i => task # None
            BY RpcAssumption
      <2> QED BY <1>1, <2>3, <2>4, <2>5 DEF Told, Pending, RpcTypeOK, Item
<1>3. CASE ExecutorRaise(i)
      <2>1. HandBack(i, "error") /\ got' = got
            BY <1>3 DEF ExecutorRaise
      <2>2. /\ \A c \in Call : at'[c] = "returned" => at[c] = "returned"
            /\ verdict' = "result" => verdict = "result"
            BY <2>1 DEF HandBack, RpcTypeOK, loopVars
      <2> QED BY <1>1, <2>1, <2>2 DEF Told, Pending
<1> QED BY <1>2, <1>3

LEMMA ToldNext ==
    ASSUME RpcTypeOK, Parts, Told, [RpcNext]_rpcVars
    PROVE  Told'
<1>1. CASE \E c \in Call : DeadlinePasses(c)
      BY <1>1, ToldUnchanged DEF DeadlinePasses, loopVars, execVars, toldVars
<1>2. CASE StartLoop \/ SetStarted
      BY <1>2, ToldUnchanged DEF StartLoop, SetStarted, callerVars, loopVars, execVars, toldVars
<1>3. CASE WorkerServes \/ WorkerDies \/ WorkerEnds \/ Monitor
      BY <1>3, ToldUnchanged DEF WorkerServes, WorkerDies, WorkerEnds, Monitor, MonitorWakes, MonitorShuts,
                                 callerVars, loopVars, execVars, toldVars
<1>4. CASE CloseBegin \/ Closing
      BY <1>4, ToldUnchanged DEF CloseBegin, Closing, CloseJoin, CloseShuts,
                                 callerVars, loopVars, execVars, toldVars
<1>5. CASE UNCHANGED rpcVars
      BY <1>5, ToldUnchanged DEF rpcVars, callerVars, loopVars, execVars, toldVars
<1> QED BY <1>1, <1>2, <1>3, <1>4, <1>5, CallerTold, LoopTold, ExecutorTold DEF RpcNext, Executor

LEMMA ToldInit == RpcInit => Told
BY RpcAssumption DEF RpcInit, Told

LEMMA RpcTells == RpcSafety => [](RpcTypeOK /\ Parts /\ Told)
BY RpcInitInv, ToldInit, RpcTypeNext, PartsNext, ToldNext, PTL DEF RpcSafety

\* When the busy loop ends, the queue is empty and no task is served, so that no
\* future is left undone.
THEOREM RpcExitLeavesNobody == RpcSafety => ExitLeavesNobody
<1>1. ASSUME RpcTypeOK, Parts, Told, RpcNext, loop # "exited", loop' = "exited", NEW c \in Call
      PROVE  fut'[c] # "pending"
      <2>1. FailPending /\ task = None /\ rpcQueue = <<>> /\ fut' = fut
            <3>1. loop' = loop \/ BusyLoop \/ Executor \/ StartLoop
                  BY <1>1 DEF RpcNext, Caller, Enter, Direct, SubmitRpc, CallReturns, CallTimesOut,
                     DeadlinePasses, SetStarted, WorkerServes, WorkerDies, WorkerEnds, Monitor,
                     MonitorWakes, MonitorShuts, CloseBegin, Closing, CloseJoin, CloseShuts, loopVars
            <3>2. ~StartLoop /\ ~Executor
                  BY <1>1 DEF StartLoop, Executor, ExecutorReply, ExecutorRaise, HandBack, loopVars
            <3>3. ~TakeTask /\ ~CheckDone /\ ~SetOutcome /\ ~Drained /\ ~LoopWakes
                  /\ \A e \in Exec : ~LoopExecutes(e)
                  BY <1>1 DEF TakeTask, CheckDone, SetOutcome, Drained, LoopWakes, LoopExecutes
            <3>4. FailPending
                  BY <1>1, <3>1, <3>2, <3>3 DEF BusyLoop
            <3> QED BY <1>1, <3>4 DEF FailPending, callerVars
      <2>2. ~Pending(c)
            BY <2>1, EmptySeq, RpcAssumption DEF Pending, Item
      <2> QED BY <1>1, <2>1, <2>2 DEF Told
<1>2. RpcTypeOK /\ Parts /\ Told /\ [RpcNext]_rpcVars =>
        [loop # "exited" /\ loop' = "exited" => \A c \in Call : fut'[c] # "pending"]_rpcVars
      BY <1>1
<1> QED BY <1>2, RpcTells, PTL DEF RpcSafety, ExitLeavesNobody

-----------------------------------------------------------------------------
(* The refinement: the replies in result_mq and the requests still on their  *)
(* way are the channel's queue, so that a worker's reply moves nothing.      *)

LEMMA Concat ==
    ASSUME NEW S, NEW s \in Seq(S), NEW t \in Seq(S)
    PROVE  /\ s \o t \in Seq(S) /\ Len(s \o t) = Len(s) + Len(t)
           /\ Len(s) \in Nat /\ Len(t) \in Nat
           /\ \A k \in 1..Len(s) + Len(t) : (s \o t)[k] = IF k <= Len(s) THEN s[k] ELSE t[k - Len(s)]
BY ConcatProperties, LenProperties

LEMMA ConcatAppend ==
    ASSUME NEW S, NEW s \in Seq(S), NEW t \in Seq(S), NEW x \in S
    PROVE  s \o Append(t, x) = Append(s \o t, x)
<1> DEFINE a == s \o Append(t, x)
           b == Append(s \o t, x)
<1>1. a \in Seq(S) /\ Len(a) = Len(s) + Len(t) + 1
      BY Concat, Appended
<1>2. b \in Seq(S) /\ Len(b) = Len(s) + Len(t) + 1
      BY Concat, Appended
<1>3. ASSUME NEW k \in 1..Len(a) PROVE a[k] = b[k]
      <2>1. a[k] = IF k <= Len(s) THEN s[k] ELSE Append(t, x)[k - Len(s)]
            BY <1>1, Concat, Appended
      <2>2. b[k] = IF k = Len(s) + Len(t) + 1 THEN x ELSE (s \o t)[k]
            BY <1>1, Concat, Appended
      <2>3. k > Len(s) => Append(t, x)[k - Len(s)] = IF k - Len(s) = Len(t) + 1 THEN x ELSE t[k - Len(s)]
            BY <1>1, Concat, Appended
      <2>4. k # Len(s) + Len(t) + 1 => (s \o t)[k] = IF k <= Len(s) THEN s[k] ELSE t[k - Len(s)]
            <3>1. k # Len(s) + Len(t) + 1 => k \in 1..Len(s) + Len(t)
                  BY <1>1, Concat
            <3> HIDE DEF a, b
            <3> QED BY <3>1, Concat
      <2> HIDE DEF a, b
      <2> QED BY <1>1, <2>1, <2>2, <2>3, <2>4, Concat
<1> HIDE DEF a, b
<1>4. a = b
      BY <1>1, <1>2, <1>3, SeqEqual
<1> QED BY <1>4 DEF a, b

LEMMA ConcatServe ==
    ASSUME NEW S, NEW s \in Seq(S), NEW t \in Seq(S), t # <<>>
    PROVE  Append(s, Head(t)) \o Tail(t) = s \o t
<1> DEFINE a == Append(s, Head(t)) \o Tail(t)
           b == s \o t
<1>1. a \in Seq(S) /\ Len(a) = Len(s) + Len(t)
      BY Concat, Appended, HeadTail
<1>2. b \in Seq(S) /\ Len(b) = Len(s) + Len(t)
      BY Concat
<1>3. ASSUME NEW k \in 1..Len(a) PROVE a[k] = b[k]
      <2>1. a[k] = IF k <= Len(s) + 1 THEN Append(s, Head(t))[k] ELSE Tail(t)[k - (Len(s) + 1)]
            BY <1>1, Concat, Appended, HeadTail
      <2>2. k <= Len(s) + 1 => Append(s, Head(t))[k] = IF k = Len(s) + 1 THEN t[1] ELSE s[k]
            <3>1. Head(t) \in S /\ Head(t) = t[1] /\ Len(s) \in Nat
                  BY HeadTail, Concat
            <3>2. \A m \in 1..Len(s) + 1 : Append(s, Head(t))[m] = IF m = Len(s) + 1 THEN Head(t) ELSE s[m]
                  BY <3>1, Appended
            <3> HIDE DEF a, b
            <3> QED BY <1>1, <3>1, <3>2, Concat
      <2>3. k > Len(s) + 1 => Tail(t)[k - (Len(s) + 1)] = t[k - Len(s)]
            BY <1>1, Concat, HeadTail
      <2>4. b[k] = IF k <= Len(s) THEN s[k] ELSE t[k - Len(s)]
            BY <1>1, Concat
      <2> HIDE DEF a, b
      <2> QED BY <1>1, <2>1, <2>2, <2>3, <2>4, Concat
<1> HIDE DEF a, b
<1>4. a = b
      BY <1>1, <1>2, <1>3, SeqEqual
<1> QED BY <1>4 DEF a, b

LEMMA ConcatTake ==
    ASSUME NEW S, NEW s \in Seq(S), NEW t \in Seq(S), s # <<>>
    PROVE  s \o t # <<>> /\ Head(s \o t) = Head(s) /\ Tail(s \o t) = Tail(s) \o t
<1> DEFINE a == Tail(s \o t)
           b == Tail(s) \o t
<1>1. Len(s) >= 1 /\ Len(s) \in Nat /\ s \o t # <<>>
      BY HeadTail, Concat, EmptySeq
<1>2. Head(s \o t) = Head(s)
      BY <1>1, HeadTail, Concat
<1>3. a \in Seq(S) /\ Len(a) = Len(s) + Len(t) - 1
      BY <1>1, HeadTail, Concat
<1>4. b \in Seq(S) /\ Len(b) = Len(s) + Len(t) - 1
      BY <1>1, HeadTail, Concat
<1>5. ASSUME NEW k \in 1..Len(a) PROVE a[k] = b[k]
      <2>1. a[k] = (s \o t)[k + 1]
            BY <1>1, <1>3, HeadTail, Concat
      <2>2. (s \o t)[k + 1] = IF k + 1 <= Len(s) THEN s[k + 1] ELSE t[(k + 1) - Len(s)]
            BY <1>3, Concat
      <2>3. b[k] = IF k <= Len(s) - 1 THEN Tail(s)[k] ELSE t[k - (Len(s) - 1)]
            BY <1>3, <1>1, HeadTail, Concat
      <2>4. k <= Len(s) - 1 => Tail(s)[k] = s[k + 1]
            BY <1>1, <1>3, HeadTail
      <2>5. k - (Len(s) - 1) = (k + 1) - Len(s)
            BY <1>1, <1>3, Concat
      <2> HIDE DEF a, b
      <2> QED BY <1>1, <1>3, <2>1, <2>2, <2>3, <2>4, <2>5, Concat
<1> HIDE DEF a, b
<1>6. a = b
      BY <1>3, <1>4, <1>5, SeqEqual
<1> QED BY <1>1, <1>2, <1>6 DEF a, b

\* Every broadcast finds the executor empty and its item fresh.
LEMMA BroadcastIssues ==
    ASSUME RpcTypeOK, NEW i \in Item, Broadcast(i), ~exClosed, UNCHANGED exClosed,
           calls = {}, Fresh(i)
    PROVE  Channel!Issue(i)
<1>1. results \o Append(wire, i) = Append(results \o wire, i)
      BY ConcatAppend DEF RpcTypeOK
<1> QED BY <1>1 DEF Broadcast, Fresh, Channel!Issue

LEMMA StepRefines ==
    ASSUME RpcTypeOK, Parts, [RpcNext]_rpcVars
    PROVE  [Channel!ChanNext]_(Channel!chanVars)
<1> DEFINE Goal == [Channel!ChanNext]_(Channel!chanVars)
<1> USE RpcAssumption
<1>1. ASSUME UNCHANGED <<calls, wire, results, got, gaveUp, exClosed>> PROVE Goal
      BY <1>1 DEF Channel!chanVars
<1>2. ASSUME NEW i \in Item, Broadcast(i), ~exClosed, UNCHANGED exClosed, calls = {}, Fresh(i)
      PROVE  Goal
      BY <1>2, BroadcastIssues DEF Channel!ChanNext
<1>3. ASSUME NEW c \in Call, Direct(c) PROVE Goal
      <2>1. CASE UNCHANGED execVars
            BY <1>1, <1>3, <2>1 DEF Direct, execVars, deathVars
      <2>2. CASE started # "yes" /\ ~exClosed /\ Broadcast(c)
            <3>1. calls = {}
                  BY <1>3, <2>2 DEF Direct, Parts, Alone, Window, Serving, RpcTypeOK
            <3>2. Fresh(c) /\ c \in Item
                  BY <1>3 DEF Direct, Parts, BeforeQueue, Item
            <3> QED BY <1>2, <1>3, <2>2, <3>1, <3>2 DEF Direct, deathVars
      <2> QED BY <1>3, <2>1, <2>2 DEF Direct
<1>4. CASE TakeTask
      <2>1. CASE UNCHANGED execVars
            BY <1>1, <1>4, <2>1 DEF TakeTask, execVars, deathVars
      <2>2. CASE ~exClosed /\ Broadcast(Head(rpcQueue))
            <3>1. calls = {}
                  BY <1>4 DEF TakeTask, Parts, Alone, Holder
            <3>2. Head(rpcQueue) = rpcQueue[1] /\ Head(rpcQueue) \in Item /\ 1 \in 1..Len(rpcQueue)
                  BY <1>4, HeadTail DEF TakeTask, RpcTypeOK, Item
            <3>3. Fresh(Head(rpcQueue))
                  BY <3>2 DEF Parts, Queued
            <3> QED BY <1>2, <1>4, <2>2, <3>1, <3>2, <3>3 DEF TakeTask, deathVars
      <2> QED BY <1>4, <2>1, <2>2 DEF TakeTask
<1>5. ASSUME NEW e \in Exec, LoopExecutes(e) PROVE Goal
      <2>1. CASE exClosed
            BY <1>1, <1>5, <2>1 DEF LoopExecutes, execVars, deathVars
      <2>2. CASE ~exClosed
            <3>1. calls = {}
                  BY <1>5 DEF LoopExecutes, Parts, Alone, Serving
            <3>2. Fresh(e) /\ e \in Item
                  BY <1>5, <3>1 DEF LoopExecutes, Fresh, Item
            <3> QED BY <1>2, <1>5, <2>2, <3>1, <3>2 DEF LoopExecutes, deathVars
      <2> QED BY <2>1, <2>2
<1>6. ASSUME NEW i \in Item, ExecutorReply(i) PROVE Goal
      <2>1. /\ results \o wire # <<>> /\ Head(results \o wire) = Head(results)
            /\ Tail(results \o wire) = Tail(results) \o wire
            BY <1>6, ConcatTake DEF ExecutorReply, RpcTypeOK
      <2>2. Channel!Take(i)
            BY <1>6, <2>1 DEF ExecutorReply, Channel!Take, deathVars
      <2> QED BY <2>2 DEF Channel!ChanNext
<1>7. ASSUME NEW i \in Item, ExecutorRaise(i) PROVE Goal
      <2>1. Channel!GiveUp(i)
            BY <1>7 DEF ExecutorRaise, Channel!GiveUp, deathVars
      <2> QED BY <2>1 DEF Channel!ChanNext
<1>8. CASE WorkerServes
      <2>1. Append(results, Head(wire)) \o Tail(wire) = results \o wire
            BY <1>8, ConcatServe DEF WorkerServes, RpcTypeOK
      <2> QED BY <1>8, <2>1 DEF WorkerServes, Channel!chanVars, deathVars
<1>9. ASSUME exClosed' = TRUE, UNCHANGED execVars PROVE Goal
      <2>1. Channel!Shut
            BY <1>9 DEF Channel!Shut, execVars
      <2> QED BY <2>1 DEF Channel!ChanNext
<1>10. CASE Monitor \/ Closing
      <2>1. CASE exClosed' = TRUE
            BY <1>9, <1>10, <2>1 DEF Monitor, MonitorWakes, MonitorShuts, Closing, CloseJoin, CloseShuts
      <2>2. CASE UNCHANGED exClosed
            BY <1>1, <1>10, <2>2 DEF Monitor, MonitorWakes, MonitorShuts, Closing, CloseJoin, CloseShuts, execVars
      <2> QED BY <1>10, <2>1, <2>2 DEF Monitor, MonitorWakes, MonitorShuts, Closing, CloseJoin, CloseShuts, deathVars
<1>11. CASE StartLoop \/ SetStarted \/ CloseBegin \/ WorkerDies \/ WorkerEnds
      BY <1>1, <1>11 DEF StartLoop, SetStarted, CloseBegin, WorkerDies, WorkerEnds, execVars, deathVars
<1>12. CASE CheckDone \/ SetOutcome \/ Drained \/ LoopWakes \/ FailPending
      BY <1>1, <1>12 DEF CheckDone, SetOutcome, Drained, LoopWakes, FailPending, execVars, deathVars
<1>13. ASSUME NEW c \in Call,
              Enter(c) \/ SubmitRpc(c) \/ CallReturns(c) \/ CallTimesOut(c) \/ DeadlinePasses(c)
       PROVE  Goal
      BY <1>1, <1>13 DEF Enter, SubmitRpc, CallReturns, CallTimesOut, DeadlinePasses, execVars, deathVars
<1>14. CASE UNCHANGED rpcVars
      BY <1>1, <1>14 DEF rpcVars, execVars, deathVars
<1> HIDE DEF Goal
<1> QED BY <1>3, <1>4, <1>5, <1>6, <1>7, <1>8, <1>10, <1>11, <1>12, <1>13, <1>14
        DEF RpcNext, Caller, BusyLoop, Executor, Goal

LEMMA InitRefines == RpcInit => Channel!ChanInit
BY ConcatEmptySeq, EmptySeq DEF RpcInit, Channel!ChanInit

\* collective_rpc is a ReplyChannel, for any callers, executions and timeouts:
\* two threads are never inside, in the window around the start of the loop
\* included, and no reply overtakes another.
THEOREM RpcRefines == RpcSafety => ImplementsReplyChannel
BY InitRefines, StepRefines, RpcInvariant, PTL
   DEF RpcSafety, ImplementsReplyChannel, Channel!ChanSpec

-----------------------------------------------------------------------------
(* What ReplyChannel_proofs proves of the channel, read in the executor.     *)

Law == INSTANCE ReplyChannel_proofs WITH
    NoReply <- None, open <- ~exClosed, owed <- results \o wire

LEMMA RpcIsChannel == RpcSafety => Law!ChanSpec
<1>1. Channel!ChanSpec => Law!ChanSpec
      BY PTL DEF Channel!ChanSpec, Channel!ChanInit, Channel!ChanNext, Channel!Issue, Channel!Take,
                 Channel!GiveUp, Channel!Shut, Channel!chanVars,
                 Law!ChanSpec, Law!ChanInit, Law!ChanNext, Law!Issue, Law!Take,
                 Law!GiveUp, Law!Shut, Law!chanVars
<1> QED BY <1>1, RpcRefines DEF ImplementsReplyChannel

\* The replies in the result queue and still to come are as many as the callers
\* that gave up and the one that waits: a call that gives up shifts the channel
\* for every later one.
THEOREM RpcKeepsBalance == RpcSafety => []Channel!ReplyBalance
<1>1. Law!ReplyBalance => Channel!ReplyBalance
      BY Zenon DEF Law!ReplyBalance, Channel!ReplyBalance, Law!Cardinality, Channel!Cardinality
<1> QED BY <1>1, RpcIsChannel, Law!ChannelKeepsBalance, PTL

\* Until a call gives up, whoever calls collective_rpc is given its own reply,
\* whichever worker dies and whoever closes meanwhile.
THEOREM RpcOwnReply ==
    RpcSafety => [](gaveUp = {} => \A i \in Item : got[i] \in {None, i})
<1>1. Law!OwnReplyUntilGiveUp => (gaveUp = {} => \A i \in Item : got[i] \in {None, i})
      BY DEF Law!OwnReplyUntilGiveUp
<1> QED BY <1>1, RpcIsChannel, Law!ChannelOwnReply, PTL

\* Who is told of a result was given a reply, and the channel gives everyone its own.
THEOREM RpcReturnsOwnReply == RpcSafety => []ReturnsOwnReply
<1>1. Told /\ (gaveUp = {} => \A i \in Item : got[i] \in {None, i}) => ReturnsOwnReply
      BY DEF Told, ReturnsOwnReply, Item
<1> QED BY <1>1, RpcTells, RpcOwnReply, PTL
=============================================================================
