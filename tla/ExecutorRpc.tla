----------------------------- MODULE ExecutorRpc -----------------------------
(* The way of a call to the workers: DiffusionEngine.collective_rpc and its  *)
(* queue (diffusion/diffusion_engine.py), MultiprocDiffusionExecutor and its *)
(* worker monitor (executor/multiproc_executor.py) and WorkerProc's busy loop *)
(* (worker/diffusion_worker.py).  Threads that call, the engine's busy loop  *)
(* that serves their calls between its own executions, the workers that may  *)
(* die, deadlines that pass, and close().  Scheduling is DiffusionEngine's.  *)
EXTENDS Sequences, FiniteSets, Integers

CONSTANTS
    Call,       \* calls of collective_rpc, each made once by a thread of its own
    Exec,       \* execute_model / execute_stepwise calls of the busy loop
    Timed,      \* the calls made with a timeout
    None

Item == Call \cup Exec

ASSUME RpcAssumption ==
    /\ Timed \subseteq Call /\ Call \cap Exec = {} /\ None \notin Item
    /\ IsFiniteSet(Item)

VARIABLES
    at,        \* where the thread of a call is
    fut,       \* the future of its _RpcTask
    late,      \* the calls whose deadline has passed
    rpcQueue,  \* _rpc_queue
    lock,      \* the direct call that holds _cv, or None
    started,   \* _loop_started; "starting": the thread runs, the flag is not set
    loop,      \* where the busy loop is: "head" and "mid" drain the queue
    task,      \* the task it has taken, or None
    step,      \* what it does with it: call, check done(), set the outcome
    verdict,   \* the outcome it will set
    closed, closer,   \* DiffusionEngine.close()
    calls,     \* who is inside executor.collective_rpc, waiting for a reply
    wire,      \* broadcast requests no worker has served
    results,   \* replies in result_mq
    got,       \* whose reply each item was given
    gaveUp,    \* the items whose wait ended without a reply
    workers,   \* the worker processes
    isFailed, exClosed, mqOpen,   \* the executor's is_failed, _closed, _result_mq
    monitor

callerVars == <<at, fut, late>>
loopVars   == <<loop, task, step, verdict>>
execVars   == <<calls, wire, results, got, gaveUp>>
deathVars  == <<workers, isFailed, exClosed, mqOpen, monitor>>
rpcVars    == <<callerVars, rpcQueue, lock, started, loopVars, closed, closer, execVars, deathVars>>

RpcInit ==
    /\ at = [c \in Call |-> "idle"] /\ fut = [c \in Call |-> "none"] /\ late = {}
    /\ rpcQueue = <<>> /\ lock = None /\ started = "no"
    /\ loop = "none" /\ task = None /\ step = "none" /\ verdict = "none"
    /\ closed = FALSE /\ closer = "no"
    /\ calls = {} /\ wire = <<>> /\ results = <<>> /\ gaveUp = {}
    /\ got = [i \in Item |-> None]
    /\ workers = "up" /\ isFailed = FALSE /\ exClosed = FALSE /\ mqOpen = TRUE
    /\ monitor = "watch"

-----------------------------------------------------------------------------
(* MultiprocDiffusionExecutor.collective_rpc.                                *)

Broadcast(i) ==
    /\ calls' = calls \cup {i}
    /\ wire' = Append(wire, i)
    /\ UNCHANGED <<results, got, gaveUp>>

\* Who called it: a direct call returns to its thread and frees the lock, a
\* task's outcome is checked next, an execution goes on to the second drain.
HandBack(i, outcome) ==
    \/ /\ i = lock
       /\ lock' = None
       /\ at' = [at EXCEPT ![i] = IF outcome = "result" THEN "returned" ELSE "raised"]
       /\ UNCHANGED loopVars
    \/ /\ i = task /\ step = "call"
       /\ step' = "check" /\ verdict' = outcome
       /\ UNCHANGED <<at, lock, loop, task>>
    \/ /\ i \in Exec
       /\ loop' = "mid"
       /\ UNCHANGED <<at, lock, task, step, verdict>>

\* One message is dequeued, whoever it answers; it may carry a worker's error.
ExecutorReply(i) ==
    /\ i \in calls /\ results # <<>> /\ mqOpen
    /\ got' = [got EXCEPT ![i] = Head(results)]
    /\ results' = Tail(results)
    /\ calls' = calls \ {i}
    /\ \E outcome \in {"result", "error"} : HandBack(i, outcome)
    /\ UNCHANGED <<fut, late, rpcQueue, started, closed, closer, wire, gaveUp, deathVars>>

\* The wait ends without a reply: the deadline has passed, a chunk of it ended
\* with is_failed set, or the queue is gone.
ExecutorRaise(i) ==
    /\ i \in calls
    /\ i \in late \/ (isFailed /\ results = <<>>) \/ ~mqOpen
    /\ calls' = calls \ {i}
    /\ gaveUp' = gaveUp \cup {i}
    /\ HandBack(i, "error")
    /\ UNCHANGED <<fut, late, rpcQueue, started, closed, closer, wire, results, got, deathVars>>

-----------------------------------------------------------------------------
(* DiffusionEngine.collective_rpc, on the caller's thread.                   *)

\* The first look at _loop_started, without the lock.
Enter(c) ==
    /\ at[c] = "idle"
    /\ at' = [at EXCEPT ![c] = IF started = "yes" THEN "submit" ELSE "direct"]
    /\ UNCHANGED <<fut, late, rpcQueue, lock, started, loopVars, closed, closer, execVars, deathVars>>

\* Mutant: _loop_started is not looked at again under the lock.
Direct_NoRecheck(c) ==
    /\ at[c] = "direct" /\ lock = None
    /\ IF exClosed
       THEN at' = [at EXCEPT ![c] = "raised"] /\ UNCHANGED <<lock, execVars>>
       ELSE lock' = c /\ Broadcast(c) /\ at' = [at EXCEPT ![c] = "inside"]
    /\ UNCHANGED <<fut, late, rpcQueue, started, loopVars, closed, closer, deathVars>>

\* Under _cv: the second look, then the executor is called with the lock held.
Direct(c) ==
    /\ at[c] = "direct" /\ lock = None
    /\ \/ /\ started = "yes"
          /\ at' = [at EXCEPT ![c] = "submit"]
          /\ UNCHANGED <<lock, execVars>>
       \/ /\ started # "yes" /\ exClosed
          /\ at' = [at EXCEPT ![c] = "raised"]
          /\ UNCHANGED <<lock, execVars>>
       \/ /\ started # "yes" /\ ~exClosed
          /\ at' = [at EXCEPT ![c] = "inside"]
          /\ lock' = c
          /\ Broadcast(c)
    /\ UNCHANGED <<fut, late, rpcQueue, started, loopVars, closed, closer, deathVars>>

\* _submit_rpc: under _cv, and without a look at _closed.
SubmitRpc(c) ==
    /\ at[c] = "submit" /\ lock = None
    /\ at' = [at EXCEPT ![c] = "waiting"]
    /\ fut' = [fut EXCEPT ![c] = "pending"]
    /\ rpcQueue' = Append(rpcQueue, c)
    /\ UNCHANGED <<late, lock, started, loopVars, closed, closer, execVars, deathVars>>

\* future.result() returns or raises what was set.
CallReturns(c) ==
    /\ at[c] = "waiting" /\ fut[c] \in {"result", "error"}
    /\ at' = [at EXCEPT ![c] = IF fut[c] = "result" THEN "returned" ELSE "raised"]
    /\ UNCHANGED <<fut, late, rpcQueue, lock, started, loopVars, closed, closer, execVars, deathVars>>

\* future.result(timeout) raises, and the future is cancelled if it still can be.
CallTimesOut(c) ==
    /\ at[c] = "waiting" /\ c \in late
    /\ at' = [at EXCEPT ![c] = "timedout"]
    /\ fut' = [fut EXCEPT ![c] = IF @ = "pending" THEN "cancelled" ELSE @]
    /\ UNCHANGED <<late, rpcQueue, lock, started, loopVars, closed, closer, execVars, deathVars>>

\* The deadline is taken when the task is made, or when the executor is called.
DeadlinePasses(c) ==
    /\ c \in Timed \ late /\ at[c] \in {"inside", "waiting"}
    /\ late' = late \cup {c}
    /\ UNCHANGED <<at, fut, rpcQueue, lock, started, loopVars, closed, closer, execVars, deathVars>>

Caller(c) == Enter(c) \/ Direct(c) \/ SubmitRpc(c) \/ CallReturns(c) \/ CallTimesOut(c)

-----------------------------------------------------------------------------
(* The busy loop.                                                            *)

\* _check_and_start_background_loop, on the event loop, which also runs close():
\* the thread runs before the flag is set.
StartLoop ==
    /\ ~closed /\ loop = "none"
    /\ loop' = "head" /\ started' = "starting"
    /\ UNCHANGED <<callerVars, rpcQueue, lock, task, step, verdict, closed, closer, execVars, deathVars>>

SetStarted ==
    /\ started = "starting" /\ started' = "yes"
    /\ UNCHANGED <<callerVars, rpcQueue, lock, loopVars, closed, closer, execVars, deathVars>>

\* _process_rpc_queue takes a task: a done one is dropped, a late one fails
\* without a call, a closed executor raises.
TakeTask ==
    /\ loop \in {"head", "mid"} /\ task = None /\ rpcQueue # <<>>
    /\ rpcQueue' = Tail(rpcQueue)
    /\ LET c == Head(rpcQueue) IN
       \/ /\ fut[c] # "pending"
          /\ UNCHANGED <<task, step, verdict, execVars>>
       \/ /\ fut[c] = "pending" /\ (c \in late \/ exClosed)
          /\ task' = c /\ step' = "check" /\ verdict' = "error"
          /\ UNCHANGED execVars
       \/ /\ fut[c] = "pending" /\ c \notin late /\ ~exClosed
          /\ task' = c /\ step' = "call" /\ UNCHANGED verdict
          /\ Broadcast(c)
    /\ UNCHANGED <<callerVars, lock, started, loop, closed, closer, deathVars>>

\* if not fut.done(): a done future is left alone.
CheckDone ==
    /\ task # None /\ step = "check"
    /\ IF fut[task] = "pending"
       THEN step' = "set" /\ UNCHANGED <<task, verdict>>
       ELSE task' = None /\ step' = "none" /\ verdict' = "none"
    /\ UNCHANGED <<callerVars, rpcQueue, lock, started, loop, closed, closer, execVars, deathVars>>

\* set_result or set_exception; on a future cancelled since the check it raises
\* InvalidStateError, which nothing catches.
SetOutcome ==
    /\ task # None /\ step = "set"
    /\ IF fut[task] = "pending"
       THEN fut' = [fut EXCEPT ![task] = verdict] /\ UNCHANGED loop
       ELSE loop' = "crashed" /\ UNCHANGED fut
    /\ task' = None /\ step' = "none" /\ verdict' = "none"
    /\ UNCHANGED <<at, late, rpcQueue, lock, started, closed, closer, execVars, deathVars>>

\* The queue is empty: on to the wait, or, after an execution, to the top.
Drained ==
    /\ loop \in {"head", "mid"} /\ task = None /\ rpcQueue = <<>>
    /\ loop' = IF loop = "head" THEN "wait" ELSE IF closed THEN "final" ELSE "head"
    /\ UNCHANGED <<callerVars, rpcQueue, lock, started, task, step, verdict, closed, closer, execVars, deathVars>>

\* The wait under _cv ends: stopping, or RPCs to serve, or requests to execute.
\* Requests come only from callers who have seen the loop started.
LoopWakes ==
    /\ loop = "wait" /\ lock = None
    /\ \/ /\ closed
          /\ loop' = "final"
       \/ /\ ~closed /\ rpcQueue # <<>>
          /\ loop' = "head"
    /\ UNCHANGED <<callerVars, rpcQueue, lock, started, task, step, verdict, closed, closer, execVars, deathVars>>

LoopExecutes(e) ==
    /\ loop = "wait" /\ lock = None /\ ~closed /\ started = "yes"
    /\ got[e] = None /\ e \notin gaveUp
    /\ IF exClosed
       THEN loop' = "mid" /\ UNCHANGED execVars
       ELSE loop' = "exec" /\ Broadcast(e)
    /\ UNCHANGED <<callerVars, rpcQueue, lock, started, task, step, verdict, closed, closer, deathVars>>

\* Mutant: the thread ends without failing what is still queued.
FailPending_None ==
    /\ loop = "final" /\ task = None
    /\ loop' = "exited"
    /\ UNCHANGED <<callerVars, rpcQueue, lock, started, task, step, verdict, closed, closer, execVars, deathVars>>

\* _fail_pending_rpcs, once, as the thread's last act: check, then set, again.
FailPending ==
    /\ loop = "final" /\ task = None
    /\ IF rpcQueue = <<>>
       THEN loop' = "exited" /\ UNCHANGED <<rpcQueue, task, step, verdict>>
       ELSE /\ rpcQueue' = Tail(rpcQueue)
            /\ task' = Head(rpcQueue) /\ step' = "check" /\ verdict' = "error"
            /\ UNCHANGED loop
    /\ UNCHANGED <<callerVars, lock, started, closed, closer, execVars, deathVars>>

-----------------------------------------------------------------------------
(* The workers and the thread that watches them.                             *)

\* execute_rpc and return_result of the rank that replies.
WorkerServes ==
    /\ workers = "up" /\ wire # <<>>
    /\ wire' = Tail(wire)
    /\ results' = Append(results, Head(wire))
    /\ UNCHANGED <<callerVars, rpcQueue, lock, started, loopVars, closed, closer, calls, got, gaveUp, deathVars>>

WorkerDies ==
    /\ workers = "up" /\ workers' = "dead"
    /\ UNCHANGED <<callerVars, rpcQueue, lock, started, loopVars, closed, closer, execVars,
                   isFailed, exClosed, mqOpen, monitor>>

\* After SHUTDOWN_MESSAGE, or after terminate().
WorkerEnds ==
    /\ workers = "up" /\ exClosed /\ workers' = "ended"
    /\ UNCHANGED <<callerVars, rpcQueue, lock, started, loopVars, closed, closer, execVars,
                   isFailed, exClosed, mqOpen, monitor>>

\* A sentinel is ready; a shutdown that came first explains it.
MonitorWakes ==
    /\ monitor = "watch" /\ workers # "up"
    /\ IF exClosed
       THEN monitor' = "done" /\ UNCHANGED isFailed
       ELSE monitor' = "shut" /\ isFailed' = TRUE
    /\ UNCHANGED <<callerVars, rpcQueue, lock, started, loopVars, closed, closer, execVars,
                   workers, exClosed, mqOpen>>

\* shutdown(), its two assignments: _closed first, the queues last.
MonitorShuts ==
    /\ \/ monitor = "shut" /\ monitor' = "gone" /\ exClosed' = TRUE /\ UNCHANGED mqOpen
       \/ monitor = "gone" /\ monitor' = "done" /\ mqOpen' = FALSE /\ UNCHANGED exClosed
    /\ UNCHANGED <<callerVars, rpcQueue, lock, started, loopVars, closed, closer, execVars,
                   workers, isFailed>>

-----------------------------------------------------------------------------
(* DiffusionEngine.close(), on the event loop's thread.                      *)

CloseBegin ==
    /\ ~closed /\ lock = None /\ started # "starting"
    /\ closed' = TRUE /\ closer' = "join"
    /\ UNCHANGED <<callerVars, rpcQueue, lock, started, loopVars, execVars, deathVars>>

\* The thread is joined, or the rest is left to another call of close().
CloseJoin ==
    /\ closer \in {"join", "deferred"}
    /\ IF loop \in {"none", "exited", "crashed"}
       THEN closer' = "shut" /\ started' = "no"
       ELSE closer' = "deferred" /\ UNCHANGED started
    /\ UNCHANGED <<callerVars, rpcQueue, lock, loopVars, closed, execVars, deathVars>>

CloseShuts ==
    /\ \/ closer = "shut" /\ closer' = "gone" /\ exClosed' = TRUE /\ UNCHANGED mqOpen
       \/ closer = "gone" /\ closer' = "done" /\ mqOpen' = FALSE /\ UNCHANGED exClosed
    /\ UNCHANGED <<callerVars, rpcQueue, lock, started, loopVars, closed, execVars,
                   workers, isFailed, monitor>>

-----------------------------------------------------------------------------
Executor == \E i \in Item : ExecutorReply(i) \/ ExecutorRaise(i)

BusyLoop ==
    \/ TakeTask \/ CheckDone \/ SetOutcome \/ Drained \/ LoopWakes \/ FailPending
    \/ \E e \in Exec : LoopExecutes(e)

Monitor == MonitorWakes \/ MonitorShuts

Closing == CloseJoin \/ CloseShuts

RpcNext ==
    \/ \E c \in Call : Caller(c) \/ DeadlinePasses(c)
    \/ StartLoop \/ SetStarted \/ BusyLoop \/ Executor
    \/ WorkerServes \/ WorkerDies \/ WorkerEnds \/ Monitor
    \/ CloseBegin \/ Closing

RpcSafety == RpcInit /\ [][RpcNext]_rpcVars

\* Threads that can run do, workers that live serve, time passes.  Nobody has
\* to call, start, close or die.
RpcFairness ==
    /\ WF_rpcVars(BusyLoop) /\ WF_rpcVars(Executor)
    /\ WF_rpcVars(WorkerServes) /\ WF_rpcVars(Monitor) /\ WF_rpcVars(Closing)
    /\ WF_rpcVars(SetStarted)
    /\ \A c \in Call : WF_rpcVars(CallReturns(c)) /\ WF_rpcVars(CallTimesOut(c))
                       /\ WF_rpcVars(DeadlinePasses(c))

RpcSpec == RpcSafety /\ RpcFairness

-----------------------------------------------------------------------------
\* Every variable has the shape the source gives it.
RpcTypeOK ==
    /\ at \in [Call -> {"idle", "direct", "inside", "submit", "waiting", "returned", "raised", "timedout"}]
    /\ fut \in [Call -> {"none", "pending", "result", "error", "cancelled"}]
    /\ late \in SUBSET Timed /\ rpcQueue \in Seq(Call) /\ lock \in Call \cup {None}
    /\ started \in {"no", "starting", "yes"}
    /\ loop \in {"none", "head", "wait", "exec", "mid", "final", "exited", "crashed"}
    /\ task \in Call \cup {None} /\ step \in {"none", "call", "check", "set"}
    /\ verdict \in {"none", "result", "error"}
    /\ closed \in BOOLEAN /\ closer \in {"no", "join", "deferred", "shut", "gone", "done"}
    /\ calls \in SUBSET Item /\ wire \in Seq(Item) /\ results \in Seq(Item)
    /\ got \in [Item -> Item \cup {None}] /\ gaveUp \in SUBSET Item
    /\ workers \in {"up", "dead", "ended"} /\ isFailed \in BOOLEAN
    /\ exClosed \in BOOLEAN /\ mqOpen \in BOOLEAN
    /\ monitor \in {"watch", "shut", "gone", "done"}

Channel == INSTANCE ReplyChannel WITH
    NoReply <- None, open <- ~exClosed, owed <- results \o wire

\* collective_rpc is a ReplyChannel: callers cannot race on the transport, the
\* window before the loop has started included (diffusion_engine.py:896-901),
\* and replies come in the order of the requests, whoever gives up or dies.
ImplementsReplyChannel == Channel!ChanSpec

\* Until a call gives up, a caller to whom collective_rpc returns is returned the
\* reply to its own request, also when it came by way of the busy loop, the task's
\* future and the checks of done() (diffusion_engine.py:518-540).
ReturnsOwnReply ==
    gaveUp = {} => \A c \in Call : at[c] = "returned" => got[c] = c

\* _fail_pending_rpcs misses nobody: when the busy loop's thread ends, every future
\* that was queued is done, whatever was queued, served or cancelled meanwhile.
ExitLeavesNobody ==
    [][loop # "exited" /\ loop' = "exited" => \A c \in Call : fut'[c] # "pending"]_rpcVars

\* A call that is queued before the busy loop ends returns, whichever worker
\* dies and whoever closes, unless the thread is killed; one with a timeout
\* returns whatever happens.
CallersReturn ==
    \A c \in Call :
        (at[c] = "waiting" /\ (c \in Timed \/ loop \notin {"exited", "crashed"}))
            ~> (at[c] # "waiting" \/ (c \notin Timed /\ loop = "crashed"))

-----------------------------------------------------------------------------
\* diffusion_engine.py:531-534: setting a cancelled future "would kill the busy
\* loop", and the check of done() is there to prevent it.
LoopSurvives == loop # "crashed"
=============================================================================
