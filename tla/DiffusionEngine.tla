--------------------------- MODULE DiffusionEngine ---------------------------
(* DiffusionEngine (vllm_omni/diffusion/diffusion_engine.py), non-streaming: *)
(* callers on the event loop add requests and await futures, one busy-loop   *)
(* thread schedules, executes and answers them, a client aborts them, and    *)
(* close() may come at any moment.  _cv's lock makes a step of add_request,  *)
(* abort, close's first part and the loop's waits; execution, the update and *)
(* the delivery run outside it.  The RPC queue is the subject of ExecutorRpc.*)
EXTENDS DiffusionScheduler

CONSTANT RequestBatch   \* supports_request_batch: schedule() after an admission wait

ASSUME BatchAssumption == RequestBatch \in BOOLEAN

VARIABLES
    loop,        \* where the busy loop is
    abortQueue,  \* abort_queue: ids only, it is always drained whole
    outQueue,    \* the keys of _out_queue, request id -> future
    answer,      \* the future of each request
    deliver,     \* finished ids _handle_finished_requests still has to visit
    popped,      \* the id whose future it popped and has not answered yet
    caller,      \* where async_add_req_and_wait_for_response is, per request
    closed,      \* _closed, set together with stop_event
    closer,      \* where close() is
    taken        \* the futures close() took from _out_queue

loopVars == <<loop, deliver, popped>>
engineVars == <<schedVars, loop, abortQueue, outQueue, answer, deliver, popped,
                caller, closed, closer, taken>>

LoopState == {"head", "wait", "admit", "exec", "aborts", "update", "deliver", "exited", "crashed"}
Answer == {"none", "pending", "output", "aborted", "error", "closed", "cancelled"}
CallerState == {"idle", "added", "waiting", "returned", "rejected", "notfound", "cancelled"}
CloserState == {"no", "answer", "join", "deferred", "done"}

EngineInit ==
    /\ SchedInit
    /\ loop = "head"
    /\ abortQueue = {} /\ outQueue = {}
    /\ answer = [r \in Request |-> "none"]
    /\ deliver = {} /\ popped = {}
    /\ caller = [r \in Request |-> "idle"]
    /\ closed = FALSE /\ closer = "no" /\ taken = {}

-----------------------------------------------------------------------------
(* The callers, on the event loop.                                           *)

\* Mutant: add_request does not look at _closed.
Submit_WhenClosed(r) ==
    /\ caller[r] = "idle"
    /\ AddRequest(r)
    /\ outQueue' = outQueue \cup {r}
    /\ answer' = [answer EXCEPT ![r] = "pending"]
    /\ caller' = [caller EXCEPT ![r] = "added"]
    /\ UNCHANGED <<loopVars, abortQueue, closed, closer, taken>>

\* add_request: one step under _cv.
Submit(r) ==
    /\ caller[r] = "idle"
    /\ \/ /\ ~closed
          /\ AddRequest(r)
          /\ outQueue' = outQueue \cup {r}
          /\ answer' = [answer EXCEPT ![r] = "pending"]
          /\ caller' = [caller EXCEPT ![r] = "added"]
       \/ /\ closed
          /\ caller' = [caller EXCEPT ![r] = "rejected"]
          /\ UNCHANGED <<schedVars, outQueue, answer>>
    /\ UNCHANGED <<loopVars, abortQueue, closed, closer, taken>>

\* get_result looks its future up again, without the lock.
Lookup(r) ==
    /\ caller[r] = "added"
    /\ caller' = [caller EXCEPT ![r] = IF r \in outQueue THEN "waiting" ELSE "notfound"]
    /\ UNCHANGED <<schedVars, loopVars, abortQueue, outQueue, answer, closed, closer, taken>>

\* The await ends once the future is done.
Return(r) ==
    /\ caller[r] = "waiting"
    /\ answer[r] # "pending"
    /\ caller' = [caller EXCEPT ![r] = "returned"]
    /\ UNCHANGED <<schedVars, loopVars, abortQueue, outQueue, answer, closed, closer, taken>>

\* The stage process cancels the caller's task, if it has one that waits or has
\* not begun, and then calls abort(), which a closed engine ignores.
ClientAbort(r) ==
    /\ caller[r] # "added"
    /\ caller' = [caller EXCEPT ![r] = IF @ \in {"idle", "waiting"} THEN "cancelled" ELSE @]
    /\ answer' = [answer EXCEPT ![r] = IF @ = "pending" /\ caller[r] = "waiting" THEN "cancelled" ELSE @]
    /\ abortQueue' = IF closed THEN abortQueue ELSE abortQueue \cup {r}
    /\ UNCHANGED <<schedVars, loopVars, outQueue, closed, closer, taken>>

-----------------------------------------------------------------------------
(* The busy loop.                                                            *)

\* Mutant: the aborted states are marked, the queues are left as they are.
DrainAborts_MarkOnly ==
    /\ status' = [r \in Request |-> IF r \in abortQueue /\ status[r] # "NONE" /\ ~IsFinished(r)
                                    THEN "FINISHED_ABORTED" ELSE status[r]]
    /\ abortQueue' = {}
    /\ UNCHANGED <<waiting, running, runningKey, finishedReqIds, progress, out, inFlight, returned>>

\* _process_aborts_queue: one step under _cv.
DrainAborts ==
    /\ FinishRequests(abortQueue)
    /\ abortQueue' = {}

\* The top of an iteration.
LoopHead ==
    /\ loop = "head"
    /\ \/ /\ closed
          /\ loop' = "exited"
          /\ UNCHANGED <<schedVars, abortQueue>>
       \/ /\ ~closed
          /\ DrainAborts
          /\ loop' = "wait"
    /\ UNCHANGED <<outQueue, answer, deliver, popped, caller, closed, closer, taken>>

\* Mutant: the wait does not end for stop_event.
LoopWake_Deaf ==
    /\ loop = "wait"
    /\ HasRequests \/ abortQueue # {}
    /\ loop' = IF closed THEN "exited" ELSE IF ~HasRequests THEN "head" ELSE "admit"
    /\ UNCHANGED <<schedVars, abortQueue, outQueue, answer, deliver, popped, caller,
                   closed, closer, taken>>

\* The wait under _cv, up to the call of schedule() when there are requests.
LoopWake ==
    /\ loop = "wait"
    /\ HasRequests \/ abortQueue # {} \/ closed
    /\ loop' = IF closed THEN "exited" ELSE IF ~HasRequests THEN "head" ELSE "admit"
    /\ UNCHANGED <<schedVars, abortQueue, outQueue, answer, deliver, popped, caller,
                   closed, closer, taken>>

\* schedule().  The lock is kept since the wait unless the engine batches whole
\* requests: the admission wait releases it, and close() does not undo it.
LoopSchedule ==
    /\ loop = "admit"
    /\ Schedule
    /\ IF IsEmpty(out')
       THEN loop' = "deliver" /\ deliver' = out'.finished
       ELSE loop' = "exec" /\ UNCHANGED deliver
    /\ UNCHANGED <<abortQueue, outQueue, answer, popped, caller, closed, closer, taken>>

\* execute_fn returns, or raises and is given error results.
LoopExecuted ==
    /\ loop = "exec"
    /\ loop' = "aborts"
    /\ UNCHANGED <<schedVars, abortQueue, outQueue, answer, deliver, popped, caller,
                   closed, closer, taken>>

LoopAborts ==
    /\ loop = "aborts"
    /\ DrainAborts
    /\ loop' = "update"
    /\ UNCHANGED <<outQueue, answer, deliver, popped, caller, closed, closer, taken>>

LoopUpdate ==
    /\ loop = "update"
    /\ Update
    /\ loop' = "deliver"
    /\ deliver' = returned'
    /\ UNCHANGED <<abortQueue, outQueue, answer, popped, caller, closed, closer, taken>>

\* Mutant: the delivery ends with the first finished request.
DeliverPop_First(r) ==
    /\ loop = "deliver" /\ popped = {} /\ r \in deliver
    /\ deliver' = {}
    /\ popped' = outQueue \cap {r}
    /\ outQueue' = outQueue \ {r}
    /\ UNCHANGED <<schedVars, loop, abortQueue, answer, caller, closed, closer, taken>>

\* _handle_finished_requests takes the next future, under _cv; an id without
\* one is passed over and keeps its scheduler state.
DeliverPop(r) ==
    /\ loop = "deliver" /\ popped = {} /\ r \in deliver
    /\ deliver' = deliver \ {r}
    /\ popped' = outQueue \cap {r}
    /\ outQueue' = outQueue \ {r}
    /\ UNCHANGED <<schedVars, loop, abortQueue, answer, caller, closed, closer, taken>>

\* What _finalize_finished_request makes of a terminal status.
AnswerFor(st) ==
    CASE st = "FINISHED_ABORTED"   -> "aborted"
      [] st = "FINISHED_COMPLETED" -> "output"
      [] OTHER                     -> "error"

Resolve(r, a) == answer' = [answer EXCEPT ![r] = IF @ = "pending" THEN a ELSE @]

\* Mutant: the answered request keeps its scheduler state.
DeliverFinalize_KeepsState(r) ==
    /\ loop = "deliver" /\ r \in popped
    /\ Resolve(r, AnswerFor(status[r]))
    /\ popped' = {}
    /\ UNCHANGED <<schedVars, loop, abortQueue, outQueue, deliver, caller, closed, closer, taken>>

\* _finalize_finished_request and _complete_future; a state that is gone raises
\* and ends the thread.
DeliverFinalize(r) ==
    /\ loop = "deliver" /\ r \in popped
    /\ IF status[r] = "NONE"
       THEN loop' = "crashed" /\ UNCHANGED <<schedVars, answer, popped>>
       ELSE /\ PopRequestState(r)
            /\ Resolve(r, AnswerFor(status[r]))
            /\ popped' = {}
            /\ UNCHANGED loop
    /\ UNCHANGED <<abortQueue, outQueue, deliver, caller, closed, closer, taken>>

DeliverDone ==
    /\ loop = "deliver" /\ deliver = {} /\ popped = {}
    /\ loop' = "head"
    /\ UNCHANGED <<schedVars, abortQueue, outQueue, answer, deliver, popped, caller,
                   closed, closer, taken>>

-----------------------------------------------------------------------------
(* close(), from another thread or from the event loop.                      *)

\* Mutant: _out_queue is copied and not cleared.
CloseBegin_Copies ==
    /\ ~closed
    /\ closed' = TRUE
    /\ taken' = outQueue
    /\ closer' = "answer"
    /\ UNCHANGED <<schedVars, loopVars, abortQueue, outQueue, answer, caller>>

\* The part under _cv: nothing can be added once it has run.
CloseBegin ==
    /\ ~closed
    /\ closed' = TRUE
    /\ taken' = outQueue
    /\ outQueue' = {}
    /\ closer' = "answer"
    /\ UNCHANGED <<schedVars, loopVars, abortQueue, answer, caller>>

CloseAnswer ==
    /\ closer = "answer"
    /\ answer' = [r \in Request |-> IF r \in taken /\ answer[r] = "pending" THEN "closed" ELSE answer[r]]
    /\ taken' = {}
    /\ closer' = "join"
    /\ UNCHANGED <<schedVars, loopVars, abortQueue, outQueue, caller, closed>>

\* Mutant: the scheduler is closed although the thread may still run.
CloseJoin_Anyway ==
    /\ closer = "join"
    /\ SchedClose
    /\ closer' = "done"
    /\ UNCHANGED <<loopVars, abortQueue, outQueue, answer, caller, closed, taken>>

\* The join: the scheduler and the executor are shut down only once the thread
\* is dead; if it is not after 10 s the call returns, and a later one retries.
CloseJoin ==
    /\ closer = "join"
    /\ \/ /\ loop \in {"exited", "crashed"}
          /\ SchedClose
          /\ closer' = "done"
       \/ /\ loop \notin {"exited", "crashed"}
          /\ closer' = "deferred"
          /\ UNCHANGED schedVars
    /\ UNCHANGED <<loopVars, abortQueue, outQueue, answer, caller, closed, taken>>

CloseAgain ==
    /\ closer = "deferred"
    /\ closer' = "join"
    /\ UNCHANGED <<schedVars, loopVars, abortQueue, outQueue, answer, caller, closed, taken>>

-----------------------------------------------------------------------------
LockFree == loop # "admit" \/ RequestBatch

BusyLoop ==
    \/ LoopHead \/ LoopWake \/ LoopSchedule \/ LoopExecuted \/ LoopAborts \/ LoopUpdate
    \/ \E r \in Request : DeliverPop(r) \/ DeliverFinalize(r)
    \/ DeliverDone

Clients ==
    \/ \E r \in Request : LockFree /\ (Submit(r) \/ ClientAbort(r))
    \/ \E r \in Request : Lookup(r) \/ Return(r)

Closing == (LockFree /\ CloseBegin) \/ CloseAnswer \/ CloseJoin \/ CloseAgain

\* Every caller has gone; the loop waits for more, or has ended.
Idle ==
    /\ \A r \in Request : caller[r] \in {"returned", "rejected", "notfound", "cancelled"}
    /\ closed => closer = "done"
    /\ UNCHANGED engineVars

EngineNext == BusyLoop \/ Clients \/ Closing \/ Idle

EngineSafety == EngineInit /\ [][EngineNext]_engineVars

\* The thread keeps running, executions return, the event loop resumes its
\* tasks, and a close() that has begun goes on.  Nobody has to abort or close.
EngineFairness ==
    /\ WF_engineVars(BusyLoop)
    /\ \A r \in Request : WF_engineVars(Lookup(r)) /\ WF_engineVars(Return(r))
    /\ WF_engineVars(CloseAnswer) /\ WF_engineVars(CloseJoin)

EngineSpec == EngineSafety /\ EngineFairness

-----------------------------------------------------------------------------
\* Every variable of the engine has the shape the source gives it.
EngineTypeOK ==
    /\ SchedTypeOK
    /\ loop \in LoopState
    /\ abortQueue \in SUBSET Request /\ outQueue \in SUBSET Request
    /\ answer \in [Request -> Answer]
    /\ deliver \in SUBSET Request /\ popped \in SUBSET Request /\ taken \in SUBSET Request
    /\ caller \in [Request -> CallerState]
    /\ closed \in BOOLEAN /\ closer \in CloserState

\* What the loop delivers keeps its finished state until it is answered, so that
\* _finalize_finished_request never raises "lost state" and ends the thread.
LoopNeverCrashes == loop # "crashed" /\ \A r \in popped : IsFinished(r)

\* A pending future has exactly one owner that will complete it: _out_queue,
\* the delivery that popped it, or close().  Two owners would answer it twice,
\* none would leave its caller waiting for ever.
PendingHasOneOwner ==
    /\ \A r \in Request : answer[r] = "pending" => r \in outQueue \cup popped \cup taken
    /\ outQueue \cap popped = {} /\ outQueue \cap taken = {} /\ popped \cap taken = {}

\* An answered request leaves nothing behind in the scheduler: its id could be
\* used again.
AnsweredIsForgotten ==
    \A r \in Request : answer[r] \in {"output", "aborted", "error"} => status[r] = "NONE"

\* Once close() is complete no caller holds a future that nobody will complete,
\* whatever was added, aborted or delivered while it ran.
CloseIsComplete ==
    closer = "done" => /\ outQueue = {} /\ popped = {} /\ taken = {}
                       /\ \A r \in Request : answer[r] # "pending" /\ status[r] = "NONE"
                       /\ ~inFlight

\* The engine uses its scheduler as DiffusionScheduler allows it.
UsesScheduler == SchedSafety

\* Every caller that waits is answered, unless its task is cancelled first.
CallersAreAnswered == \A r \in Request : answer[r] = "pending" ~> answer[r] # "pending"

\* An abort that meets its request in the batch being executed ends in the
\* request's state being released.
BatchAbortIsReleased ==
    \A r \in Request :
        (inFlight /\ r \in Scheduled(out) /\ IsFinished(r)) ~> (status[r] = "NONE" \/ closed)

\* close() ends the loop and answers everyone, even if it gives up on the join.
CloseAnswersEveryone ==
    closed ~> (loop = "exited" /\ \A r \in Request : answer[r] # "pending")

-----------------------------------------------------------------------------
(* What comments in the source promise, and the code does not do.            *)

\* diffusion_engine.py:595 and 612: the ids finished in this round that were
\* not scheduled in it are delivered too, so that at the top of an iteration no
\* finished request still has its future in _out_queue.
FinishedIsDelivered ==
    loop = "head" => \A r \in outQueue : ~IsFinished(r)
=============================================================================
