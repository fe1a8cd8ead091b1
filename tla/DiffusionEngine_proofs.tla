----------------------- MODULE DiffusionEngine_proofs ------------------------
(* Proofs about DiffusionEngine: every engine step is a step of the scheduler *)
(* specification or leaves it alone, the busy loop never dies of a lost       *)
(* state, and every pending future has exactly one owner.                     *)
EXTENDS DiffusionEngine, DiffusionScheduler_proofs

\* The engine's own variables, without the scheduler's.
EngineShape ==
    /\ loop \in LoopState
    /\ abortQueue \in SUBSET Request /\ outQueue \in SUBSET Request
    /\ answer \in [Request -> Answer]
    /\ deliver \in SUBSET Request /\ popped \in SUBSET Request /\ taken \in SUBSET Request
    /\ caller \in [Request -> CallerState]
    /\ closed \in BOOLEAN /\ closer \in CloserState

\* The loop's position says whether an output is in flight, and what the loop
\* holds while it delivers.
LoopPhases ==
    /\ loop \in {"exec", "aborts", "update"} <=> inFlight
    /\ loop # "deliver" => deliver = {} /\ popped = {}
    /\ \A r \in deliver \cup popped : IsFinished(r)
    /\ deliver \cap popped = {}
    /\ \A p, q \in popped : p = q

\* How far close() is, in terms of who may still hold a future.
ClosePhases ==
    /\ ~closed => closer = "no" /\ taken = {}
    /\ closed => outQueue = {} /\ closer # "no"
    /\ closer # "answer" => taken = {}
    /\ closer = "done" => loop \in {"exited", "crashed"}

\* A future in _out_queue has a scheduler state to be finished from.
FutureHasState == \A r \in outQueue : status[r] # "NONE"

\* schedule() is only called with requests to schedule.
AdmitHasWork == loop = "admit" => HasRequests

EngineInv ==
    /\ SchedInv
    /\ AdmitHasWork
    /\ EngineShape
    /\ LoopPhases
    /\ ClosePhases
    /\ FutureHasState
    /\ LoopNeverCrashes
    /\ PendingHasOneOwner

-----------------------------------------------------------------------------
LEMMA EngineInitInv == EngineInit => EngineInv
<1> SUFFICES ASSUME EngineInit PROVE EngineInv
  OBVIOUS
<1> USE DEF EngineInit
<1>1. SchedInv
  BY InitSchedInv
<1>2. EngineShape
  BY DEF EngineShape, LoopState, Answer, CallerState, CloserState
<1>3. LoopPhases /\ ClosePhases /\ FutureHasState /\ LoopNeverCrashes /\ AdmitHasWork
  BY DEF AdmitHasWork, LoopPhases, ClosePhases, FutureHasState, LoopNeverCrashes, SchedInit
<1>4. PendingHasOneOwner
  BY DEF PendingHasOneOwner
<1> QED
  BY <1>1, <1>2, <1>3, <1>4 DEF EngineInv

\* Every step of the engine is a scheduler operation or does not touch it.
LEMMA EngineStepIsSchedStep ==
  ASSUME EngineShape, [EngineNext]_engineVars
  PROVE  [SchedNext]_schedVars
<1>1. CASE UNCHANGED engineVars
  BY <1>1 DEF engineVars
<1>2. CASE BusyLoop
  <2>1. CASE LoopHead
    BY <2>1 DEF LoopHead, DrainAborts, SchedNext, EngineShape
  <2>2. CASE LoopWake
    BY <2>2 DEF LoopWake
  <2>3. CASE LoopSchedule
    BY <2>3 DEF LoopSchedule, SchedNext
  <2>4. CASE LoopExecuted
    BY <2>4 DEF LoopExecuted
  <2>5. CASE LoopAborts
    BY <2>5 DEF LoopAborts, DrainAborts, SchedNext, EngineShape
  <2>6. CASE LoopUpdate
    BY <2>6 DEF LoopUpdate, SchedNext
  <2>7. CASE \E r \in Request : DeliverPop(r)
    BY <2>7 DEF DeliverPop
  <2>8. CASE \E r \in Request : DeliverFinalize(r)
    BY <2>8 DEF DeliverFinalize, SchedNext
  <2>9. CASE DeliverDone
    BY <2>9 DEF DeliverDone
  <2> QED
    BY <1>2, <2>1, <2>2, <2>3, <2>4, <2>5, <2>6, <2>7, <2>8, <2>9 DEF BusyLoop
<1>3. CASE Clients
  <2>1. CASE \E r \in Request : Submit(r)
    BY <2>1 DEF Submit, SchedNext
  <2>2. CASE \E r \in Request : ClientAbort(r)
    BY <2>2 DEF ClientAbort
  <2>3. CASE \E r \in Request : Lookup(r) \/ Return(r)
    BY <2>3 DEF Lookup, Return
  <2> QED
    BY <1>3, <2>1, <2>2, <2>3 DEF Clients
<1>4. CASE Closing
  BY <1>4 DEF Closing, CloseBegin, CloseAnswer, CloseJoin, CloseAgain, SchedNext
<1>5. CASE Idle
  BY <1>5 DEF Idle, engineVars
<1> QED
  BY <1>1, <1>2, <1>3, <1>4, <1>5 DEF EngineNext

\* Between the wake-up and schedule() requests can only be added.
LEMMA AdmitKeepsWork ==
  ASSUME EngineInv, EngineNext
  PROVE  AdmitHasWork'
<1> SUFFICES ASSUME loop' = "admit" PROVE HasRequests'
  BY DEF AdmitHasWork
<1> USE DEF EngineInv
<1>1. CASE LoopWake
  BY <1>1 DEF LoopWake, HasRequests, schedVars
<1>2. CASE loop = "admit" /\ UNCHANGED schedVars
  BY <1>2 DEF AdmitHasWork, HasRequests, schedVars
<1>3. CASE loop = "admit" /\ \E r \in Request : AddRequest(r)
  <2>1. PICK r \in Request : waiting' = Append(waiting, r)
    BY <1>3 DEF AddRequest
  <2>2. waiting \in Seq(Request)
    BY DEF SchedInv, SchedTypeOK
  <2> QED
    BY <2>1, <2>2 DEF HasRequests
<1>4. CASE BusyLoop /\ ~LoopWake
  BY <1>4 DEF BusyLoop, LoopHead, LoopSchedule, LoopExecuted, LoopAborts, LoopUpdate,
              DeliverPop, DeliverFinalize, DeliverDone
<1>5. CASE Clients
  BY <1>2, <1>3, <1>5 DEF Clients, Submit, ClientAbort, Lookup, Return, loopVars
<1>6. CASE Closing
  BY <1>2, <1>6 DEF Closing, CloseBegin, CloseAnswer, CloseJoin, CloseAgain, loopVars
<1>7. CASE Idle
  BY <1>2, <1>7 DEF Idle, engineVars
<1> QED
  BY <1>1, <1>4, <1>5, <1>6, <1>7 DEF EngineNext

\* One step of the engine keeps the invariant: the parts besides SchedInv.
LEMMA ClientStep ==
  ASSUME EngineInv, Clients, SchedInv', AdmitHasWork'
  PROVE  EngineInv'
<1> USE DEF EngineInv
<1>1. ASSUME NEW r \in Request, Submit(r)
      PROVE  EngineInv'
  <2>1. CASE ~closed
    <3>1. /\ AddRequest(r) /\ outQueue' = outQueue \cup {r}
          /\ answer' = [answer EXCEPT ![r] = "pending"]
          /\ caller' = [caller EXCEPT ![r] = "added"]
          /\ UNCHANGED <<loop, deliver, popped, abortQueue, closed, closer, taken>>
      BY <1>1, <2>1 DEF Submit, loopVars
    <3>2. /\ status[r] = "NONE" /\ status' = [status EXCEPT ![r] = "WAITING"]
          /\ UNCHANGED <<inFlight, out>>
      BY <3>1 DEF AddRequest
    <3>3. status \in [Request -> Status]
      BY DEF SchedInv, SchedTypeOK
    <3>4. EngineShape'
      BY <3>1 DEF EngineShape, Answer, CallerState
    <3>5. r \notin deliver /\ r \notin popped /\ taken = {}
      BY <3>2, <2>1 DEF LoopPhases, IsFinished, Terminal, ClosePhases
    <3>6. LoopPhases' /\ LoopNeverCrashes'
      BY <3>1, <3>2, <3>3, <3>5 DEF LoopPhases, LoopNeverCrashes, IsFinished, EngineShape
    <3>7. ClosePhases'
      BY <3>1, <2>1 DEF ClosePhases
    <3>8. FutureHasState'
      BY <3>1, <3>2, <3>3 DEF FutureHasState, EngineShape
    <3>9. PendingHasOneOwner'
      BY <3>1, <3>5 DEF PendingHasOneOwner, EngineShape
    <3> QED
      BY <3>4, <3>6, <3>7, <3>8, <3>9
  <2>2. CASE closed
    <3>1. /\ caller' = [caller EXCEPT ![r] = "rejected"]
          /\ UNCHANGED <<schedVars, outQueue, answer, loop, deliver, popped, abortQueue,
                         closed, closer, taken>>
      BY <1>1, <2>2 DEF Submit, loopVars
    <3> QED
      BY <3>1 DEF EngineShape, CallerState, LoopPhases, LoopNeverCrashes, ClosePhases,
                  FutureHasState, PendingHasOneOwner, IsFinished, schedVars
  <2> QED
    BY <2>1, <2>2 DEF EngineShape
<1>2. ASSUME NEW r \in Request, ClientAbort(r)
      PROVE  EngineInv'
  <2>1. /\ caller' \in [Request -> CallerState]
        /\ answer' \in [Request -> Answer]
        /\ abortQueue' \in SUBSET Request
        /\ \A q \in Request : answer'[q] = "pending" => answer[q] = "pending"
        /\ UNCHANGED <<schedVars, loop, deliver, popped, outQueue, closed, closer, taken>>
    BY <1>2 DEF ClientAbort, EngineShape, CallerState, Answer, loopVars
  <2> QED
    BY <2>1 DEF EngineShape, LoopPhases, LoopNeverCrashes, ClosePhases, FutureHasState,
                PendingHasOneOwner, IsFinished, schedVars
<1>3. ASSUME NEW r \in Request, Lookup(r) \/ Return(r)
      PROVE  EngineInv'
  <2>1. /\ caller' \in [Request -> CallerState]
        /\ UNCHANGED <<schedVars, loop, deliver, popped, outQueue, abortQueue, answer,
                       closed, closer, taken>>
    BY <1>3 DEF Lookup, Return, EngineShape, CallerState, loopVars
  <2> QED
    BY <2>1 DEF EngineShape, LoopPhases, LoopNeverCrashes, ClosePhases, FutureHasState,
                PendingHasOneOwner, IsFinished, schedVars
<1> QED
  BY <1>1, <1>2, <1>3 DEF Clients

LEMMA ClosingStep ==
  ASSUME EngineInv, Closing, SchedInv', AdmitHasWork'
  PROVE  EngineInv'
<1> USE DEF EngineInv
<1>1. CASE CloseBegin
  <2>1. /\ ~closed /\ closed' = TRUE /\ taken' = outQueue /\ outQueue' = {}
        /\ closer' = "answer"
        /\ UNCHANGED <<schedVars, loop, deliver, popped, abortQueue, answer, caller>>
    BY <1>1 DEF CloseBegin, loopVars
  <2>2. EngineShape'
    BY <2>1 DEF EngineShape, CloserState
  <2>3. LoopPhases' /\ LoopNeverCrashes' /\ FutureHasState'
    BY <2>1 DEF LoopPhases, LoopNeverCrashes, FutureHasState, IsFinished, schedVars
  <2>4. ClosePhases'
    BY <2>1 DEF ClosePhases
  <2>5. PendingHasOneOwner'
    BY <2>1 DEF PendingHasOneOwner, ClosePhases
  <2> QED
    BY <2>2, <2>3, <2>4, <2>5
<1>2. CASE CloseAnswer
  <2>1. /\ closer = "answer" /\ closer' = "join" /\ taken' = {}
        /\ answer' = [r \in Request |-> IF r \in taken /\ answer[r] = "pending" THEN "closed" ELSE answer[r]]
        /\ UNCHANGED <<schedVars, loop, deliver, popped, abortQueue, outQueue, caller, closed>>
    BY <1>2 DEF CloseAnswer, loopVars
  <2>2. EngineShape'
    BY <2>1 DEF EngineShape, CloserState, Answer
  <2>3. LoopPhases' /\ LoopNeverCrashes' /\ FutureHasState'
    BY <2>1 DEF LoopPhases, LoopNeverCrashes, FutureHasState, IsFinished, schedVars
  <2>4. ClosePhases'
    BY <2>1 DEF ClosePhases
  <2>5. PendingHasOneOwner'
    BY <2>1 DEF PendingHasOneOwner
  <2> QED
    BY <2>2, <2>3, <2>4, <2>5
<1>3. CASE CloseJoin
  <2>1. /\ closer = "join"
        /\ UNCHANGED <<loop, deliver, popped, abortQueue, outQueue, answer, caller, closed, taken>>
    BY <1>3 DEF CloseJoin, loopVars
  <2>2. CASE loop \in {"exited", "crashed"}
    <3>1. SchedClose /\ closer' = "done"
      BY <1>3, <2>2 DEF CloseJoin
    <3>2. outQueue = {} /\ popped = {} /\ deliver = {} /\ closed
      BY <2>1, <2>2 DEF ClosePhases, LoopPhases, EngineShape
    <3>3. EngineShape' /\ ClosePhases' /\ FutureHasState' /\ LoopNeverCrashes'
      BY <2>1, <2>2, <3>1, <3>2 DEF EngineShape, ClosePhases, CloserState, FutureHasState, LoopNeverCrashes
    <3>4. LoopPhases' /\ PendingHasOneOwner'
      BY <2>1, <3>1, <3>2 DEF LoopPhases, PendingHasOneOwner, SchedClose
    <3> QED
      BY <3>3, <3>4
  <2>3. CASE loop \notin {"exited", "crashed"}
    <3>1. closer' = "deferred" /\ UNCHANGED schedVars
      BY <1>3, <2>3 DEF CloseJoin
    <3> QED
      BY <2>1, <3>1 DEF EngineShape, LoopPhases, LoopNeverCrashes, ClosePhases, CloserState,
                        FutureHasState, PendingHasOneOwner, IsFinished, schedVars
  <2> QED
    BY <2>2, <2>3
<1>4. CASE CloseAgain
  BY <1>4 DEF CloseAgain, EngineShape, LoopPhases, LoopNeverCrashes, ClosePhases, CloserState,
              FutureHasState, PendingHasOneOwner, IsFinished, schedVars, loopVars
<1> QED
  BY <1>1, <1>2, <1>3, <1>4 DEF Closing

LEMMA DrainKeeps ==
  ASSUME EngineInv, DrainAborts
  PROVE  /\ UNCHANGED <<inFlight, out>>
         /\ abortQueue' = {}
         /\ \A r \in Request : IsFinished(r) => IsFinished(r)'
         /\ \A r \in Request : status[r] # "NONE" => status'[r] # "NONE"
<1> DEFINE live == {r \in abortQueue : status[r] # "NONE" /\ ~IsFinished(r)}
<1>1. /\ UNCHANGED <<inFlight, out>> /\ abortQueue' = {}
      /\ status' = [r \in Request |-> IF r \in live THEN "FINISHED_ABORTED" ELSE status[r]]
  BY DEF DrainAborts, FinishRequests, Finish
<1> QED
  BY <1>1 DEF IsFinished, Terminal

LEMMA LoopStep ==
  ASSUME EngineInv, BusyLoop, SchedInv', AdmitHasWork'
  PROVE  EngineInv'
<1> USE DEF EngineInv
<1>1. CASE LoopHead
  <2>1. /\ loop = "head" /\ deliver = {} /\ popped = {} /\ ~inFlight
        /\ UNCHANGED <<outQueue, answer, deliver, popped, caller, closed, closer, taken>>
    BY <1>1 DEF LoopHead, LoopPhases, EngineShape
  <2>2. CASE closed
    <3>1. loop' = "exited" /\ UNCHANGED <<schedVars, abortQueue>>
      BY <1>1, <2>2 DEF LoopHead
    <3> QED
      BY <2>1, <3>1 DEF EngineShape, LoopState, LoopPhases, LoopNeverCrashes, ClosePhases,
                        FutureHasState, PendingHasOneOwner, IsFinished, schedVars
  <2>3. CASE ~closed
    <3>1. DrainAborts /\ loop' = "wait"
      BY <1>1, <2>3 DEF LoopHead
    <3>2. /\ UNCHANGED <<inFlight, out>> /\ abortQueue' = {}
          /\ \A r \in Request : status[r] # "NONE" => status'[r] # "NONE"
      BY <3>1, DrainKeeps
    <3> QED
      BY <2>1, <3>1, <3>2 DEF EngineShape, LoopState, LoopPhases, LoopNeverCrashes, ClosePhases,
                              FutureHasState, PendingHasOneOwner
  <2> QED
    BY <2>2, <2>3
<1>2. CASE LoopWake
  <2>1. /\ loop = "wait" /\ loop' \in {"exited", "head", "admit"}
        /\ UNCHANGED <<schedVars, abortQueue, outQueue, answer, deliver, popped, caller,
                       closed, closer, taken>>
    BY <1>2 DEF LoopWake
  <2>2. deliver = {} /\ popped = {} /\ ~inFlight
    BY <2>1 DEF LoopPhases, EngineShape
  <2> QED
    BY <2>1, <2>2 DEF EngineShape, LoopState, LoopPhases, LoopNeverCrashes, ClosePhases,
                      FutureHasState, PendingHasOneOwner, IsFinished, schedVars
<1>3. CASE LoopSchedule
  <2>1. /\ loop = "admit" /\ Schedule
        /\ UNCHANGED <<abortQueue, outQueue, answer, popped, caller, closed, closer, taken>>
        /\ IF IsEmpty(out') THEN loop' = "deliver" /\ deliver' = out'.finished
                            ELSE loop' = "exec" /\ UNCHANGED deliver
    BY <1>3 DEF LoopSchedule
  <2>2. deliver = {} /\ popped = {} /\ ~inFlight
    BY <2>1 DEF LoopPhases
  <2>3. PICK n \in 0..Len(waiting) :
          LET admitted == {waiting[i] : i \in 1..n}
              new == {r \in admitted : status[r] = "WAITING"}
          IN  /\ status' = [r \in Request |-> IF r \in admitted THEN "RUNNING" ELSE status[r]]
              /\ out' = [new |-> new, cached |-> running \cup (admitted \ new),
                         finished |-> finishedReqIds]
              /\ inFlight' = (running \cup admitted # {})
    BY <2>1 DEF Schedule
  <2>4. inFlight' <=> ~IsEmpty(out')
    BY <2>3 DEF IsEmpty, Scheduled
  <2>5. \A r \in Request : status[r] # "NONE" => status'[r] # "NONE"
    BY <2>3
  <2>6. ~IsEmpty(out')
    BY <2>1, ScheduleFindsWork DEF AdmitHasWork
  <2>7. loop' = "exec" /\ deliver' = {} /\ inFlight'
    BY <2>1, <2>2, <2>4, <2>6
  <2>8. LoopPhases' /\ LoopNeverCrashes'
    BY <2>1, <2>2, <2>7 DEF LoopPhases, LoopNeverCrashes
  <2>9. EngineShape' /\ ClosePhases'
    BY <2>1, <2>7 DEF EngineShape, LoopState, ClosePhases
  <2>10. FutureHasState' /\ PendingHasOneOwner'
    BY <2>1, <2>5 DEF FutureHasState, PendingHasOneOwner, EngineShape
  <2> QED
    BY <2>8, <2>9, <2>10
<1>4. CASE LoopExecuted
  <2>1. /\ loop = "exec" /\ loop' = "aborts"
        /\ UNCHANGED <<schedVars, abortQueue, outQueue, answer, deliver, popped, caller,
                       closed, closer, taken>>
    BY <1>4 DEF LoopExecuted
  <2> QED
    BY <2>1 DEF EngineShape, LoopState, LoopPhases, LoopNeverCrashes, ClosePhases,
                FutureHasState, PendingHasOneOwner, IsFinished, schedVars
<1>5. CASE LoopAborts
  <2>1. /\ loop = "aborts" /\ DrainAborts /\ loop' = "update"
        /\ UNCHANGED <<outQueue, answer, deliver, popped, caller, closed, closer, taken>>
    BY <1>5 DEF LoopAborts
  <2>2. deliver = {} /\ popped = {} /\ inFlight
    BY <2>1 DEF LoopPhases
  <2>3. /\ UNCHANGED <<inFlight, out>> /\ abortQueue' = {}
        /\ \A r \in Request : status[r] # "NONE" => status'[r] # "NONE"
    BY <2>1, DrainKeeps
  <2> QED
    BY <2>1, <2>2, <2>3 DEF EngineShape, LoopState, LoopPhases, LoopNeverCrashes, ClosePhases,
                            FutureHasState, PendingHasOneOwner
<1>6. CASE LoopUpdate
  <2>1. /\ loop = "update" /\ loop' = "deliver" /\ deliver' = returned'
        /\ UNCHANGED <<abortQueue, outQueue, answer, popped, caller, closed, closer, taken>>
    BY <1>6 DEF LoopUpdate
  <2>2. PICK res \in [Scheduled(out) -> RunnerResult] :
            /\ \A r \in Live : RunnerMayReport(r, res[r])
            /\ UpdateFromOutput(res, StepReported)
    BY <1>6 DEF LoopUpdate, Update
  <2>3. deliver' = {r \in Scheduled(out) : status'[r] \in Terminal}
    BY <2>1, <2>2, UpdateKeeps
  <2>4. popped = {} /\ ~inFlight'
    BY <2>1, <2>2 DEF LoopPhases, UpdateFromOutput
  <2>5. \A r \in Request : status[r] # "NONE" => status'[r] # "NONE"
    <3> DEFINE outc == [r \in Live |-> StatusFrom(res[r])]
               done == {r \in Live : outc[r] # "RUNNING"}
    <3>1. \A r \in Live : outc[r] # "NONE"
      <4>1. \A r \in Live : res[r] \in RunnerResult
        BY DEF Live
      <4> QED
        BY <4>1 DEF StatusFrom, RunnerResult
    <3>2. status' = [r \in Request |-> IF r \in done THEN outc[r] ELSE status[r]]
      BY <2>2 DEF UpdateFromOutput, Finish
    <3>3. \A r \in done : outc[r] # "NONE"
      BY <3>1
    <3> HIDE DEF outc, done
    <3> QED
      BY <3>2, <3>3
  <2>6. deliver' \in SUBSET Request
    BY <2>1 DEF SchedInv, SchedTypeOK
  <2>7. LoopPhases' /\ LoopNeverCrashes'
    BY <2>1, <2>3, <2>4 DEF LoopPhases, LoopNeverCrashes, IsFinished
  <2>8. EngineShape' /\ ClosePhases'
    BY <2>1, <2>6 DEF EngineShape, LoopState, ClosePhases
  <2>9. FutureHasState' /\ PendingHasOneOwner'
    BY <2>1, <2>5 DEF FutureHasState, PendingHasOneOwner, EngineShape
  <2> QED
    BY <2>7, <2>8, <2>9
<1>7. ASSUME NEW r \in Request, DeliverPop(r)
      PROVE  EngineInv'
  <2>1. /\ loop = "deliver" /\ popped = {} /\ r \in deliver
        /\ deliver' = deliver \ {r} /\ popped' = outQueue \cap {r} /\ outQueue' = outQueue \ {r}
        /\ UNCHANGED <<schedVars, loop, abortQueue, answer, caller, closed, closer, taken>>
    BY <1>7 DEF DeliverPop
  <2>2. EngineShape' /\ ClosePhases' /\ FutureHasState'
    BY <2>1 DEF EngineShape, ClosePhases, FutureHasState, schedVars
  <2>3. LoopPhases' /\ LoopNeverCrashes'
    BY <2>1 DEF LoopPhases, LoopNeverCrashes, IsFinished, schedVars
  <2>4. PendingHasOneOwner'
    BY <2>1 DEF PendingHasOneOwner
  <2> QED
    BY <2>2, <2>3, <2>4
<1>8. ASSUME NEW r \in Request, DeliverFinalize(r)
      PROVE  EngineInv'
  <2>1. /\ loop = "deliver" /\ r \in popped /\ IsFinished(r) /\ status[r] # "NONE"
        /\ UNCHANGED <<abortQueue, outQueue, deliver, caller, closed, closer, taken>>
    BY <1>8 DEF DeliverFinalize, LoopPhases, IsFinished, Terminal
  <2>2. /\ PopRequestState(r) /\ Resolve(r, AnswerFor(status[r])) /\ popped' = {} /\ loop' = loop
    BY <1>8, <2>1 DEF DeliverFinalize
  <2>3. /\ status' = [status EXCEPT ![r] = "NONE"] /\ UNCHANGED <<inFlight, out>>
        /\ status \in [Request -> Status]
    BY <2>2 DEF PopRequestState, SchedInv, SchedTypeOK
  <2>4. /\ answer' \in [Request -> Answer]
        /\ answer'[r] # "pending"
        /\ \A q \in Request : answer'[q] = "pending" => answer[q] = "pending" /\ q # r
    <3>1. AnswerFor(status[r]) \in {"aborted", "output", "error"}
      BY DEF AnswerFor
    <3> QED
      BY <3>1, <2>2 DEF Resolve, EngineShape, Answer
  <2>5. popped = {r}
    BY <2>1 DEF LoopPhases
  <2>6. EngineShape' /\ ClosePhases'
    BY <2>1, <2>2, <2>4 DEF EngineShape, ClosePhases
  <2>7. FutureHasState' /\ PendingHasOneOwner'
    BY <2>1, <2>2, <2>3, <2>4, <2>5 DEF FutureHasState, PendingHasOneOwner, EngineShape
  <2>8. LoopPhases' /\ LoopNeverCrashes'
    <3>1. \A q \in deliver : q # r /\ q \in Request
      BY <2>1 DEF LoopPhases, EngineShape
    <3> QED
      BY <3>1, <2>1, <2>2, <2>3 DEF LoopPhases, LoopNeverCrashes, IsFinished
  <2> QED
    BY <2>6, <2>7, <2>8
<1>9. CASE DeliverDone
  <2>1. /\ loop = "deliver" /\ deliver = {} /\ popped = {} /\ loop' = "head"
        /\ UNCHANGED <<schedVars, abortQueue, outQueue, answer, deliver, popped, caller,
                       closed, closer, taken>>
    BY <1>9 DEF DeliverDone
  <2> QED
    BY <2>1 DEF EngineShape, LoopState, LoopPhases, LoopNeverCrashes, ClosePhases,
                FutureHasState, PendingHasOneOwner, IsFinished, schedVars
<1> QED
  BY <1>1, <1>2, <1>3, <1>4, <1>5, <1>6, <1>7, <1>8, <1>9 DEF BusyLoop

\* Every step of the engine keeps its invariant.
LEMMA NextKeepsEngineInv == EngineInv /\ [EngineNext]_engineVars => EngineInv'
<1> SUFFICES ASSUME EngineInv, [EngineNext]_engineVars PROVE EngineInv'
  OBVIOUS
<1>1. SchedInv'
  BY EngineStepIsSchedStep, NextKeepsSchedInv DEF EngineInv
<1>2. CASE EngineNext
  <2>1. AdmitHasWork'
    BY <1>2, AdmitKeepsWork
  <2>2. CASE UNCHANGED engineVars
    BY <1>1, <2>1, <2>2 DEF engineVars, schedVars, EngineInv, EngineShape, LoopPhases,
                ClosePhases, FutureHasState, LoopNeverCrashes, PendingHasOneOwner, IsFinished
  <2> QED
    BY <1>1, <1>2, <2>1, <2>2, LoopStep, ClientStep, ClosingStep DEF EngineNext, Idle
<1>3. CASE UNCHANGED engineVars
  BY <1>1, <1>3 DEF engineVars, schedVars, EngineInv, EngineShape, LoopPhases, AdmitHasWork,
                ClosePhases, FutureHasState, LoopNeverCrashes, PendingHasOneOwner, IsFinished,
                HasRequests
<1> QED
  BY <1>2, <1>3

-----------------------------------------------------------------------------
\* The invariant holds in every behaviour: of the busy loop, its callers, their
\* aborts and close(), in any order.
THEOREM EngineInvariant == EngineSafety => []EngineInv
<1>1. EngineInit => EngineInv
  BY EngineInitInv
<1>2. EngineInv /\ [EngineNext]_engineVars => EngineInv'
  BY NextKeepsEngineInv
<1> QED
  BY <1>1, <1>2, PTL DEF EngineSafety

\* Every engine variable keeps its shape.
THEOREM EngineTypes == EngineSafety => []EngineTypeOK
<1>1. EngineInv => EngineTypeOK
  BY DEF EngineInv, SchedInv, EngineShape, EngineTypeOK
<1> QED
  BY <1>1, EngineInvariant, PTL

\* Refinement: what the engine does with its scheduler is a behaviour of the
\* scheduler's specification, so that every theorem about that one holds here.
THEOREM EngineImplementsScheduler == EngineSafety => UsesScheduler
<1>1. EngineInit => SchedInit
  BY DEF EngineInit
<1>2. EngineInv /\ [EngineNext]_engineVars => [SchedNext]_schedVars
  BY EngineStepIsSchedStep DEF EngineInv
<1> QED
  BY <1>1, <1>2, EngineInvariant, PTL DEF EngineSafety, UsesScheduler, SchedSafety

\* The busy loop never meets a popped future whose scheduler state is gone.
THEOREM LoopSurvives == EngineSafety => []LoopNeverCrashes
BY EngineInvariant, PTL DEF EngineInv

\* A pending future is always held by exactly one of those who may answer it.
THEOREM FuturesHaveOneOwner == EngineSafety => []PendingHasOneOwner
BY EngineInvariant, PTL DEF EngineInv

\* The empty-output branch of the busy loop is never taken: schedule() is called
\* with requests in the queues, and then always finds work.
THEOREM EmptyOutputIsNeverSeen == EngineSafety => [][LoopSchedule => ~IsEmpty(out')]_engineVars
<1>1. EngineInv /\ LoopSchedule => ~IsEmpty(out')
  BY ScheduleFindsWork DEF LoopSchedule, EngineInv, AdmitHasWork
<1>2. EngineInv /\ [EngineNext]_engineVars => [LoopSchedule => ~IsEmpty(out')]_engineVars
  BY <1>1
<1> QED
  BY <1>2, EngineInvariant, PTL DEF EngineSafety

-----------------------------------------------------------------------------
\* Only add_request gives a request a state.
LEMMA OnlySubmitAddsState ==
  ASSUME EngineInv, [EngineNext]_engineVars, NEW r \in Request,
         status[r] = "NONE", status'[r] # "NONE"
  PROVE  Submit(r) /\ ~closed
<1> USE DEF EngineInv
<1>0. status \in [Request -> Status] /\ r \notin Queued
  BY DEF SchedInv, SchedTypeOK, QueuesMatchStates, WaitingMatchesStatus
<1>1. ASSUME NEW S, NEW outcome, Finish(S, outcome), r \notin S
      PROVE  FALSE
  BY <1>1 DEF Finish
<1>2. ~DrainAborts
  <2> SUFFICES ASSUME DrainAborts PROVE FALSE
    OBVIOUS
  <2> DEFINE live == {q \in abortQueue : status[q] # "NONE" /\ ~IsFinished(q)}
  <2>1. Finish(live, [q \in live |-> "FINISHED_ABORTED"]) /\ r \notin live
    BY DEF DrainAborts, FinishRequests
  <2> QED
    BY <2>1, <1>1
<1>3. ~LoopUpdate
  <2> SUFFICES ASSUME LoopUpdate PROVE FALSE
    OBVIOUS
  <2>1. PICK res \in [Scheduled(out) -> RunnerResult] : UpdateFromOutput(res, StepReported)
    BY DEF LoopUpdate, Update
  <2> DEFINE outcome == [q \in Live |-> StatusFrom(res[q])]
             done == {q \in Live : outcome[q] # "RUNNING"}
  <2>2. Finish(done, outcome)
    BY <2>1 DEF UpdateFromOutput
  <2>3. r \notin done
    BY DEF Live
  <2> QED
    BY <2>2, <2>3, <1>1
<1>4. ~LoopSchedule
  <2> SUFFICES ASSUME LoopSchedule PROVE FALSE
    OBVIOUS
  <2>1. PICK n \in 0..Len(waiting) :
          status' = [q \in Request |-> IF q \in {waiting[i] : i \in 1..n} THEN "RUNNING" ELSE status[q]]
    BY DEF LoopSchedule, Schedule
  <2>2. {waiting[i] : i \in 1..n} \subseteq Queued
    BY AdmittedPrefix DEF SchedInv, QueuesMatchStates
  <2> QED
    BY <2>1, <2>2, <1>0
<1>5. ~BusyLoop
  BY <1>0, <1>2, <1>3, <1>4 DEF BusyLoop, LoopHead, LoopWake, LoopExecuted, LoopAborts,
     DeliverPop, DeliverFinalize, DeliverDone, PopRequestState, schedVars
<1>6. ~Closing /\ ~Idle /\ ~UNCHANGED engineVars
  BY DEF Closing, CloseBegin, CloseAnswer, CloseJoin, CloseAgain, SchedClose, Idle,
         engineVars, schedVars
<1>7. \A q \in Request : ~Lookup(q) /\ ~Return(q) /\ ~ClientAbort(q)
  BY DEF Lookup, Return, ClientAbort, schedVars
<1>8. PICK q \in Request : Submit(q)
  BY <1>5, <1>6, <1>7 DEF EngineNext, Clients
<1> QED
  BY <1>0, <1>8 DEF Submit, AddRequest, schedVars

\* A request the loop has answered has no state left, and its id may be used
\* again.
THEOREM AnsweredRequestIsForgotten == EngineSafety => []AnsweredIsForgotten
<1>1. EngineInit => AnsweredIsForgotten
  BY DEF EngineInit, AnsweredIsForgotten
<1>2. EngineInv /\ AnsweredIsForgotten /\ [EngineNext]_engineVars => AnsweredIsForgotten'
  <2> SUFFICES ASSUME EngineInv, AnsweredIsForgotten, [EngineNext]_engineVars,
                      NEW r \in Request, answer'[r] \in {"output", "aborted", "error"},
                      status'[r] # "NONE"
               PROVE  FALSE
    BY DEF AnsweredIsForgotten
  <2> USE DEF EngineInv
  <2>1. answer \in [Request -> Answer] /\ status \in [Request -> Status]
    BY DEF EngineShape, SchedInv, SchedTypeOK
  <2>2. CASE status[r] = "NONE"
    <3>1. Submit(r) /\ ~closed
      BY <2>2, OnlySubmitAddsState
    <3> QED
      BY <3>1, <2>1 DEF Submit
  <2>3. CASE status[r] # "NONE"
    <3>1. answer[r] \notin {"output", "aborted", "error"}
      BY <2>3 DEF AnsweredIsForgotten
    <3>2. \A q \in Request : ~Submit(q) /\ ~ClientAbort(q) /\ ~Lookup(q) /\ ~Return(q)
      BY <3>1, <2>1 DEF Submit, ClientAbort, Lookup, Return
    <3>3. ~Closing
      BY <3>1, <2>1 DEF Closing, CloseBegin, CloseAnswer, CloseJoin, CloseAgain
    <3>4. ~Idle /\ ~UNCHANGED engineVars
      BY <3>1 DEF Idle, engineVars
    <3>5. BusyLoop
      BY <3>2, <3>3, <3>4 DEF EngineNext, Clients
    <3>6. PICK q \in Request : DeliverFinalize(q)
      BY <3>1, <3>5 DEF BusyLoop, LoopHead, LoopWake, LoopSchedule, LoopExecuted,
         LoopAborts, LoopUpdate, DeliverPop, DeliverDone
    <3>7. PopRequestState(q) /\ Resolve(q, AnswerFor(status[q]))
      BY <3>1, <3>6 DEF DeliverFinalize
    <3> QED
      BY <3>1, <3>7, <2>1, <2>3 DEF Resolve, PopRequestState
  <2> QED
    BY <2>2, <2>3
<1> QED
  BY <1>1, <1>2, EngineInvariant, PTL DEF EngineSafety

\* After close() the scheduler holds no state.
ClosedForgets == closer = "done" => \A r \in Request : status[r] = "NONE"

\* When close() is complete nobody waits for a future that is never completed.
THEOREM CloseLeavesNobodyWaiting == EngineSafety => []CloseIsComplete
<1>1. EngineInit => ClosedForgets
  BY DEF EngineInit, ClosedForgets
<1>2. EngineInv /\ ClosedForgets /\ [EngineNext]_engineVars => ClosedForgets'
  <2> SUFFICES ASSUME EngineInv, ClosedForgets, [EngineNext]_engineVars, closer' = "done",
                      NEW r \in Request, status'[r] # "NONE"
               PROVE  FALSE
    BY DEF ClosedForgets
  <2>1. CASE closer = "done"
    <3>1. closed
      BY <2>1 DEF EngineInv, ClosePhases, EngineShape
    <3> QED
      BY <3>1, <2>1, OnlySubmitAddsState DEF ClosedForgets
  <2>2. CASE closer # "done"
    <3>1. CloseJoin
      BY <2>2 DEF EngineNext, BusyLoop, LoopHead, LoopWake, LoopSchedule, LoopExecuted,
         LoopAborts, LoopUpdate, DeliverPop, DeliverFinalize, DeliverDone, Clients, Submit,
         Lookup, Return, ClientAbort, Closing, CloseBegin, CloseAnswer, CloseAgain, Idle,
         engineVars
    <3> QED
      BY <3>1 DEF CloseJoin, SchedClose
  <2> QED
    BY <2>1, <2>2
<1>3. EngineInv /\ ClosedForgets => CloseIsComplete
  <2> SUFFICES ASSUME EngineInv, ClosedForgets, closer = "done" PROVE
               /\ outQueue = {} /\ popped = {} /\ taken = {}
               /\ \A r \in Request : answer[r] # "pending" /\ status[r] = "NONE"
               /\ ~inFlight
    BY DEF CloseIsComplete
  <2>1. closed /\ loop \in {"exited", "crashed"}
    BY DEF EngineInv, ClosePhases, EngineShape
  <2>2. outQueue = {} /\ popped = {} /\ taken = {} /\ ~inFlight
    BY <2>1 DEF EngineInv, ClosePhases, LoopPhases
  <2> QED
    BY <2>2 DEF EngineInv, PendingHasOneOwner, ClosedForgets
<1> QED
  BY <1>1, <1>2, <1>3, EngineInvariant, PTL DEF EngineSafety

\* The engine's threads, callers and close() leave the scheduler's promises
\* standing: every theorem about SchedSafety is one about EngineSafety.
THEOREM EngineServesInOrder ==
  EngineSafety => /\ []QueuesMatchStates /\ []HomogeneousBatch /\ []BatchWithinCapacity
                  /\ TerminalIsFinal /\ NoOvertaking
BY EngineImplementsScheduler, QueuesAgreeWithStates, BatchIsHomogeneous, BatchIsBounded,
   TerminalStatusIsFinal, FirstComeFirstServed DEF UsesScheduler
=============================================================================
