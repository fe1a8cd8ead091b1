-------------------------- MODULE StepRunner_proofs --------------------------
(* Proofs about StepRunner: the worker, whatever fails on its side, stays in *)
(* step with the scheduler, and together they implement DiffusionScheduler.  *)
EXTENDS StepRunner, DiffusionScheduler_proofs

-----------------------------------------------------------------------------
(* The inductive invariant: the properties, and what ties the two sides       *)
(* together between an output and the next.                                   *)

WorkerTypeOK ==
    /\ stateCache \in [Request -> Int]
    /\ \A r \in Request : stateCache[r] = NotCached \/ stateCache[r] \in 0..TotalSteps
    /\ adapters \in SUBSET Request
    /\ unheard \in SUBSET Request

\* The requests the worker has been told of: begun, and not by this output.
Known == {r \in Begun : ~(inFlight /\ r \in out.new)}

\* What the worker has of a request it knows: an adapter, and no end to come.
KnownIsHeld == \A r \in Known : r \in adapters /\ r \notin Ending

\* An id that has begun is not among those finished since the last output.
BegunNotFinished == \A r \in Begun : r \notin finishedReqIds

\* An output holds the whole batch, and an id it calls new is not one it goes on
\* with; none of its ids completes before it is updated from.
OutputIsBatch ==
    inFlight => /\ running \subseteq Scheduled(out)
                /\ out.new \cap out.cached = {}
                /\ \A r \in Scheduled(out) : status[r] # "FINISHED_COMPLETED"
                /\ \A r \in out.cached : /\ stateCache[r] \in 1..(TotalSteps - 1)
                                         /\ stateCache[r] = progress[r]
                                         /\ r \in adapters
                                         /\ r \notin out.finished

RunnerInv ==
    /\ SchedInv
    /\ WorkerTypeOK
    /\ KnownIsHeld
    /\ BegunNotFinished
    /\ OutputIsBatch
    /\ CacheAccounted
    /\ NothingRefused
    /\ StepsAgree
    /\ ~inFlight => out = NoOutput

-----------------------------------------------------------------------------
(* Lemmas: the beginning, the calls that stay on the scheduler's side, and an *)
(* execution.                                                                 *)

\* Nothing is queued, cached or in flight at the start.
LEMMA InitRunnerInv == RunnerInit => RunnerInv
<1> SUFFICES ASSUME RunnerInit PROVE RunnerInv
  OBVIOUS
<1>1. SchedInv
  BY InitSchedInv DEF RunnerInit
<1>2. /\ status = [r \in Request |-> "NONE"] /\ finishedReqIds = {} /\ out = NoOutput
      /\ inFlight = FALSE /\ stateCache = [r \in Request |-> NotCached]
      /\ adapters = {} /\ unheard = {}
  BY DEF RunnerInit, SchedInit
<1>3. Begun = {} /\ Cached = {} /\ Ending = {}
  BY <1>2 DEF Begun, Cached, Ending
<1>4. WorkerTypeOK
  BY <1>2, StepAssumption DEF WorkerTypeOK, NotCached
<1> QED
  BY <1>1, <1>2, <1>3, <1>4 DEF RunnerInv, KnownIsHeld, Known, BegunNotFinished,
     OutputIsBatch, CacheAccounted, NothingRefused, StepsAgree

\* Adding a request leaves the worker, and the requests it knows, as they are.
LEMMA AddRunnerKeeps ==
  ASSUME RunnerInv, NEW r \in Request, AddRequest(r), UNCHANGED workerVars
  PROVE  RunnerInv'
<1>1. SchedInv'
  BY AddKeeps DEF RunnerInv
<1>2. /\ status[r] = "NONE" /\ status \in [Request -> Status]
      /\ status' = [status EXCEPT ![r] = "WAITING"]
      /\ \A q \in Request : q # r => progress'[q] = progress[q]
      /\ UNCHANGED <<running, finishedReqIds, out, inFlight, stateCache, adapters, unheard>>
  BY DEF AddRequest, RunnerInv, SchedInv, SchedTypeOK, workerVars
<1>3. Begun' = Begun /\ Ending' = Ending /\ Cached' = Cached /\ r \notin Begun
  BY <1>2 DEF Begun, Ending, Cached
<1>4. Scheduled(out') = Scheduled(out) /\ Heard' = Heard /\ Known' = Known
      /\ Duplicate' = Duplicate /\ Missing' = Missing
  BY <1>2, <1>3 DEF Scheduled, Heard, Known, Duplicate, Missing
<1>5. inFlight => r \notin Scheduled(out)
  BY <1>2 DEF RunnerInv, SchedInv, InFlightAccounted, IsFinished, Terminal,
              QueuesMatchStates, RunningMatchesStatus
<1>6. WorkerTypeOK' /\ KnownIsHeld' /\ BegunNotFinished' /\ (~inFlight' => out' = NoOutput)
  BY <1>2, <1>3, <1>4 DEF RunnerInv, WorkerTypeOK, KnownIsHeld, BegunNotFinished
<1>7. OutputIsBatch'
  BY <1>2, <1>4, <1>5 DEF RunnerInv, OutputIsBatch, Scheduled, SchedInv, SchedTypeOK, SchedulerOutput
<1>8. CacheAccounted'
  BY <1>2, <1>3 DEF RunnerInv, CacheAccounted, Cached
<1>9. NothingRefused'
  BY <1>2, <1>4 DEF RunnerInv, NothingRefused
<1>10. StepsAgree'
  BY <1>2, <1>3 DEF RunnerInv, StepsAgree, Begun
<1> QED
  BY <1>1, <1>6, <1>7, <1>8, <1>9, <1>10 DEF RunnerInv
\* A schedule with requests hands the whole batch to the worker: the new ids it
\* was never told of, or told the end of, the others it holds.
LEMMA ScheduleRunnerKeeps ==
  ASSUME RunnerInv, HasRequests, Schedule, UNCHANGED workerVars
  PROVE  RunnerInv'
<1>0. SchedInv /\ SchedInv'
  BY ScheduleKeeps DEF RunnerInv
<1>1. PICK n \in 0..Len(waiting) :
        /\ AdmitCount(n)
        /\ LET admitted == {waiting[i] : i \in 1..n}
               new == {r \in admitted : status[r] = "WAITING"}
           IN  /\ status' = [r \in Request |-> IF r \in admitted THEN "RUNNING" ELSE status[r]]
               /\ running' = running \cup admitted
               /\ out' = [new |-> new, cached |-> running \cup (admitted \ new),
                          finished |-> finishedReqIds]
               /\ inFlight' = (running \cup admitted # {})
  BY DEF Schedule
<1> DEFINE admitted == {waiting[i] : i \in 1..n}
           new == {r \in admitted : status[r] = "WAITING"}
<1>2. /\ status' = [r \in Request |-> IF r \in admitted THEN "RUNNING" ELSE status[r]]
      /\ running' = running \cup admitted
      /\ out'.new = new /\ out'.cached = running \cup (admitted \ new)
      /\ out'.finished = finishedReqIds
      /\ inFlight' = (running \cup admitted # {})
  BY <1>1
<1>3. admitted \subseteq Queued
  BY <1>0, <1>1, AdmittedPrefix DEF SchedInv, QueuesMatchStates
<1>4. \A r \in admitted : r \in Request /\ status[r] \in {"WAITING", "PREEMPTED"}
  BY <1>0, <1>3 DEF SchedInv, QueuesMatchStates, WaitingMatchesStatus
<1> HIDE DEF admitted
<1>5. running = {r \in Request : status[r] = "RUNNING"}
  BY <1>0 DEF SchedInv, QueuesMatchStates, RunningMatchesStatus
<1>6. /\ ~inFlight /\ finishedReqIds' = {} /\ progress' = progress
      /\ stateCache' = stateCache /\ adapters' = adapters /\ unheard' = unheard
  BY DEF Schedule, workerVars
<1>7. inFlight'
  <2>1. Scheduled(out') # {}
    BY <1>0, ScheduleFindsWork DEF IsEmpty
  <2> QED
    BY <2>1, <1>2 DEF Scheduled
<1>8. Scheduled(out') = running' /\ new \cap out'.cached = {}
  BY <1>2, <1>5 DEF Scheduled
<1>9. /\ Begun' = Begun \cup new
      /\ out'.cached \subseteq Begun /\ new \cap Begun = {}
  BY <1>2, <1>4, <1>5 DEF Begun
<1>10. Ending = finishedReqIds /\ Ending' = finishedReqIds /\ Cached' = Cached
  BY <1>2, <1>6, <1>7 DEF Ending, Cached
<1>11. Known = Begun /\ Known' = Begun
  BY <1>2, <1>6, <1>7, <1>9 DEF Known
<1>12. \A r \in Begun : /\ r \in adapters /\ r \notin finishedReqIds
                        /\ stateCache[r] = progress[r] /\ progress[r] \in 1..(TotalSteps - 1)
  BY <1>6, <1>10, <1>11 DEF RunnerInv, KnownIsHeld, StepsAgree
<1>13. KnownIsHeld' /\ StepsAgree'
  BY <1>2, <1>6, <1>9, <1>10, <1>11, <1>12 DEF KnownIsHeld, StepsAgree
<1>14. WorkerTypeOK' /\ BegunNotFinished' /\ (~inFlight' => out' = NoOutput)
  BY <1>6, <1>7 DEF RunnerInv, WorkerTypeOK, BegunNotFinished
<1>15. OutputIsBatch'
  <2>1. \A r \in running' : status'[r] # "FINISHED_COMPLETED"
    BY <1>2, <1>4, <1>5
  <2> QED
    BY <2>1, <1>2, <1>6, <1>8, <1>9, <1>12 DEF OutputIsBatch
<1>16. CacheAccounted'
  <2>1. \A r \in Request : status[r] # "FINISHED_COMPLETED" => status'[r] # "FINISHED_COMPLETED"
    BY <1>2
  <2> QED
    BY <2>1, <1>6, <1>9, <1>10 DEF RunnerInv, CacheAccounted, Cached
<1>17. NothingRefused'
  <2>1. Duplicate' \subseteq unheard'
    <3> SUFFICES ASSUME NEW r \in new, r \in Request, Heard'[r] # NotCached
                 PROVE  r \in unheard
      BY <1>2, <1>4, <1>6 DEF Duplicate
    <3>1. r \notin finishedReqIds /\ stateCache[r] # NotCached
      BY <1>2, <1>6 DEF Heard
    <3> QED
      BY <3>1, <1>9, <1>10 DEF Cached, RunnerInv, CacheAccounted
  <2>2. \A r \in out'.cached : r \in Request /\ Heard'[r] = stateCache[r] /\ Heard'[r] # NotCached
    <3>1. \A r \in Begun : r \in Request
      BY DEF Begun
    <3>2. \A r \in Begun : Heard'[r] = stateCache[r]
      BY <3>1, <1>2, <1>6, <1>12 DEF Heard
    <3>3. \A r \in Begun : stateCache[r] # NotCached
      BY <1>12, StepAssumption DEF NotCached
    <3> QED
      BY <3>1, <3>2, <3>3, <1>9
  <2> QED
    BY <2>1, <2>2, <1>2, <1>6, <1>9, <1>12 DEF NothingRefused, Missing
<1> QED
  BY <1>0, <1>13, <1>14, <1>15, <1>16, <1>17 DEF RunnerInv

\* An abort, during an execution or between two, leaves an end to be told.
LEMMA AbortRunnerKeeps ==
  ASSUME RunnerInv, NEW r \in Request, FinishRequests({r}), UNCHANGED workerVars
  PROVE  RunnerInv'
<1>1. SchedInv'
  BY AbortKeeps DEF RunnerInv
<1> DEFINE live == {q \in {r} : status[q] # "NONE" /\ ~IsFinished(q)}
<1>2. /\ status' = [q \in Request |-> IF q \in live THEN "FINISHED_ABORTED" ELSE status[q]]
      /\ running' = running \ live
      /\ finishedReqIds' = finishedReqIds \cup live
      /\ progress' = progress /\ out' = out /\ inFlight' = inFlight
      /\ stateCache' = stateCache /\ adapters' = adapters /\ unheard' = unheard
  <2>1. Finish(live, [q \in live |-> "FINISHED_ABORTED"])
    BY DEF FinishRequests
  <2> QED
    BY <2>1 DEF FinishRequests, Finish, workerVars
<1> HIDE DEF live
<1>3. Begun' = Begun \ live /\ Ending' = Ending \cup live /\ Cached' = Cached
  BY <1>2 DEF Begun, Ending, Cached
<1>4. Scheduled(out') = Scheduled(out) /\ Heard' = Heard
      /\ Duplicate' = Duplicate /\ Missing' = Missing
  BY <1>2 DEF Scheduled, Heard, Duplicate, Missing
<1>5. Known' = Known \ live
  BY <1>2, <1>3 DEF Known
<1>6. \A q \in Request : status[q] # "FINISHED_COMPLETED" => status'[q] # "FINISHED_COMPLETED"
  BY <1>2
<1>7. Scheduled(out) \subseteq Request
  BY DEF RunnerInv, SchedInv, SchedTypeOK, SchedulerOutput, Scheduled
<1>8. WorkerTypeOK' /\ KnownIsHeld' /\ BegunNotFinished' /\ (~inFlight' => out' = NoOutput)
  BY <1>2, <1>3, <1>5 DEF RunnerInv, WorkerTypeOK, KnownIsHeld, BegunNotFinished
<1>9. OutputIsBatch'
  BY <1>2, <1>4, <1>6, <1>7 DEF RunnerInv, OutputIsBatch
<1>10. CacheAccounted'
  BY <1>2, <1>3, <1>6 DEF RunnerInv, CacheAccounted, Cached
<1>11. NothingRefused'
  BY <1>2, <1>4 DEF RunnerInv, NothingRefused
<1>12. StepsAgree'
  BY <1>2, <1>3 DEF RunnerInv, StepsAgree
<1> QED
  BY <1>1, <1>8, <1>9, <1>10, <1>11, <1>12 DEF RunnerInv
\* A preempted request goes on later: the worker keeps what it has of it.
LEMMA PreemptRunnerKeeps ==
  ASSUME RunnerInv, NEW r \in Request, PreemptRequest(r), UNCHANGED workerVars
  PROVE  RunnerInv'
<1>1. SchedInv'
  BY PreemptKeeps DEF RunnerInv
<1>2. /\ ~inFlight /\ inFlight' = inFlight
      /\ status[r] = "RUNNING" /\ status \in [Request -> Status]
      /\ status' = [status EXCEPT ![r] = "PREEMPTED"]
      /\ finishedReqIds' = finishedReqIds /\ progress' = progress /\ out' = out
      /\ stateCache' = stateCache /\ adapters' = adapters /\ unheard' = unheard
  BY DEF PreemptRequest, workerVars, RunnerInv, SchedInv, SchedTypeOK, QueuesMatchStates,
         RunningMatchesStatus
<1>3. Begun' = Begun /\ Ending' = Ending /\ Cached' = Cached /\ Known' = Known
  BY <1>2 DEF Begun, Ending, Cached, Known
<1>4. \A q \in Request : status[q] # "FINISHED_COMPLETED" => status'[q] # "FINISHED_COMPLETED"
  BY <1>2
<1> QED
  BY <1>1, <1>2, <1>3, <1>4 DEF RunnerInv, WorkerTypeOK, KnownIsHeld, BegunNotFinished,
     OutputIsBatch, CacheAccounted, Cached, NothingRefused, StepsAgree

\* A popped request has ended, and is in no batch.
LEMMA PopRunnerKeeps ==
  ASSUME RunnerInv, NEW r \in Request, PopRequestState(r), UNCHANGED workerVars
  PROVE  RunnerInv'
<1>1. SchedInv'
  BY PopKeeps DEF RunnerInv
<1>2. /\ status[r] \in Terminal /\ status \in [Request -> Status]
      /\ inFlight => r \notin Scheduled(out)
      /\ status' = [status EXCEPT ![r] = "NONE"]
      /\ \A q \in Request : q # r => progress'[q] = progress[q]
      /\ running' = running /\ finishedReqIds' = finishedReqIds
      /\ out' = out /\ inFlight' = inFlight
      /\ stateCache' = stateCache /\ adapters' = adapters /\ unheard' = unheard
  BY DEF PopRequestState, IsFinished, RunnerInv, SchedInv, SchedTypeOK, workerVars
<1>3. Begun' = Begun /\ Ending' = Ending /\ Cached' = Cached /\ r \notin Begun
  BY <1>2 DEF Begun, Ending, Cached, Terminal
<1>4. Scheduled(out') = Scheduled(out) /\ Heard' = Heard /\ Known' = Known
      /\ Duplicate' = Duplicate /\ Missing' = Missing
  BY <1>2, <1>3 DEF Scheduled, Heard, Known, Duplicate, Missing
<1>5. WorkerTypeOK' /\ KnownIsHeld' /\ BegunNotFinished' /\ (~inFlight' => out' = NoOutput)
  BY <1>2, <1>3, <1>4 DEF RunnerInv, WorkerTypeOK, KnownIsHeld, BegunNotFinished
<1>6. OutputIsBatch'
  BY <1>2, <1>4 DEF RunnerInv, OutputIsBatch, Scheduled, SchedInv, SchedTypeOK, SchedulerOutput
<1>7. CacheAccounted'
  BY <1>2, <1>3 DEF RunnerInv, CacheAccounted, Cached
<1>8. NothingRefused'
  BY <1>2, <1>4 DEF RunnerInv, NothingRefused
<1>9. StepsAgree'
  BY <1>2, <1>3 DEF RunnerInv, StepsAgree, Begun
<1> QED
  BY <1>1, <1>5, <1>6, <1>7, <1>8, <1>9 DEF RunnerInv

\* Once both sides are closed nothing is left on either.
LEMMA ShutdownKeeps ==
  ASSUME RunnerInv, Shutdown
  PROVE  RunnerInv'
<1>1. SchedInv'
  BY CloseKeeps DEF RunnerInv, Shutdown
<1>2. /\ status' = [r \in Request |-> "NONE"] /\ finishedReqIds' = {} /\ out' = out
      /\ ~inFlight /\ inFlight' = inFlight /\ stateCache' = [r \in Request |-> NotCached]
      /\ adapters' = {} /\ unheard' = {}
  BY DEF Shutdown, SchedClose
<1>3. Begun' = {} /\ Cached' = {} /\ Ending' = {}
  BY <1>2 DEF Begun, Cached, Ending
<1>4. WorkerTypeOK'
  BY <1>2, StepAssumption DEF WorkerTypeOK, NotCached
<1> QED
  BY <1>1, <1>2, <1>3, <1>4 DEF RunnerInv, KnownIsHeld, Known, BegunNotFinished,
     OutputIsBatch, CacheAccounted, NothingRefused, StepsAgree

\* What every execution has in common, whether it fails or not.  The conditions
\* on the cache: it keeps the states outside the batch, except those that heard
\* of their end, or counts them as unheard; a request that goes on is at the
\* step reported of it, and one that completed is dropped.
LEMMA ExecutionKeeps ==
  ASSUME RunnerInv, inFlight, ActivateAdapters, WorkerTypeOK',
         NEW res \in [Scheduled(out) -> RunnerResult],
         \A r \in Live : RunnerMayReport(r, res[r]),
         UpdateFromOutput(res, StepReported),
         \A r \in Request \ Scheduled(out) :
            \/ stateCache'[r] = stateCache[r] /\ (r \in out.finished => r \in unheard' \/ r \notin Cached)
            \/ stateCache'[r] = NotCached /\ r \in out.finished,
         \A r \in (unheard \ out.finished) : r \in unheard' \/ r \notin Cached',
         \A r \in Live : res[r] = "partial" =>
            stateCache'[r] = StepReported[r] /\ StepReported[r] \in 1..(TotalSteps - 1),
         \A r \in Live : res[r] = "final" => stateCache'[r] = NotCached
  PROVE  RunnerInv'
<1> DEFINE outcome == [r \in Live |-> StatusFrom(res[r])]
           done == {r \in Live : outcome[r] # "RUNNING"}
<1>1. SchedInv /\ SchedInv'
  BY UpdateKeeps DEF RunnerInv
<1>2. /\ status' = [r \in Request |-> IF r \in done THEN outcome[r] ELSE status[r]]
      /\ finishedReqIds' = finishedReqIds \cup done
      /\ progress' = [r \in Request |-> IF r \in Live /\ res[r] \in {"partial", "final"}
                                        THEN StepReported[r] ELSE progress[r]]
      /\ inFlight' = FALSE /\ out' = NoOutput
  BY StartAssumption DEF UpdateFromOutput, Finish
<1>3. /\ Scheduled(out) \subseteq Request /\ out.new \cup out.cached = Scheduled(out)
      /\ out.new \cap out.cached = {}
  BY DEF RunnerInv, OutputIsBatch, SchedInv, SchedTypeOK, SchedulerOutput, Scheduled
<1>4. /\ Live = {r \in Scheduled(out) : r \in running /\ r \notin finishedReqIds}
      /\ running = {r \in Request : status[r] = "RUNNING"}
      /\ running \subseteq Scheduled(out)
  BY <1>1, LiveIsRunning DEF RunnerInv, OutputIsBatch, SchedInv, QueuesMatchStates, RunningMatchesStatus
<1>5. \A r \in Live : /\ res[r] \in RunnerResult
                      /\ outcome[r] = "RUNNING" <=> res[r] = "partial"
                      /\ outcome[r] = "FINISHED_COMPLETED" <=> res[r] = "final"
                      /\ outcome[r] \in Terminal \cup {"RUNNING"}
  <2> SUFFICES ASSUME NEW r \in Live
               PROVE  LET s == StatusFrom(res[r])
                      IN  /\ res[r] \in RunnerResult
                          /\ s = "RUNNING" <=> res[r] = "partial"
                          /\ s = "FINISHED_COMPLETED" <=> res[r] = "final"
                          /\ s \in Terminal \cup {"RUNNING"}
    OBVIOUS
  <2>1. res[r] \in RunnerResult
    BY <1>4
  <2> QED
    BY <2>1, StartAssumption DEF StatusFrom, RunnerResult, Terminal
<1>6. done \subseteq Live /\ \A r \in done : outcome[r] \in Terminal
  BY <1>5
<1>7. \A r \in Live : r \notin done => res[r] = "partial"
  BY <1>5
<1>8. \A r \in Live : r \in done /\ outcome[r] = "FINISHED_COMPLETED" => res[r] = "final"
  BY <1>5
<1> HIDE DEF done, outcome
<1>9. Begun' = Begun \ done
  BY <1>2, <1>4, <1>6 DEF Begun, Terminal
<1>10. Known' = Begun' /\ Ending' = finishedReqIds \cup done
  BY <1>2 DEF Known, Ending, Begun
<1>11. \A r \in Begun : r \in Scheduled(out) => r \in Live
  <2> SUFFICES ASSUME NEW r \in Begun, r \in Scheduled(out) PROVE r \in Live
    OBVIOUS
  <2>1. r \notin finishedReqIds /\ ~IsFinished(r)
    BY DEF RunnerInv, BegunNotFinished, Begun, IsFinished, Terminal
  <2>2. r \in running
    BY <2>1, <1>1 DEF SchedInv, InFlightAccounted
  <2> QED
    BY <2>1, <2>2, <1>4
<1>12. \A r \in Begun \ Scheduled(out) :
          /\ r \in adapters /\ r \notin Ending /\ r \notin out.finished
          /\ stateCache[r] = progress[r] /\ progress[r] \in 1..(TotalSteps - 1)
  BY <1>3 DEF RunnerInv, KnownIsHeld, Known, StepsAgree, Ending
<1>13. BegunNotFinished' /\ OutputIsBatch' /\ NothingRefused' /\ (~inFlight' => out' = NoOutput)
  BY <1>2, <1>9 DEF RunnerInv, BegunNotFinished, OutputIsBatch, NothingRefused
<1>14. adapters' = (adapters \ out.finished) \cup out.new
  BY DEF ActivateAdapters
<1>15. KnownIsHeld'
  <2> SUFFICES ASSUME NEW r \in Begun, r \notin done
               PROVE  r \in adapters' /\ r \notin finishedReqIds
    BY <1>9, <1>10 DEF KnownIsHeld
  <2>1. r \in adapters'
    BY <1>3, <1>12, <1>14 DEF RunnerInv, OutputIsBatch
  <2> QED
    BY <2>1 DEF RunnerInv, BegunNotFinished
<1>16. StepsAgree'
  <2> SUFFICES ASSUME NEW r \in Begun, r \notin done
               PROVE  stateCache'[r] = progress'[r] /\ progress'[r] \in 1..(TotalSteps - 1)
    BY <1>2, <1>9 DEF StepsAgree
  <2>0. r \in Request
    BY DEF Begun
  <2>1. CASE r \in Scheduled(out)
    BY <2>0, <2>1, <1>2, <1>7, <1>11
  <2>2. CASE r \notin Scheduled(out)
    BY <2>0, <2>2, <1>2, <1>4, <1>12
  <2> QED
    BY <2>1, <2>2
<1>17. CacheAccounted'
  <2>1. \A r \in Scheduled(out) : r \in Begun' \cup finishedReqIds \cup done
    <3> SUFFICES ASSUME NEW r \in Scheduled(out), r \notin done, r \notin finishedReqIds
                 PROVE  r \in Begun
      BY <1>9
    <3>1. r \in running
      BY <1>1 DEF SchedInv, InFlightAccounted
    <3> QED
      BY <3>1, <1>4 DEF Begun
  <2>2. ASSUME NEW r \in Cached', r \notin Scheduled(out)
        PROVE  r \in Begun' \cup finishedReqIds \cup done \cup unheard' /\ r \in Cached
    <3>1. /\ r \in Request /\ r \in Cached
          /\ r \in out.finished => r \in unheard'
      BY <2>2 DEF Cached
    <3>2. r \in Begun \cup finishedReqIds \cup out.finished \cup unheard
      BY <3>1 DEF RunnerInv, CacheAccounted, Ending
    <3>3. r \notin done
      BY <2>2, <1>4, <1>6
    <3> QED
      BY <3>1, <3>2, <3>3, <2>2, <1>9
  <2>3. ASSUME NEW r \in adapters'
        PROVE  r \in Begun' \cup finishedReqIds \cup done
    <3>1. CASE r \in out.new
      BY <3>1, <2>1, <1>3
    <3>2. CASE r \in adapters /\ r \notin out.finished
      <4>1. r \in Begun \cup finishedReqIds
        BY <3>2 DEF RunnerInv, CacheAccounted, Ending
      <4> QED
        BY <4>1, <1>9
    <3> QED
      BY <2>3, <3>1, <3>2, <1>14
  <2>4. ASSUME NEW r \in Cached', status'[r] = "FINISHED_COMPLETED"
        PROVE  FALSE
    <3>0. r \in Request /\ stateCache'[r] # NotCached
      BY DEF Cached
    <3>1. CASE r \in done
      BY <3>0, <3>1, <2>4, <1>2, <1>6, <1>8
    <3>2. CASE r \notin done /\ r \in Scheduled(out)
      BY <3>0, <3>2, <2>4, <1>2 DEF RunnerInv, OutputIsBatch
    <3>3. CASE r \notin Scheduled(out)
      <4>1. r \notin done
        BY <3>3, <1>4, <1>6
      <4> QED
        BY <4>1, <3>0, <3>3, <2>2, <2>4, <1>2 DEF RunnerInv, CacheAccounted
    <3> QED
      BY <3>1, <3>2, <3>3
  <2> QED
    BY <2>1, <2>2, <2>3, <2>4, <1>10 DEF CacheAccounted
<1> QED
  BY <1>1, <1>13, <1>15, <1>16, <1>17 DEF RunnerInv
-----------------------------------------------------------------------------
(* The three ways an execution ends.                                          *)

\* A failed execution is an update in which every request is in error.
LEMMA FailureIsUpdate ==
  ASSUME Fails
  PROVE  \E res \in [Scheduled(out) -> RunnerResult] :
            /\ \A r \in Scheduled(out) : res[r] = "error"
            /\ \A r \in Live : RunnerMayReport(r, res[r])
            /\ UpdateFromOutput(res, StepReported)
<1> DEFINE res == [r \in Scheduled(out) |-> "error"]
<1>1. res \in [Scheduled(out) -> RunnerResult]
  BY DEF RunnerResult
<1>2. \A r \in Live : RunnerMayReport(r, res[r])
  BY DEF RunnerMayReport, Live
<1>3. UpdateFromOutput(res, StepReported)
  BY DEF Fails
<1>4. \A r \in Scheduled(out) : res[r] = "error"
  OBVIOUS
<1> HIDE DEF res
<1> QED
  BY <1>1, <1>2, <1>3, <1>4

\* The output never gets to the runner, whose states are as they were.
LEMMA AdapterFailureKeeps ==
  ASSUME RunnerInv, AdapterFails
  PROVE  RunnerInv' /\ Update
<1>1. /\ inFlight /\ ActivateAdapters /\ Fails /\ stateCache' = stateCache
      /\ unheard' = (unheard \cup out.finished) \cap Cached
  BY DEF AdapterFails
<1>2. PICK res \in [Scheduled(out) -> RunnerResult] :
         /\ \A r \in Scheduled(out) : res[r] = "error"
         /\ \A r \in Live : RunnerMayReport(r, res[r])
         /\ UpdateFromOutput(res, StepReported)
  BY <1>1, FailureIsUpdate
<1>3. Cached' = Cached
  BY <1>1 DEF Cached
<1>4. /\ out.new \in SUBSET Request /\ out.cached \in SUBSET Request
      /\ WorkerTypeOK /\ Scheduled(out) = out.new \cup out.cached
  BY DEF RunnerInv, SchedInv, SchedTypeOK, SchedulerOutput, Scheduled
<1>5. WorkerTypeOK'
  BY <1>1, <1>4 DEF WorkerTypeOK, Cached, ActivateAdapters
<1>6. \A r \in Request \ Scheduled(out) :
         stateCache'[r] = stateCache[r] /\ (r \in out.finished => r \in unheard' \/ r \notin Cached)
  BY <1>1
<1>7. \A r \in unheard \ out.finished : r \in unheard' \/ r \notin Cached'
  BY <1>1, <1>3
<1>8. \A r \in Live : res[r] = "error"
  BY <1>2 DEF Live
<1>9. RunnerInv'
  BY <1>1, <1>2, <1>5, <1>6, <1>7, <1>8, ExecutionKeeps
<1> QED
  BY <1>2, <1>9 DEF Update

\* The states the runner has resolved: those of the batch are within its steps,
\* the others are kept unless they heard of their end.
LEMMA StartedStates ==
  ASSUME RunnerInv, inFlight, NEW S \in SUBSET out.new
  PROVE  /\ Started(S) \in [Request -> Int]
         /\ \A r \in Request : Started(S)[r] = NotCached \/ Started(S)[r] \in 0..TotalSteps
         /\ \A r \in out.cached : Started(S)[r] = progress[r] /\ progress[r] \in 1..(TotalSteps - 1)
         /\ \A r \in S : Started(S)[r] = 0
         /\ \A r \in Request \ Scheduled(out) :
               \/ Started(S)[r] = stateCache[r] /\ r \notin out.finished
               \/ Started(S)[r] = NotCached /\ r \in out.finished
<1>1. /\ stateCache \in [Request -> Int]
      /\ \A r \in Request : stateCache[r] = NotCached \/ stateCache[r] \in 0..TotalSteps
  BY DEF RunnerInv, WorkerTypeOK
<1>2. \A r \in out.cached : /\ stateCache[r] = progress[r] /\ stateCache[r] \in 1..(TotalSteps - 1)
                            /\ r \notin out.finished /\ r \notin S /\ r \in Request
  BY DEF RunnerInv, OutputIsBatch, SchedInv, SchedTypeOK, SchedulerOutput
<1>3. S \in SUBSET Request /\ \A r \in S : r \in Scheduled(out)
  BY DEF RunnerInv, SchedInv, SchedTypeOK, SchedulerOutput, Scheduled
<1>4. \A r \in Request : Heard[r] = IF r \in out.finished THEN NotCached ELSE stateCache[r]
  BY DEF Heard
<1>5. \A r \in Request : Started(S)[r] = IF r \in S THEN 0 ELSE Heard[r]
  BY DEF Started
<1>6. Started(S) \in [Request -> Int]
  BY <1>1, <1>4 DEF Started, NotCached
<1> QED
  BY <1>1, <1>2, <1>3, <1>4, <1>5, <1>6, StepAssumption

\* Whatever the runner had done when it raised, the batch is out of the scheduler.
LEMMA RunnerFailureKeeps ==
  ASSUME RunnerInv, RunnerRaises
  PROVE  RunnerInv' /\ Update
<1>1. inFlight /\ ActivateAdapters /\ Fails /\ unheard' = unheard \ out.finished
  BY DEF RunnerRaises
<1>2. PICK started \in SUBSET (out.new \ Duplicate) :
         \/ stateCache' = Started(started)
         \/ /\ started = out.new
            /\ \E S \in SUBSET Scheduled(out) : stateCache' = Stepped(Started(out.new), S)
  BY DEF RunnerRaises
<1>3. started \in SUBSET out.new
  BY <1>2
<1>4. PICK res \in [Scheduled(out) -> RunnerResult] :
         /\ \A r \in Scheduled(out) : res[r] = "error"
         /\ \A r \in Live : RunnerMayReport(r, res[r])
         /\ UpdateFromOutput(res, StepReported)
  BY <1>1, FailureIsUpdate
<1>5. /\ out.new \in SUBSET Request /\ out.cached \in SUBSET Request
      /\ WorkerTypeOK /\ Scheduled(out) = out.new \cup out.cached
  BY DEF RunnerInv, SchedInv, SchedTypeOK, SchedulerOutput, Scheduled
<1>6. /\ stateCache' \in [Request -> Int]
      /\ \A r \in Request : stateCache'[r] = NotCached \/ stateCache'[r] \in 0..TotalSteps
      /\ \A r \in Request \ Scheduled(out) : stateCache'[r] = Started(started)[r]
  <2>1. CASE stateCache' = Started(started)
    BY <1>1, <1>3, <2>1, StartedStates
  <2>2. ASSUME NEW S \in SUBSET Scheduled(out), started = out.new,
               stateCache' = Stepped(Started(out.new), S)
        PROVE  /\ stateCache' \in [Request -> Int]
               /\ \A r \in Request : stateCache'[r] = NotCached \/ stateCache'[r] \in 0..TotalSteps
               /\ \A r \in Request \ Scheduled(out) : stateCache'[r] = Started(started)[r]
    <3>1. /\ Started(out.new) \in [Request -> Int]
          /\ \A r \in Request : Started(out.new)[r] = NotCached \/ Started(out.new)[r] \in 0..TotalSteps
          /\ \A r \in out.cached : Started(out.new)[r] \in 1..(TotalSteps - 1)
          /\ \A r \in out.new : Started(out.new)[r] = 0
      BY <1>1, StartedStates
    <3>2. \A r \in Request : stateCache'[r] = IF r \in S THEN Started(out.new)[r] + 1 ELSE Started(out.new)[r]
      BY <2>2 DEF Stepped
    <3>3. stateCache' \in [Request -> Int]
      BY <2>2, <3>1 DEF Stepped
    <3>4. \A r \in S : stateCache'[r] \in 0..TotalSteps
      BY <1>5, <3>1, <3>2, StepAssumption
    <3> QED
      BY <2>2, <3>1, <3>2, <3>3, <3>4
  <2> QED
    BY <1>2, <2>1, <2>2
<1>7. WorkerTypeOK'
  BY <1>1, <1>5, <1>6 DEF WorkerTypeOK, ActivateAdapters
<1>8. \A r \in Request \ Scheduled(out) :
         \/ stateCache'[r] = stateCache[r] /\ r \notin out.finished
         \/ stateCache'[r] = NotCached /\ r \in out.finished
  BY <1>1, <1>3, <1>6, StartedStates
<1>9. \A r \in Live : res[r] = "error"
  BY <1>4 DEF Live
<1>10. RunnerInv'
  BY <1>1, <1>4, <1>7, <1>8, <1>9, ExecutionKeeps
<1> QED
  BY <1>4, <1>10 DEF Update
\* The runner executes the step: what it reports is what the scheduler expects.
LEMMA RunnerStepKeeps ==
  ASSUME RunnerInv, RunnerSteps
  PROVE  RunnerInv' /\ Update
<1> DEFINE cache == Stepped(Started(out.new), Scheduled(out))
           completed == {r \in Scheduled(out) : cache[r] >= TotalSteps}
<1>1. /\ inFlight /\ ActivateAdapters /\ unheard' = unheard \ out.finished
      /\ stateCache' = [r \in Request |->
                          IF r \in Scheduled(out) /\ cache[r] >= TotalSteps THEN NotCached ELSE cache[r]]
  BY DEF RunnerSteps, UpdateStatesAfter
<1>2. \/ Fails
      \/ \E res \in [Scheduled(out) -> {"partial", "final", "error"}] :
            /\ \A r \in Scheduled(out) : r \notin completed <=> res[r] = "partial"
            /\ UpdateFromOutput(res, cache)
  BY DEF RunnerSteps
<1>3. /\ out.new \in SUBSET Request /\ out.cached \in SUBSET Request
      /\ WorkerTypeOK /\ Scheduled(out) = out.new \cup out.cached
      /\ out.new \cap out.cached = {} /\ progress \in [Request -> 0..TotalSteps]
  BY <1>1 DEF RunnerInv, OutputIsBatch, SchedInv, SchedTypeOK, SchedulerOutput, Scheduled
<1>4. /\ Started(out.new) \in [Request -> Int]
      /\ \A r \in Request : Started(out.new)[r] = NotCached \/ Started(out.new)[r] \in 0..TotalSteps
      /\ \A r \in out.cached : Started(out.new)[r] = progress[r] /\ progress[r] \in 1..(TotalSteps - 1)
      /\ \A r \in out.new : Started(out.new)[r] = 0
      /\ \A r \in Request \ Scheduled(out) :
            \/ Started(out.new)[r] = stateCache[r] /\ r \notin out.finished
            \/ Started(out.new)[r] = NotCached /\ r \in out.finished
  BY <1>1, StartedStates
<1>5. /\ cache \in [Request -> Int]
      /\ \A r \in Request : cache[r] = IF r \in Scheduled(out) THEN Started(out.new)[r] + 1
                                       ELSE Started(out.new)[r]
  BY <1>4 DEF Stepped
<1>6. \A r \in Scheduled(out) : cache[r] = StepReported[r] /\ cache[r] \in 1..TotalSteps
  <2> SUFFICES ASSUME NEW r \in Scheduled(out)
               PROVE  cache[r] = StepReported[r] /\ cache[r] \in 1..TotalSteps
    OBVIOUS
  <2>1. r \in Request /\ cache[r] = Started(out.new)[r] + 1
    BY <1>3, <1>5
  <2>2. StepReported[r] = IF r \in out.new THEN 1 ELSE progress[r] + 1
    BY <2>1 DEF StepReported
  <2> HIDE DEF cache
  <2>3. CASE r \in out.new
    BY <2>1, <2>2, <2>3, <1>4, StepAssumption
  <2>4. CASE r \notin out.new
    BY <2>1, <2>2, <2>4, <1>3, <1>4, StepAssumption
  <2> QED
    BY <2>3, <2>4
<1>7. completed = {r \in Scheduled(out) : cache[r] >= TotalSteps}
  OBVIOUS
<1> HIDE DEF cache, completed
<1>8. /\ \A r \in Scheduled(out) : stateCache'[r] = IF r \in completed THEN NotCached ELSE cache[r]
      /\ \A r \in Request \ Scheduled(out) :
            \/ stateCache'[r] = stateCache[r] /\ r \notin out.finished
            \/ stateCache'[r] = NotCached /\ r \in out.finished
  BY <1>1, <1>3, <1>4, <1>5, <1>7
<1>9. \A r \in Scheduled(out) \ completed : cache[r] \in 1..(TotalSteps - 1)
  BY <1>6, <1>7, StepAssumption
<1>10. WorkerTypeOK'
  <2>1. stateCache' \in [Request -> Int]
    BY <1>1, <1>5 DEF NotCached
  <2>2. \A r \in Request : stateCache'[r] = NotCached \/ stateCache'[r] \in 0..TotalSteps
    <3>1. \A r \in Scheduled(out) : stateCache'[r] = NotCached \/ stateCache'[r] \in 0..TotalSteps
      BY <1>6, <1>8, StepAssumption
    <3>2. \A r \in Request \ Scheduled(out) : stateCache'[r] = NotCached \/ stateCache'[r] \in 0..TotalSteps
      BY <1>3, <1>8 DEF WorkerTypeOK
    <3> QED
      BY <3>1, <3>2
  <2> QED
    BY <2>1, <2>2, <1>1, <1>3 DEF WorkerTypeOK, ActivateAdapters
<1>11. CASE Fails
  <2>1. PICK res \in [Scheduled(out) -> RunnerResult] :
           /\ \A r \in Scheduled(out) : res[r] = "error"
           /\ \A r \in Live : RunnerMayReport(r, res[r])
           /\ UpdateFromOutput(res, StepReported)
    BY <1>11, FailureIsUpdate
  <2>2. \A r \in Live : res[r] = "error"
    BY <2>1 DEF Live
  <2>3. RunnerInv'
    BY <2>1, <2>2, <1>1, <1>8, <1>10, ExecutionKeeps
  <2> QED
    BY <2>1, <2>3 DEF Update
<1>12. ASSUME NEW res \in [Scheduled(out) -> {"partial", "final", "error"}],
              \A r \in Scheduled(out) : r \notin completed <=> res[r] = "partial",
              UpdateFromOutput(res, cache)
       PROVE  RunnerInv' /\ Update
  <2>1. res \in [Scheduled(out) -> RunnerResult]
    BY DEF RunnerResult
  <2>2. Live \subseteq Scheduled(out)
    BY DEF Live
  <2>3. UpdateFromOutput(res, StepReported)
    <3>1. [r \in Request |-> IF StepExecution /\ r \in Live /\ res[r] \in {"partial", "final"}
                             THEN cache[r] ELSE progress[r]]
          = [r \in Request |-> IF StepExecution /\ r \in Live /\ res[r] \in {"partial", "final"}
                               THEN StepReported[r] ELSE progress[r]]
      BY <2>2, <1>6
    <3> QED
      BY <3>1, <1>12 DEF UpdateFromOutput
  <2>4. \A r \in Live : RunnerMayReport(r, res[r])
    <3> SUFFICES ASSUME NEW r \in Scheduled(out)
                 PROVE  /\ res[r] = "partial" => StepReported[r] < TotalSteps
                        /\ res[r] = "final" => StepReported[r] = TotalSteps
      BY <2>2 DEF RunnerMayReport
    <3>1. r \notin completed <=> res[r] = "partial"
      BY <1>12
    <3>2. cache[r] = StepReported[r] /\ cache[r] \in 1..TotalSteps
      BY <1>6
    <3> QED
      BY <3>1, <3>2, <1>7, StepAssumption
  <2>5. \A r \in Live : res[r] = "partial" =>
           stateCache'[r] = StepReported[r] /\ StepReported[r] \in 1..(TotalSteps - 1)
    BY <2>2, <1>6, <1>8, <1>9, <1>12
  <2>6. \A r \in Live : res[r] = "final" => stateCache'[r] = NotCached
    <3>1. \A r \in Live : res[r] = "final" => r \in completed
      BY <2>2, <1>12
    <3> QED
      BY <3>1, <2>2, <1>8
  <2>7. RunnerInv'
    BY <2>1, <2>3, <2>4, <2>5, <2>6, <1>1, <1>8, <1>10, ExecutionKeeps
  <2> QED
    BY <2>1, <2>3, <2>4, <2>7 DEF Update
<1> QED
  BY <1>2, <1>11, <1>12

\* Each step keeps the invariant, and is a step of the scheduler or none.
LEMMA NextKeepsRunnerInv ==
  RunnerInv /\ [RunnerNext]_runnerVars => RunnerInv' /\ [SchedNext]_schedVars
<1> SUFFICES ASSUME RunnerInv, [RunnerNext]_runnerVars
             PROVE  RunnerInv' /\ [SchedNext]_schedVars
  OBVIOUS
<1>1. CASE SchedulerCalls
  <2>1. UNCHANGED workerVars
    BY <1>1 DEF SchedulerCalls
  <2>2. ASSUME NEW r \in Request, AddRequest(r) PROVE RunnerInv' /\ SchedNext
    BY <2>1, <2>2, AddRunnerKeeps DEF SchedNext
  <2>3. ASSUME HasRequests, Schedule PROVE RunnerInv' /\ SchedNext
    BY <2>1, <2>3, ScheduleRunnerKeeps DEF SchedNext
  <2>4. ASSUME NEW r \in Request, FinishRequests({r}) PROVE RunnerInv' /\ SchedNext
    BY <2>1, <2>4, AbortRunnerKeeps DEF SchedNext
  <2>5. ASSUME NEW r \in Request, PreemptRequest(r) PROVE RunnerInv' /\ SchedNext
    BY <2>1, <2>5, PreemptRunnerKeeps DEF SchedNext
  <2>6. ASSUME NEW r \in Request, PopRequestState(r) PROVE RunnerInv' /\ SchedNext
    BY <2>1, <2>6, PopRunnerKeeps DEF SchedNext
  <2> QED
    BY <1>1, <2>2, <2>3, <2>4, <2>5, <2>6 DEF SchedulerCalls
<1>2. CASE Execute
  BY <1>2, AdapterFailureKeeps, RunnerFailureKeeps, RunnerStepKeeps DEF Execute, SchedNext
<1>3. CASE Shutdown
  BY <1>3, ShutdownKeeps DEF Shutdown, SchedNext
<1>4. CASE UNCHANGED runnerVars
  <2>1. UNCHANGED schedVars /\ UNCHANGED workerVars
    BY <1>4 DEF runnerVars
  <2>2. SchedInv'
    BY <2>1, NextKeepsSchedInv DEF RunnerInv
  <2>3. /\ UNCHANGED <<status, running, finishedReqIds, progress, out, inFlight>>
        /\ UNCHANGED <<stateCache, adapters, unheard>>
    BY <2>1 DEF schedVars, workerVars
  <2>4. /\ Begun' = Begun /\ Ending' = Ending /\ Cached' = Cached /\ Known' = Known
        /\ Heard' = Heard /\ Duplicate' = Duplicate /\ Missing' = Missing
        /\ Scheduled(out') = Scheduled(out)
    BY <2>3 DEF Begun, Ending, Cached, Known, Heard, Duplicate, Missing, Scheduled
  <2> QED
    BY <2>1, <2>2, <2>3, <2>4 DEF RunnerInv, WorkerTypeOK, KnownIsHeld, BegunNotFinished,
       OutputIsBatch, CacheAccounted, NothingRefused, StepsAgree
<1> QED
  BY <1>1, <1>2, <1>3, <1>4 DEF RunnerNext

-----------------------------------------------------------------------------
(* The theorems.                                                              *)

\* The inductive invariant holds in every reachable state of the two sides.
THEOREM RunnerInvariant == RunnerSafety => []RunnerInv
<1>1. RunnerInit => RunnerInv
  BY InitRunnerInv
<1>2. RunnerInv /\ [RunnerNext]_runnerVars => RunnerInv'
  BY NextKeepsRunnerInv
<1> QED
  BY <1>1, <1>2, PTL DEF RunnerSafety

\* Scheduler and worker together do nothing the scheduler's specification does
\* not allow: the runner reports the steps it expects, whatever fails.
THEOREM RunnerImplementsScheduler == RunnerSafety => RunsScheduler
<1>1. RunnerInit => SchedInit
  BY DEF RunnerInit
<1>2. RunnerInv /\ [RunnerNext]_runnerVars => [SchedNext]_schedVars
  BY NextKeepsRunnerInv
<1> QED
  BY <1>1, <1>2, RunnerInvariant, PTL DEF RunnerSafety, RunsScheduler, SchedSafety

\* Every variable of the two sides keeps its type.
THEOREM RunnerTypes == RunnerSafety => []RunnerTypeOK
<1>1. RunnerInv => RunnerTypeOK
  <2> SUFFICES ASSUME RunnerInv PROVE RunnerTypeOK
    OBVIOUS
  <2>1. \A r \in Request : stateCache[r] \in NotCached..TotalSteps
    BY StepAssumption DEF RunnerInv, WorkerTypeOK, NotCached
  <2> QED
    BY <2>1 DEF RunnerInv, WorkerTypeOK, SchedInv, RunnerTypeOK
<1> QED
  BY <1>1, RunnerInvariant, PTL

\* What the worker holds belongs to a request that goes on or whose end it has
\* still to be told, or went unheard when an adapter failed.
THEOREM CacheIsAccounted == RunnerSafety => []CacheAccounted
BY RunnerInvariant, PTL DEF RunnerInv

\* The runner refuses no output of the scheduler but for an unheard end.
THEOREM RunnerRefusesNothing == RunnerSafety => []NothingRefused
BY RunnerInvariant, PTL DEF RunnerInv

\* The scheduler and the runner count the same steps of every request that goes on.
THEOREM StepCountsAgree == RunnerSafety => []StepsAgree
BY RunnerInvariant, PTL DEF RunnerInv

\* What TLAPS proves of any use of the scheduler holds of the two sides together:
\* the queues agree with the states, an end is not overwritten by a late output,
\* and nobody is overtaken in the queue.
THEOREM RunnerServesInOrder ==
  RunnerSafety => []QueuesMatchStates /\ TerminalIsFinal /\ NoOvertaking
BY RunnerImplementsScheduler, QueuesAgreeWithStates, TerminalStatusIsFinal,
   FirstComeFirstServed DEF RunsScheduler
=============================================================================
