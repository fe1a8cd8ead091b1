------------------------- MODULE DiffusionScheduler -------------------------
(* The diffusion request schedulers of vllm_omni/diffusion/sched: the shared *)
(* queue bookkeeping of _BaseScheduler with the two ways of reading a runner *)
(* output, RequestScheduler (a request ends with its first output) and       *)
(* StepScheduler (one denoise step per update).  The module holds every      *)
(* operation of SchedulerInterface; Next lets a caller use them in any order *)
(* in which the engine may: one scheduler output in flight at a time, and a  *)
(* state popped only once it is finished and its output has been read.       *)
EXTENDS Integers, Sequences, FiniteSets

CONSTANTS
    Request,        \* request ids
    SamplingKey,    \* batch-compatibility keys built from the sampling params
    KeyOf,          \* the key of each request
    NoKey,          \* "no running key": None in the source
    MaxRunning,     \* max_num_running_reqs
    StepExecution,  \* TRUE: StepScheduler, FALSE: RequestScheduler
    TotalSteps      \* denoise steps of a request (only read in step mode)

ASSUME KeyAssumption == KeyOf \in [Request -> SamplingKey] /\ NoKey \notin SamplingKey
ASSUME MaxRunningAssumption == MaxRunning \in Nat \ {0}
ASSUME StepAssumption == StepExecution \in BOOLEAN /\ TotalSteps \in Nat \ {0}

VARIABLES
    status,          \* _request_states: the status of each id, "NONE" when absent
    waiting,         \* _waiting, a deque of ids
    running,         \* _running, whose order nothing depends on
    runningKey,      \* _running_sampling_params_key
    finishedReqIds,  \* _finished_req_ids
    progress,        \* _request_progress: current_step of each request
    out,             \* the last DiffusionSchedulerOutput, until it is updated from
    inFlight,        \* out was handed to the runner and not yet updated from
    returned         \* what the last update_from_output returned, {} after schedule

schedVars == <<status, waiting, running, runningKey, finishedReqIds,
               progress, out, inFlight, returned>>

-----------------------------------------------------------------------------
Terminal == {"FINISHED_COMPLETED", "FINISHED_ABORTED", "FINISHED_ERROR"}
Status == {"NONE", "WAITING", "RUNNING", "PREEMPTED"} \cup Terminal

\* What a RunnerOutput says of one scheduled request: no output or none the
\* scheduler can use, an abort, an error, a step that is not the last, the end.
RunnerResult == {"missing", "aborted", "error", "partial", "final"}

SchedulerOutput == [new : SUBSET Request, cached : SUBSET Request, finished : SUBSET Request]
NoOutput == [new |-> {}, cached |-> {}, finished |-> {}]

Scheduled(o) == o.new \cup o.cached
IsEmpty(o) == Scheduled(o) = {}

IsFinished(r) == status[r] \in Terminal
Queued == {waiting[i] : i \in DOMAIN waiting}
HasRequests == waiting # <<>> \/ running # {}

\* The members of s outside S, in their order: the j-th element of the result is
\* the kept one with rank j.  (SelectSeq, without its recursion.)
Kept(s, S) == {i \in DOMAIN s : s[i] \notin S}
Rank(K, i) == Cardinality({k \in K : k <= i})
Without(s, S) ==
    LET K == Kept(s, S)
    IN  [j \in 1..Cardinality(K) |-> s[CHOOSE i \in K : Rank(K, i) = j]]

\* Mutants, here and below, are faulty variants of the definition that follows
\* them; nothing in the specification uses them.
\* Mutant: an aborted request is left in the waiting queue.
Finish_LeavesWaiting(S, outcome) ==
    /\ status' = [r \in Request |-> IF r \in S THEN outcome[r] ELSE status[r]]
    /\ running' = running \ S
    /\ runningKey' = IF running \ S = {} /\ running \cap S # {} THEN NoKey ELSE runningKey
    /\ finishedReqIds' = finishedReqIds \cup S
    /\ UNCHANGED waiting

\* Mutant: a finished id is not remembered for the next update or output.
Finish_Unrecorded(S, outcome) ==
    /\ status' = [r \in Request |-> IF r \in S THEN outcome[r] ELSE status[r]]
    /\ running' = running \ S
    /\ waiting' = Without(waiting, S)
    /\ runningKey' = IF running \ S = {} /\ running \cap S # {} THEN NoKey ELSE runningKey
    /\ UNCHANGED finishedReqIds

\* _finish_requests on ids that hold an unfinished state, each with its status.
Finish(S, outcome) ==
    /\ status' = [r \in Request |-> IF r \in S THEN outcome[r] ELSE status[r]]
    /\ running' = running \ S
    /\ waiting' = Without(waiting, S)
    /\ runningKey' = IF running \ S = {} /\ running \cap S # {} THEN NoKey ELSE runningKey
    /\ finishedReqIds' = finishedReqIds \cup S

-----------------------------------------------------------------------------
SchedInit ==
    /\ status = [r \in Request |-> "NONE"]
    /\ waiting = <<>>
    /\ running = {}
    /\ runningKey = NoKey
    /\ finishedReqIds = {}
    /\ progress = [r \in Request |-> 0]
    /\ out = NoOutput
    /\ inFlight = FALSE
    /\ returned = {}

\* add_request: refused while the id has a state, even a finished one.  The
\* step scheduler also refuses an initial step_index outside 0..total_steps-1.
AddRequest(r) ==
    /\ status[r] = "NONE"
    /\ \E step \in 0..(TotalSteps - 1) :
          progress' = IF StepExecution THEN [progress EXCEPT ![r] = step] ELSE progress
    /\ status' = [status EXCEPT ![r] = "WAITING"]
    /\ waiting' = Append(waiting, r)
    /\ UNCHANGED <<running, runningKey, finishedReqIds, out, inFlight, returned>>

\* Mutant: the head of the queue is compared with itself, not with the batch.
WaveKey_OfHead == IF waiting # <<>> THEN KeyOf[waiting[1]] ELSE NoKey

\* Mutant: an empty batch keeps its key, and the next wave must match it.
WaveKey_Kept == runningKey

\* The key a waiting request must have to join this wave.
WaveKey ==
    IF running # {} THEN runningKey
    ELSE IF waiting # <<>> THEN KeyOf[waiting[1]] ELSE NoKey

\* The first n waiting requests can all be admitted: _can_schedule_waiting and
\* the capacity test of the admission loop.
CanAdmit(n) ==
    /\ n <= MaxRunning - Cardinality(running)
    /\ \A i \in 1..n : KeyOf[waiting[i]] = WaveKey

\* The admission loop stops at the first request it cannot admit: no later
\* request overtakes it.
AdmitCount(n) ==
    /\ n \in 0..Len(waiting)
    /\ CanAdmit(n)
    /\ n < Len(waiting) => ~CanAdmit(n + 1)

\* Mutant: the admission loop skips a request of another key and goes on.
Schedule_Skips ==
    /\ ~inFlight
    /\ \E admitted \in SUBSET Queued :
          /\ Cardinality(admitted) <= MaxRunning - Cardinality(running)
          /\ \A r \in admitted : KeyOf[r] = WaveKey
          /\ HasRequests => running \cup admitted # {}
          /\ status' = [r \in Request |-> IF r \in admitted THEN "RUNNING" ELSE status[r]]
          /\ running' = running \cup admitted
          /\ runningKey' = IF running = {} /\ admitted # {} THEN WaveKey ELSE runningKey
          /\ out' = [new |-> admitted, cached |-> running, finished |-> finishedReqIds]
          /\ inFlight' = (running \cup admitted # {})
          /\ waiting' = Without(waiting, admitted)
    /\ finishedReqIds' = {} /\ returned' = {}
    /\ UNCHANGED progress

\* schedule: every running request again, then the admitted prefix of waiting.
\* The ids finished since the last call travel in the output and are forgotten.
Schedule ==
    /\ ~inFlight
    /\ \E n \in 0..Len(waiting) :
          /\ AdmitCount(n)
          /\ LET admitted == {waiting[i] : i \in 1..n}
                 new == {r \in admitted : status[r] = "WAITING"}
             IN  /\ status' = [r \in Request |-> IF r \in admitted THEN "RUNNING" ELSE status[r]]
                 /\ running' = running \cup admitted
                 /\ runningKey' = IF running = {} /\ n > 0 THEN WaveKey ELSE runningKey
                 /\ out' = [new |-> new, cached |-> running \cup (admitted \ new),
                            finished |-> finishedReqIds]
                 /\ inFlight' = (running \cup admitted # {})
          /\ waiting' = SubSeq(waiting, n + 1, Len(waiting))
    /\ finishedReqIds' = {}
    /\ returned' = {}
    /\ UNCHANGED progress

-----------------------------------------------------------------------------
\* Mutant: a request whose execution failed stays in the batch, to be tried again.
StatusFrom_Retries(res) ==
    CASE res = "missing" -> "FINISHED_ERROR"
      [] res = "aborted" -> "FINISHED_ABORTED"
      [] res = "final"   -> "FINISHED_COMPLETED"
      [] OTHER           -> "RUNNING"

\* The status a runner result gives its request; "RUNNING" when it goes on.
\* RequestScheduler completes a request whatever its result says of steps.
StatusFrom(res) ==
    CASE res = "missing" -> "FINISHED_ERROR"
      [] res = "aborted" -> "FINISHED_ABORTED"
      [] res = "error"   -> "FINISHED_ERROR"
      [] res = "partial" -> IF StepExecution THEN "RUNNING" ELSE "FINISHED_COMPLETED"
      [] res = "final"   -> "FINISHED_COMPLETED"

\* The step_index in the outputs of a runner: it counts the updates of a request
\* from its first batch on, whatever step_index the request was added with.
StepReported == [r \in Request |-> IF r \in out.new THEN 1 ELSE progress[r] + 1]

\* A runner reports "final" with the last step and "partial" before it.
RunnerMayReport(r, res) ==
    StepExecution => /\ res = "partial" => StepReported[r] < TotalSteps
                     /\ res = "final" => StepReported[r] = TotalSteps

\* Mutant: ids finished since schedule() are not passed over.
Live_Finished == {r \in Scheduled(out) : status[r] # "NONE"}

\* Scheduled ids whose state can still be finished by this output.
Live == {r \in Scheduled(out) : status[r] # "NONE" /\ ~IsFinished(r)}

\* Mutant: the scheduler counts the steps itself, from the one it was given.
UpdateFromOutput_OwnCount(res, step) ==
    LET outcome == [r \in Live |-> StatusFrom(res[r])]
        done == {r \in Live : outcome[r] # "RUNNING"}
    IN  /\ inFlight
        /\ Finish(done, outcome)
        /\ returned' = (Scheduled(out) \cap finishedReqIds) \cup done
        /\ progress' = [r \in Request |->
                          IF StepExecution /\ r \in Live /\ res[r] \in {"partial", "final"}
                          THEN progress[r] + 1 ELSE progress[r]]
        /\ inFlight' = FALSE
        /\ out' = NoOutput

\* Mutant: only what this output finished is returned.
UpdateFromOutput_DoneOnly(res, step) ==
    LET outcome == [r \in Live |-> StatusFrom(res[r])]
        done == {r \in Live : outcome[r] # "RUNNING"}
    IN  /\ inFlight
        /\ Finish(done, outcome)
        /\ returned' = done
        /\ progress' = [r \in Request |->
                          IF StepExecution /\ r \in Live /\ res[r] \in {"partial", "final"}
                          THEN step[r] ELSE progress[r]]
        /\ inFlight' = FALSE
        /\ out' = NoOutput

\* update_from_output.  A request aborted after schedule() keeps its status but
\* its id is surfaced too (_finalize_update_from_output).
UpdateFromOutput(res, step) ==
    LET outcome == [r \in Live |-> StatusFrom(res[r])]
        done == {r \in Live : outcome[r] # "RUNNING"}
    IN  /\ inFlight
        /\ Finish(done, outcome)
        /\ returned' = (Scheduled(out) \cap finishedReqIds) \cup done
        /\ progress' = [r \in Request |->
                          IF StepExecution /\ r \in Live /\ res[r] \in {"partial", "final"}
                          THEN step[r] ELSE progress[r]]
        /\ inFlight' = FALSE
        /\ out' = NoOutput

\* finish_requests(ids, FINISHED_ABORTED): unknown and finished ids are skipped.
FinishRequests(ids) ==
    LET live == {r \in ids : status[r] # "NONE" /\ ~IsFinished(r)}
    IN  /\ Finish(live, [r \in live |-> "FINISHED_ABORTED"])
        /\ UNCHANGED <<progress, out, inFlight, returned>>

\* preempt_request, between two scheduler outputs.
PreemptRequest(r) ==
    /\ ~inFlight
    /\ r \in running
    /\ running' = running \ {r}
    /\ runningKey' = IF running = {r} THEN NoKey ELSE runningKey
    /\ waiting' = <<r>> \o waiting
    /\ status' = [status EXCEPT ![r] = "PREEMPTED"]
    /\ UNCHANGED <<finishedReqIds, progress, out, inFlight, returned>>

\* pop_request_state, called when a finished request is answered.
PopRequestState(r) ==
    /\ IsFinished(r)
    /\ ~(inFlight /\ r \in Scheduled(out))
    /\ status' = [status EXCEPT ![r] = "NONE"]
    /\ progress' = [progress EXCEPT ![r] = 0]
    /\ UNCHANGED <<waiting, running, runningKey, finishedReqIds, out, inFlight, returned>>

\* close: the engine calls it once its loop has stopped.
SchedClose ==
    /\ ~inFlight
    /\ status' = [r \in Request |-> "NONE"]
    /\ waiting' = <<>>
    /\ running' = {}
    /\ runningKey' = NoKey
    /\ finishedReqIds' = {}
    /\ progress' = [r \in Request |-> 0]
    /\ UNCHANGED <<out, inFlight, returned>>

\* A runner has executed out: the step scheduler takes over the step it reports.
Update ==
    \E res \in [Scheduled(out) -> RunnerResult] :
        /\ \A r \in Live : RunnerMayReport(r, res[r])
        /\ UpdateFromOutput(res, StepReported)

SchedNext ==
    \/ \E r \in Request : AddRequest(r)
    \/ Schedule
    \/ Update
    \/ \E ids \in SUBSET Request : FinishRequests(ids)
    \/ \E r \in Request : PreemptRequest(r)
    \/ \E r \in Request : PopRequestState(r)
    \/ SchedClose

SchedSafety == SchedInit /\ [][SchedNext]_schedVars

-----------------------------------------------------------------------------
\* Every variable has the shape the source gives it.
SchedTypeOK ==
    /\ status \in [Request -> Status]
    /\ waiting \in Seq(Request)
    /\ running \in SUBSET Request
    /\ runningKey \in SamplingKey \cup {NoKey}
    /\ finishedReqIds \in SUBSET Request
    /\ progress \in [Request -> 0..TotalSteps]
    /\ out \in SchedulerOutput
    /\ inFlight \in BOOLEAN
    /\ returned \in SUBSET Request

\* An id is waiting exactly while its status says so, and at one place of the
\* deque only.
WaitingMatchesStatus ==
    /\ Queued = {r \in Request : status[r] \in {"WAITING", "PREEMPTED"}}
    /\ \A i, j \in DOMAIN waiting : waiting[i] = waiting[j] => i = j

\* An id is running exactly while its status says so.
RunningMatchesStatus == running = {r \in Request : status[r] = "RUNNING"}

\* The queues and the states agree: no finished or popped id stays queued (it
\* would be executed again) and no live id is in neither queue (nothing would
\* ever schedule it): the bookkeeping of _finish_requests and preempt_request.
QueuesMatchStates == WaitingMatchesStatus /\ RunningMatchesStatus

\* A batch is homogeneous: all running requests share the key they were admitted
\* under, which is forgotten exactly when the batch is empty, so that a stale
\* key can neither admit nor hold back the next wave.
HomogeneousBatch ==
    /\ running = {} <=> runningKey = NoKey
    /\ \A r \in running : KeyOf[r] = runningKey

\* The batch never outgrows max_num_running_reqs.
BatchWithinCapacity == IsFiniteSet(running) /\ Cardinality(running) <= MaxRunning

\* While an output is in flight each id it scheduled is still running, or was
\* finished since; _finished_req_ids holds those that were, and only those.
InFlightAccounted ==
    inFlight => /\ ~IsEmpty(out)
                /\ \A r \in Scheduled(out) :
                      /\ r \in running \/ IsFinished(r)
                      /\ r \in finishedReqIds <=> IsFinished(r)

\* update_from_output returns exactly the scheduled ids that are finished once
\* it has run, those aborted while the runner was executing included.
UpdateSurfacesFinished ==
    [][Update => returned' = {r \in Scheduled(out) : status'[r] \in Terminal}]_schedVars

\* schedule() hands out work whenever the scheduler has requests: the head of
\* the waiting queue can always be admitted to an empty batch.
ScheduleProgresses == [][Schedule /\ HasRequests => ~IsEmpty(out')]_schedVars

\* A terminal status is final until the state is popped: a runner output that
\* arrives after an abort does not overwrite it.
TerminalIsFinal ==
    [][\A r \in Request : IsFinished(r) => status'[r] \in {status[r], "NONE"}]_schedVars

\* First come, first served: no waiting request starts to run while one that
\* was ahead of it still waits, whatever their keys.
NoOvertaking ==
    [][\A i, j \in DOMAIN waiting :
          i < j /\ waiting[j] \in running' => waiting[i] \notin {waiting'[k] : k \in DOMAIN waiting'}]_schedVars

\* Every request that is added ends: requests of another key, arriving for ever
\* or running step after step, cannot starve it.
EveryRequestEnds ==
    \A r \in Request : status[r] = "WAITING" ~> IsFinished(r) \/ status[r] = "NONE"
=============================================================================
