----------------------------- MODULE StepRunner -----------------------------
(* Step execution: the scheduler of DiffusionScheduler (with StepExecution)  *)
(* and the worker that runs its outputs, DiffusionModelRunnerV2 behind       *)
(* DiffusionWorker.  Both sides keep a state for each request, and the only  *)
(* thing that tells the worker that one is finished is the next scheduler    *)
(* output, so the worker is always behind.                                   *)
(*                                                                           *)
(* An execution is one step, taken together with update_from_output: what    *)
(* comes between Schedule and the update does not touch the worker.          *)
EXTENDS DiffusionScheduler

CONSTANT StartAt  \* sampling_params.step_index of each request

ASSUME StartAssumption == StartAt \in [Request -> 0..(TotalSteps - 1)] /\ StepExecution

VARIABLES
    stateCache,  \* state_cache of the runner: step_index of the cached requests
    adapters,    \* the ids in _step_lora_state of the worker
    unheard      \* ids whose end was told in an output that never got to the
                 \* runner, which still caches them (a history variable)

workerVars == <<stateCache, adapters, unheard>>
runnerVars == <<schedVars, workerVars>>

-----------------------------------------------------------------------------
NotCached == -1
Cached == {r \in Request : stateCache[r] # NotCached}

RunnerInit ==
    /\ SchedInit
    /\ stateCache = [r \in Request |-> NotCached]
    /\ adapters = {}
    /\ unheard = {}

\* Mutant: the ids finished since the last output are not dropped first.
Heard_Nothing == stateCache

\* The cache once _update_states has dropped the ids out says are finished.
Heard == [r \in Request |-> IF r \in out.finished THEN NotCached ELSE stateCache[r]]

\* The requests for which _update_states raises ValueError: new ones that are
\* cached already, and ones that should be and are not.
Duplicate == {r \in out.new : Heard[r] # NotCached}
Missing == {r \in out.cached : Heard[r] = NotCached}

\* Mutant: a new request resumes at the step it was added with.
Started_Resumed(S) == [r \in Request |-> IF r \in S THEN progress[r] ELSE Heard[r]]

\* _update_states caches a fresh state, at step 0, for each new request it comes to.
Started(S) == [r \in Request |-> IF r \in S THEN 0 ELSE Heard[r]]

\* step_scheduler of the pipeline, for the states it comes to.
Stepped(cache, S) == [r \in Request |-> IF r \in S THEN cache[r] + 1 ELSE cache[r]]

\* _activate_step_lora: the worker's own state per request.
ActivateAdapters == adapters' = (adapters \ out.finished) \cup out.new

\* An exception in the worker comes back as an error for the whole batch.
Fails == UpdateFromOutput([r \in Scheduled(out) |-> "error"], StepReported)

-----------------------------------------------------------------------------
\* The adapter of the batch cannot be activated: _activate_step_lora raises, the
\* runner is not called and out.finished is lost to it.
AdapterFails ==
    /\ inFlight
    /\ ActivateAdapters
    /\ unheard' = (unheard \cup out.finished) \cap Cached
    /\ UNCHANGED stateCache
    /\ Fails

\* execute_stepwise raises: while it resolves the states (for a duplicate or
\* missing one, or receiving the K/V of a new one), in encode or denoise, between
\* two calls of step_scheduler, or in decode.
RunnerRaises ==
    /\ inFlight
    /\ ActivateAdapters
    /\ unheard' = unheard \ out.finished
    /\ \E started \in SUBSET (out.new \ Duplicate) :
          \/ stateCache' = Started(started)
          \/ /\ started = out.new /\ Missing = {}
             /\ \E S \in SUBSET Scheduled(out) : stateCache' = Stepped(Started(out.new), S)
    /\ Fails

\* _update_states_after drops the states that have completed.
UpdateStatesAfter(cache) ==
    [r \in Request |-> IF r \in Scheduled(out) /\ cache[r] >= TotalSteps THEN NotCached ELSE cache[r]]

\* execute_stepwise runs one step of every request of the batch and decodes those
\* that have come to their last.  A decoded output may carry an error, and the
\* reply may be lost on its way back: then the whole batch is in error.
RunnerSteps ==
    LET cache == Stepped(Started(out.new), Scheduled(out))
        completed == {r \in Scheduled(out) : cache[r] >= TotalSteps}
    IN  /\ inFlight
        /\ Duplicate = {} /\ Missing = {}
        /\ ActivateAdapters
        /\ unheard' = unheard \ out.finished
        /\ stateCache' = UpdateStatesAfter(cache)
        /\ \/ Fails
           \/ \E res \in [Scheduled(out) -> {"partial", "final", "error"}] :
                 /\ \A r \in Scheduled(out) : r \notin completed <=> res[r] = "partial"
                 /\ UpdateFromOutput(res, cache)

\* The other calls of the scheduler, none of which reaches the worker.  The busy
\* loop schedules only when there are requests, so that no output is empty, and
\* pops the states of the requests it answers between two outputs.
SchedulerCalls ==
    /\ \/ \E r \in Request : AddRequest(r) /\ progress'[r] = StartAt[r]
       \/ HasRequests /\ Schedule
       \/ \E r \in Request : FinishRequests({r})
       \/ \E r \in Request : PreemptRequest(r)
       \/ ~inFlight /\ \E r \in Request : PopRequestState(r)
    /\ UNCHANGED workerVars

\* close: the executor is shut down after the scheduler, and its workers end.
Shutdown ==
    /\ SchedClose
    /\ stateCache' = [r \in Request |-> NotCached]
    /\ adapters' = {}
    /\ unheard' = {}

Execute == AdapterFails \/ RunnerRaises \/ RunnerSteps

RunnerNext == SchedulerCalls \/ Execute \/ Shutdown

RunnerSafety == RunnerInit /\ [][RunnerNext]_runnerVars

\* The busy loop schedules while there are requests, and an execution returns: the
\* last is weak fairness of Execute, which is enabled exactly while inFlight holds
\* and is all that ends it.
RunnerSpec ==
    /\ RunnerSafety
    /\ WF_schedVars(HasRequests /\ Schedule)
    /\ []<>(~inFlight)

-----------------------------------------------------------------------------
\* Both sides have the shape the source gives them.
RunnerTypeOK ==
    /\ SchedTypeOK
    /\ stateCache \in [Request -> NotCached..TotalSteps]
    /\ adapters \in SUBSET Request
    /\ unheard \in SUBSET Request

\* Requests that have run and are not finished.
Begun == {r \in Request : status[r] \in {"RUNNING", "PREEMPTED"}}

\* Ids whose end is still to be told to the worker.
Ending == finishedReqIds \cup (IF inFlight THEN out.finished ELSE {})

\* The worker keeps nothing for ever: whatever it holds (latents, prompt
\* embeddings, an adapter) belongs to a request that goes on or to one whose end
\* it has yet to be told, and nothing of a completed one.  The exception are the
\* states whose end was told in an output that never got to the runner.
CacheAccounted ==
    /\ Cached \subseteq Begun \cup Ending \cup unheard
    /\ adapters \subseteq Begun \cup Ending
    /\ \A r \in Cached : status[r] # "FINISHED_COMPLETED"

\* Neither ValueError of _update_states can hit the requests of a batch, and the
\* adapter of each continued one is known: scheduler and worker agree on which
\* requests are new, through aborts during an execution, preemption, failed
\* executions and ids that are used again.  Only an unheard end breaks it.
NothingRefused ==
    inFlight => /\ Duplicate \subseteq unheard
                /\ Missing = {}
                /\ out.cached \subseteq adapters \ out.finished

\* The step the scheduler has of a request is the one its state is at, short of
\* the last: an execution that failed halfway leaves no request that goes on with
\* a step too many or too few.
StepsAgree ==
    \A r \in Begun : ~(inFlight /\ r \in out.new) =>
        stateCache[r] = progress[r] /\ progress[r] \in 1..(TotalSteps - 1)

\* The worker does what the scheduler's specification assumes of a runner: the
\* steps it reports are the ones of StepReported, up to the last and not beyond.
RunsScheduler == SchedSafety
=============================================================================
