# Verification of the serving core and the DreamZero rollout

TLA+ models, TLC runs and TLAPS proofs for the parts of this repository that keep
state across requests: the diffusion engine, its schedulers and its calls to the
workers (`vllm_omni/diffusion`), the autoregressive KV cache
(`vllm_omni/experimental/ar_diffusion`) and the session bookkeeping of the DreamZero
world model, in one process and split over encode, denoise and decode stages
(RFC 4590), the orchestrator that leads a request through its stages
(`vllm_omni/engine`), and the directory of replicas it routes by
(`vllm_omni/distributed/omni_coordinator`).

`PROJECT.json` lists components, runs, mutants, the map from definitions to
source lines, findings, hazards and theorems.

## 1. The system

| Component | State it keeps | Operations | Status |
|---|---|---|---|
| Request schedulers (`diffusion/sched/`) | `_request_states`, `_waiting`, `_running`, key of the running batch, `_finished_req_ids` | add, schedule, update_from_output, finish, preempt, pop, close | `DiffusionScheduler` |
| Diffusion engine (`diffusion_engine.py`) | `_out_queue` of futures, abort queue, RPC queue, `_closed`, `stop_event`, the busy-loop thread | add_request / get_result, abort, the loop, delivery, close | `DiffusionEngine`, the RPC queue in `ExecutorRpc`; streaming not yet |
| AR KV cache (`experimental/ar_diffusion/`) | session LRU, page pool, windows, pending contexts, shared cross-attention pool | execute_model, allocate, commit, reset, close | `ARRollout`; block tables not yet |
| DreamZero pipeline (`models/dreamzero/`) | session LRU of `DreamZeroState`: frame count, prompt, image conditions | the phases of `forward`, `reset_reason`, teardown | `ARRollout`, `DisaggRollout` |
| Disaggregated stages (`stage_payload.py`, runner atoms) | none of their own: a payload per boundary | encode, pack, unpack, diffuse | session bookkeeping in `DisaggRollout` |
| Executors and workers (`executor/`, `worker/`) | one broadcast and one result queue for all calls, worker processes, monitor; per request the adapter of `_step_lora_state` | collective_rpc, timeouts, shutdown on worker death; execute_stepwise | `ReplyChannel`, `ExecutorRpc`, `StepRunner`; start-up and sleep / wake-up messages not |
| Model runners (`diffusion_model_runner*.py`) | `state_cache` of running requests | drop the finished, cache the new, step, decode, drop the completed | `StepRunner` for step execution; request mode keeps nothing |
| Stage processes and clients (`stage_diffusion_proc.py`, `stage_diffusion_client.py`) | a task per request, two pipes, the client's output queue, flags for a dead and for an ending process | add, abort, respond, fail, be killed; poll, monitor | `StageDiffusionClient`; streaming and RPCs not yet |
| Orchestrator, stage pools (`engine/`) | request states, the CFG companions of each request, bindings to replicas, attached replicas | add, abort, forward, defer, error, membership, shutdown | `Orchestrator`: an LLM stage before a diffusion stage |
| Coordinator (`distributed/omni_coordinator/`) | registry with the silence of each replica, a pending broadcast, the hub's list | register, heartbeat, time out, publish, reconnect | `OmniCoordinator` |
| Connectors, KV transfer | buffers in flight | put, get, chunk transfer | left out |
| `core/sched` | subclasses of vLLM's scheduler | | left out: the state machine is not in this repository |
| Entrypoints, metrics, numerics, model code | | | left out |

How they interact. A client coroutine puts a request into the engine's scheduler
under the condition variable `_cv` and awaits a future in `_out_queue`. One
thread, the busy loop, drains aborts and RPCs, schedules, calls the executor,
updates the scheduler and completes futures through the event loop. `close()`
runs on a third thread and takes the futures that are left. The executor sends
the batch to the workers over one broadcast queue and takes the replies from one
result queue, which it matches with the calls by their order alone; a monitor
thread shuts it down when a worker dies. In a worker the AR runner attaches the
session's KV state to the pipeline and runs `forward`, whose exceptions tear the
session down.

A diffusion stage lives in a process of its own, which answers over a pipe and
sends a sentinel as its last frame; the client in the head process drains it at
every poll and has a monitor thread. The orchestrator is an event loop with a task
that handles what the frontend sends, a task that polls the stages, and a task that
watches the hub; it forwards the output of one stage to a replica of the next,
holding a request back until its CFG companions are done, or their KV is ready. With
several replicas of stage 0 the frontend, on the caller's thread, binds a multimodal
request to one of them before it adds the request. In the disaggregated
deployment it carries a payload from the encode worker, which decides resets, to
the denoise worker, which owns the KV; both keep session states of their own.
Replicas announce themselves to a coordinator with events that nobody acknowledges;
the coordinator publishes the list of the active ones to the hub.

What is hard, and what makes each part correct:

- the engine: three threads and two owners of futures. *Every* future must have
  exactly one owner and be answered once; a batch must survive aborts of its
  members; `close()` may give up on the loop and must still leave nobody waiting.
- the schedulers: four containers and a cached key that must stay consistent over
  any order of calls, and admission that neither idles nor starves.
- the step runner: the worker keeps a state of every request the scheduler keeps one
  of, and learns of an end only from the next scheduler output. Whatever fails
  between the two, the runner must not be handed a request it takes for a duplicate or
  does not know, nor step one at another step than the scheduler has.
- the rollout: two LRU maps that shadow each other and evict at different
  moments, blocks with four ways to be given back, flags that say what a *shared*
  pool holds, and forwards that die between a write and its commit.
- the stages: a decision taken on one worker from state the other worker
  advances, carried by a message that can be lost.
- the executor: nothing but the order links a reply to its call, so there must never
  be two callers inside, also in the window in which the busy loop starts; a call
  must return although its worker dies, its deadline passes or the loop ends.
- the orchestrator: every wait (`pick` waits up to a minute for a replica) lets the
  other tasks clean up the very request that is being submitted; companions finish,
  or have their KV ready, in any order with their parent; bindings are made on one
  thread and dropped on another; replicas, engines and users leave at any moment.
  A request must be told its end once, and nothing of it may stay behind.
- the coordinator: whatever is lost, silent or late, the hub must come to hold the
  replicas that are alive.

The complete list is under `hazards`, each at its line.

## 2. The modules

    DiffusionScheduler  <--EXTENDS--  DiffusionEngine        ARRollout  <--EXTENDS--  DisaggRollout
       ^       ^                            ^                    ^                         ^
       |   ..._proofs               ..._proofs, MC...           MC...         ARRollout_proofs, MC...
       |
       +--EXTENDS--  StepRunner  <--  ..._proofs, MC...

    ReplyChannel  <--INSTANCE--  ExecutorRpc      StageDiffusionClient  <--EXTENDS--  Orchestrator
          ^                           ^                                                    ^
       ..._proofs              ..._proofs, MC...                                    ..._proofs, MC...

    OmniCoordinator  <--  ..._proofs, MC...

`ExecutorRpc_proofs` also instantiates `ReplyChannel_proofs`, and the proof modules of the
engine and of the step runner extend the scheduler's.

An operator named `X_Something` directly above `X` is a *mutant*: the definition
`X` with a plausible bug. No specification uses it. Each property has a mutant
under which TLC finds it violated (`mutants` in `PROJECT.json`): a property that
survives every bug says nothing.

### DiffusionScheduler

`_BaseScheduler` and its two subclasses; `StepExecution` chooses
`StepScheduler` (a request runs `TotalSteps` updates) or `RequestScheduler`
(one). `status` is `_request_states`, with `"NONE"` for an absent id;
`waiting` and `running` are the two queues; `runningKey` caches the sampling key
of the batch, the one thing admission compares. Sampling parameters are reduced
to that key, a runner's output to what `update_from_output` distinguishes
(`RunnerResult`). `Next` lets a caller use the operations in any order, with one
scheduler output in flight at a time; an abort may arrive between `Schedule` and
`Update`. `UpdateFromOutput` and `Finish` are the whole Python functions,
including what they remove from which queue and what they return.

`UpdateFromOutput` takes the steps a runner reports; `StepReported` and
`RunnerMayReport` are what `Update` assumes of them. A runner counts from 0 whatever
`step_index` a request was added with: the scheduler checks that value and keeps it,
and no pipeline reads it (`StartAt` gives it in `StepRunner`). `preempt_request`
has no caller in the source; it is modelled as the interface offers it.

### StepRunner

The scheduler in step mode with the worker that runs its outputs:
`DiffusionModelRunnerV2` behind `DiffusionWorker`. `stateCache` is `state_cache`, reduced
to the `step_index` of each state, `adapters` the ids in `_step_lora_state`. An
execution is one step with the update that follows it, since what comes in between
does not touch the worker; aborts between `Schedule` and the execution are steps of
their own. `RunnerSteps` is `execute_stepwise` when it works; `RunnerRaises` has every
state it can leave when it does not: while it resolves the new states (`_update_states`
caches them one by one), or between two calls of `step_scheduler` (some requests of the
batch have their step, others not). `AdapterFails` is `_activate_step_lora` raising
*before* the runner is called: the worker has dropped the finished ids from its own
state, the runner never sees them. `unheard` records them; no code reads it.
In every failure the engine marks the whole batch as in error (`Fails`).

`RunnerSafety => RunsScheduler` is the refinement that gives `Update` its assumption: the
composition, seen through the scheduler's variables, is a `DiffusionScheduler`.

### DiffusionEngine

The non-streaming engine on top of that scheduler. `loop` is the program
counter of `_busy_loop` at the points where it gives `_cv` up: the head, the wait,
the admission wait of request batching, the execution, the aborts drained after
it, the update, and the delivery of one finished request at a time.
`outQueue`, `popped` (taken by the delivery, not answered) and `taken` (taken by
`close()`) are the owners of futures; `answer` is the state of each future;
`caller` that of the coroutine between `add_request`, `get_result`'s lookup and
its return; `closer` that of `close()`: answer, join, give up, resume.
`LockFree` says when another thread can get `_cv`.

Modelling decisions: the loop thread is started at `Init`; the hop through
`call_soon_threadsafe` in `_complete_future` is one step with the answer, since
nothing else completes an owned future; an executor failure is the result
`"error"`; `update_from_output` runs outside `_cv`, so adds and aborts interleave
with it as separate actions before and after, and not in its middle: that an `append`
to the deque is safe while the update runs (`diffusion_engine.py:431`) rests on the update
never rebuilding `_waiting` and is not checked here; the branch for an empty scheduler
output is kept although the theorem `EmptyOutputIsNeverSeen` shows it dead. The
streaming variants and the synchronous warm-up are not modelled; the RPC queue is
`ExecutorRpc`'s.

### ARRollout

One worker rolling sessions out. `sessions`/`kv` are the runner's LRU of
`ARDiffusionKVState` (chunks committed, blocks resident, pending branches,
populated flags per CFG branch), `states`/`dz` the pipeline's LRU of
`DreamZeroState`, `free` the pool, `cross` the cross-attention pool: per branch,
what it holds and who wrote it. `run` is the forward in progress with its phase:
`attached` (in `execute_model`, before `forward`), `populate`, `prefill`,
`written` (K/V written, not committed), `dit`. `Branch` and `LocalBranch` cover
no CFG, sequential CFG and CFG-parallel ranks.

`Encode` is `_run_encode_phase` as one action, since nothing else runs on the
worker; `Fail` is any exception at any point, with the teardown of
`execute_model`, and in the middle of `_kv_populate_cross` it may leave the pool
`Torn`. Prompts and CLIP features are model values; tensors, schedules of the
denoise loop and the VAE stream are left out. vLLM's `KVCacheManager` is external
and modelled by how `allocate_token_slots` uses it: blocks that left the window
are freed, then the new ones are taken or the call fails; the null block takes one
of the pool; one block is one frame, as frame-granular paging sizes it. Only the
I2V model with a finite attention window is covered; CUDA-graph warm-up and dummy
requests are not.

### DisaggRollout

The same worker behind an encode worker. `EncodeStage` keeps session states of
its own (`enc`), puts carrier and reset reason on `queue`, or raises before or
after its reset; `AbortBetween` is the orchestrator dropping the output of an
aborted request; `Receive`, `Realign` and `DenoiseStep` are the denoise worker:
the runner's attach, `diffuse` up to `_run_denoise_phase`, and the steps of
`ARRollout` from there on. `lost` is a history variable: the sessions of which a
request did not get through.

### ReplyChannel

The abstract specification of `collective_rpc`: one call inside at a time, replies
handed out oldest first and once each. It promises no more than the code can: a
caller that gives up leaves its reply in the queue, and `ReplyBalance` states that
every such call shifts the channel by one reply for good, `OwnReplyUntilGiveUp` that
before the first of them everyone is given the reply to its own call.

### ExecutorRpc

The same calls in detail. `at` is where the thread of a call is: before or after
each of the two looks at `_loop_started`, inside the executor with `_cv` held,
queued, or back. `rpcQueue` and `fut` are `_rpc_queue` and the futures in it; `loop`
is `_busy_loop` again, reduced to where it serves RPCs: at the head, in the wait, in
an execution, in the second drain, in the last one. `task`, `step` and `verdict`
split a served task where another thread can come between: the call, the check of
`done()`, the set. `calls`, `wire` and `results` are the inside of
`MultiprocDiffusionExecutor.collective_rpc` and its two queues; `workers`,
`isFailed`, `exClosed`, `mqOpen` and `monitor` are worker death and `shutdown()` in
the order of its assignments. The refinement maps `owed` to `results \o wire`.

Reductions: only the rank that replies is a worker; polling for a failure is the
guard of `ExecutorRaise`; `close()` runs on the event loop's thread, which also
starts the busy loop, so the two do not overlap. Not modelled: the start-up
handshake, sleep and wake-up messages, statuses gathered from several ranks, the
packing of tensors in shared memory, and the in-process executor, which has no queues.

### StageDiffusionClient

The client's end of a diffusion stage and the process behind it: `requestPipe` and
`responsePipe`, the dispatch tasks of the process, its life (`up`, `failing` once
`fatal_event` is set, `dead`, with an exit code that is a signal or not), and the
client's `_output_queue`, `_engine_dead` and `_shutting_down`. It has no
specification of its own: `ProcessNext` is the process, and the `Poll...` operators
are the outcomes of `get_diffusion_output_nowait`, which the orchestrator takes.
A poll is one step, at its look at `_engine_dead`; since its drain came before that,
it may have missed what the process sent in between (`PollReturns`' second way).
The exit code of a killed or crashed process stays `any`, above 128 or not, until that poll
looks: it is read once, so choosing there is choosing at the death.

### Orchestrator

Tasks of one event loop; an action is what a task does until it waits. `handler`
and `poller` are `_request_handler` and the output handler: at their loop, waiting in
`StagePool.pick`, or done. `requestStates` and `stageSubmitTs` are the keys of the maps of the
same names, `companionMap` to `companionOutputs` the `CfgCompanionTracker`,
`affinity` the bindings of the two pools, `bundled` the companions whose outputs went on
with each parent, `core` what the LLM engine cores are
running, `up` and `attached` what the hub says and what the pools have clients for.
`raised`, `fatalError`, `shutdown` and `ended` lead through the `finally` of
`run()`. `Forget`, `AbortIds`, `CleanupParent` are the shared helpers
(`_cleanup_request_ids`, `_abort_request_ids`, `cleanup_parent`), and every handler
is one action with all the calls it makes.

The frontend has two actions before `AddRequest`: `SelectReplica` is the choice
`preselect_replica_id` (or, without a hub, `select_replica_id`) makes on the caller's
thread, for a multimodal prompt and more than one replica; `BindSelected` the binding it
then writes, the event loop having run in between (`selecting`). Until the add is put the
request is `preselected`; `PreprocessingFails` is `process_inputs` raising, with the
release of the binding.

An LLM stage speaks of a request up to twice. Its raw outputs may say that its KV is ready
while it still generates (`early`, `_handle_kv_ready_raw_outputs`), and later it finishes.
`CompanionDone` and `ParentDone` serve both: early, a companion is done without an output,
stays tracked and may release its parent; a parent is deferred, or goes on. The early
forward runs inside the `try` of the poll, the other one outside: `Throw` is what becomes of
an exception in each, `StageDies` what an `EngineDeadError` caught there sets in motion.
A forward finds no client in a detached pool, and its input processor may raise
(`orchestrator.py:1224`): both end the output handler.

Two ghost variables name the requests for which the promises are weaker: `overtaken`,
cleaned up while their submission waited in `pick`, which then goes on and binds a
request nobody knows; and `detached`, cleaned up by the membership watcher, which
does not go through the companion tracker (`defer_parent` has a TODO on it) and finds
requests by their bindings, those of preselected ones not yet added among them.

Reductions: queue puts, aborts and sends do not yield to other tasks; the frontend
enqueues companions in the call that enqueues their parent, so never after its
abort; an abort is put only for a request that was added; a request may be preselected
whatever its prompt, since prompts are not told apart; the KV of a request becomes ready at
any time before it ends, and once, since a second time changes nothing; once a task has raised, nothing is put and nothing fails any more, since
`run()` ends; a replica that was detached is not followed further (nobody polls it).
Not modelled: streaming updates, async-chunk prewarming (in that mode ready KV is
ignored), prefill/decode disaggregation, more than two stages or an output on stage 0, collective RPCs,
replicas attached later, metrics.

### OmniCoordinator

`replica` is the life of a stage process; `channel` the events on their way from
its client; `registry`, `pending` and `phase` the coordinator's `_replicas`,
`_pending_broadcast` and the point its periodic thread has reached (the list is taken
at `Publish`, the flag cleared at `ClearPending`, and the other thread handles events
between); `subscribed`, `wire` and `hub` the way of a list to the hub client. Time
is what the code compares it with: an entry that has been silent for longer than the
timeout, or for longer than the ten minutes after which it is deleted.

An address lives once, and one process speaks for it. The master server allocates a fresh
replica id, and so a fresh address, for a replica that does not name its id, and
`stage_engine_core_proc.py:133` says that each subprocess has an allocation of its own. That
is the case of one engine process per replica, which is the one modelled: with
`local_engine_count` above 1 (`StageEngineCoreProcManager`) several processes announce
the same first input address, and a process that names a replica id already allocated is
given its address again (`stage_engine_startup.py:486`). `NeverRelisted` and
`ListTellsWhoLives` say nothing of these two. `update_info`, the only other way to send
an update, has no caller. Not modelled: the shutdown and restart of the coordinator itself,
queue lengths, except that a changed one causes a broadcast, and the balancing
policies, which are pure.

## 3. The runs

| Run | Question | Instance |
|---|---|---|
| `sched_step` | Do scheduler and worker agree on which requests go on and at which step, whatever is aborted, preempted or fails; are the queues consistent, does nobody overtake, does every request end? | 3 requests with 2 keys interleaved, batch of 2, 2 steps, one request added at step 1 |
| `engine_step` | Is every future owned once and answered, does `close()` leave nobody waiting, is the scheduler used as its specification allows? | 2 requests of different keys, 2 steps each, aborts and `close()` at any moment |
| `engine_batch` | Is every caller of a batch answered, when it is delivered one request at a time and formed after an admission wait without the lock? | 2 requests of one key in one batch, request mode |
| `engine_undelivered` | (violation) are finished requests outside the round delivered? | 2 requests |
| `rpc_calls` | Do callers ever race on the executor's queues, are replies handed out in order and to their own callers, does every call return, and none stay behind in the queue? | 2 calls, one with a timeout, and 2 executions; worker death, deadlines, `close()` at any moment |
| `rpc_cancel` | (violation) does the check of `done()` keep the busy loop alive? | the same |
| `rollout_sessions` | Is no block lost, does the window follow the frame count, do resets keep flags and content in step? | 3 sessions, cap 2, window of 9 frames = 4 chunks of 2 + 1, both CFG branches, pool at its floor of 24, 2 prompts, 2 images |
| `rollout_cross` | (violation) is the cross-attention K/V a session reads its own? | the same |
| `disagg_stages` | Do both workers agree on the prompt while no request is lost, is no cross read refused? | 2 sessions, cap 1, window of 3, one local branch of two, pool at its floor of 7, 5 requests |
| `orch_requests` | Is a request told its end once and then gone, with no binding left, does it go on with what its companions have finished, is it always at work somewhere, is it answered? | a request with one companion, two LLM replicas, one diffusion replica; one LLM engine may die, every replica may vanish, the process may fail or be killed; preselection, early KV, abort and shutdown at any moment |
| `orch_shutdown` | (violation) does the orchestrator's thread exit after `shutdown()`? | the same without faults |
| `coord_list` | Does the hub come to hold the active replicas, and the list to tell who is alive; does an address that was taken back stay away? | 2 replicas, one event in flight from each, one list waiting, 2 faults |

Why the bounds suffice. *Scheduler:* two keys over three ids give a compatible
request behind an incompatible one, a full batch, and a preempted request with
one behind it; two steps separate a partial from a final update, and a batch of two
lets an execution fail with one of them stepped. An id is used again as often as it is
popped, so that it can meet what an earlier use of it left in the worker. *Engine:* every
race is between the loop, one caller and `close()`; a second request gives the
batch-mate, or the request waiting while another executes. *Rollout:* three
sessions against a cap of two make both LRU maps evict, in different orders; four
chunks reach the reset and the first chunk after it with room for an off-by-one;
a pool at its floor is exhausted by a second session, so allocation failures
occur. *Disaggregation:* five requests are enough for a session to be started,
lost, re-prompted and evicted on either worker, with cap 1 evicting on every
change of session. *Executor:* two calls meet in every pair of places (direct and
queued, both queued, both direct), an execution before and after lets a late reply
be taken by either; only the call with a deadline can give up while the workers
live. *Orchestrator:* one parent with one companion meet in every order; two LLM
replicas give a choice, a replica that dies while the other serves, and one that
vanishes while a submission waits, or after the frontend has chosen it; one companion is
early, late, or first one and then the other; the hazards are between the tasks of one
request and the replicas, and requests share nothing else. *Coordinator:* two
replicas make lists differ in more than being empty; two faults are a loss followed
by a silence, or a loss on each side of the coordinator.

The bounds are constants with names. `MaxRequests` bounds the requests a client of
`DisaggRollout` makes. `MayVanish`, `MayDie` and `MayAbort` are the replicas and users
of `Orchestrator` that may do so; requests and calls are made once each.
`MaxInFlight`, `HighWater` and `MaxFaults` bound the queues and the faults of
`OmniCoordinator`, and only its faults: what a dead replica does not send is no
fault. When the requests are used up, or after the end of `run()` or of the loop,
`DisaggRollout`, `Orchestrator` and `ExecutorRpc` stop, hence `CHECK_DEADLOCK FALSE`
there and nowhere else. `ARRollout` needs no bound: window resets keep the frame
count finite. Symmetry (prompts, images, the non-default sessions) is used only in
runs without liveness.

### The properties

*Scheduler.* `QueuesMatchStates`: an id is queued exactly when its status says
so, once, and in one queue. `TerminalIsFinal`,
`NoOvertaking` (no request starts while one ahead of it stays queued),
`EveryRequestEnds` (liveness). Proved for all instances and checked by no run are
`HomogeneousBatch` (all running requests share the cached key, and no key is cached
without a batch), `BatchWithinCapacity`, `InFlightAccounted` (an id handed to the runner
is running or remembered as finished), `UpdateSurfacesFinished` (an update returns every
scheduled id that is finished, those aborted meanwhile too) and `ScheduleProgresses`
(`schedule()` with requests hands work out).

*Step runner.* `CacheAccounted`: what the worker holds belongs to a request that goes on,
or to one whose end it has yet to be told, or was told in an output that never got to the
runner. `NothingRefused`: neither `ValueError` of `_update_states` can hit the requests
of a batch, but for such an id used again. `StepsAgree`: scheduler and runner have the
same step of every request that goes on. `RunsScheduler`: the refinement.

*Engine.* `PendingHasOneOwner`, `AnsweredIsForgotten`, `LoopNeverCrashes`,
`CloseIsComplete`; `UsesScheduler` is the refinement: the engine's behaviour,
seen through the scheduler's variables, satisfies `DiffusionScheduler`'s
specification. Liveness: `CallersAreAnswered`, `BatchAbortIsReleased`,
`CloseAnswersEveryone`.

*Rollout.* `PoolAccounted`, `PoolNeverOutlivesModel`, `NothingHalfWritten`,
`WindowAligned`, `OwnCrossIsCurrent`, `ExhaustedByOthers`, and with the stages
`TextStaleOnlyAfterLoss`, `CrossReadAfterPopulate`.

*Executor.* `ImplementsReplyChannel`: the code is a `ReplyChannel`. Two callers
inside at once would break it, and so would a reply overtaking another.
`ReturnsOwnReply`: a caller that returns a reply has its own, as long as no call gave up.
`ExitLeavesNobody`: when the loop's thread ends, every future that was queued is done.
`CallersReturn` (liveness): a call queued before the busy loop's last drain returns,
whoever dies or closes, and one with a timeout returns anyway. A call without a
timeout that is queued *after* that drain waits for ever; `_submit_rpc` does not look
at `_closed`, and the property excludes it by the state of the loop.

*Orchestrator.* `AnsweredOnce`: a request is told its end at most once and is not
tracked afterwards, unless it is overtaken or detached. `BindingsAccounted`: a
request that a pool binds is tracked, or, on stage 0, on its way from the thread that
preselected its replica to the handler that admits it, or overtaken; nothing that is
aborted, fails or vanishes on this way leaves a binding behind. `DeferredIsAwaited`:
a deferred parent is tracked and has a companion that is still to finish, fail or be
submitted, or that the watcher took. `ForwardBundles`: a parent goes on when
every companion registered by then is done, and with the output of every one that has
finished. The companions it goes on without are still generating and have their KV ready:
only for them is the warning of `orchestrator.py:1201` due, and in pipelines that transfer
KV it is. `TrackedIsServed`: while a request is tracked, an
engine of an attached replica runs it, a task in `pick` holds it, its companions'
deferral holds it, or the diffusion process has it, has answered it or is dead (which
the monitor or the next poll finds out); what a step must not do is forget where the
work was and keep the request, as `handle_unregister` would if it dropped the bindings
before it looked them up. `RequestsAreAnswered` (liveness) is what follows under
fairness, except after an abort, at the end, and in two cases the code leaves open: a
process killed by a signal is taken for one that was told to shut down, and a companion
that was detached never releases its parent.

*Coordinator.* `NeverRelisted`: an address that was taken back, by a good-bye or by the
deletion of its entry, is never active again. `HubCatchesUp`: once the active replicas
stay the same the hub comes to hold them, whatever was lost. `ListTellsWhoLives`: a
living replica that the coordinator knows is listed for good, one that is gone is not,
also when its good-bye was lost. A living replica that the coordinator does *not* know
stays unknown: a registration is sent once, and one that is lost, or an entry deleted
after ten minutes, is never made up for.

### Fairness

`EngineFairness`: weak fairness of the busy loop (a thread that runs; every executor
call returns, with a result or an exception), of `Lookup` and `Return` (the event loop
resumes its tasks), and of the steps of a `close()` that has begun. Nobody is obliged to
submit, to abort or to close. `RunnerSpec`: weak fairness of scheduling while there are
requests, and every execution ends, with an output or an error. The latter is written
`[]<>(~inFlight)`, which is weak fairness of `Execute`: that action is enabled exactly
while an output is in flight, and nothing else ends it. The rollout modules state safety
only: a forward that fails or hangs is the executor's matter.

`RpcFairness`: threads that can run do, a living worker serves, the deadline of a
call passes, a task of the event loop that sets `_loop_started` gets there. Nobody
has to call, start, close or die. `OrchFairness`: the event loop runs one of its tasks
when one can run, and the process of the diffusion stage receives, answers and tears
down; a living LLM engine finishes or fails what it runs (`PollLLM` is a step of the
poller; that a KV is ready changes the state only once, so it cannot stand for progress for
ever). A vanished replica need not return, and the watcher is promised nothing.
`CoordFairness`: heartbeat, receive and publish
threads run. `CheckHeartbeats` has strong fairness because the check comes round by
the clock: the loop can find it due again and again between other rounds.

## 4. What the code does not do as it says

Each is a run that checks one sentence of the source and finds it violated.

1. `engine_undelivered`: a request aborted while it waits outside the executing
   batch is finished in the scheduler and never delivered; the branch meant for it is
   unreachable.
2. `rollout_cross`: the cross-attention pool is one per branch, its populated flags
   are per session: after another session populated it, a session reads the other's
   prompt and image until its next reset.
3. `rpc_cancel`: a caller whose timeout passes between the loop's `done()` and
   `set_result` cancels the future in between; the set raises in the busy loop's
   thread and ends it, which the check is there to prevent.
4. `orch_shutdown`: with a membership controller `run()` also waits for the watcher,
   which is told to end only after `run()`'s wait: `shutdown()` joins a thread that
   never exits.

Seen while modelling, and covered by no run of their own:

- when the adapter of a batch cannot be activated, `_activate_step_lora` raises before the
  runner is called (`diffusion_worker.py:503`), and the `finished_req_ids` of that output
  are lost to it: their latents and embeddings stay in `state_cache` until the engine
  ends, and a request that comes back under such an id fails with its whole batch as a
  duplicate (`diffusion_model_runner_v2.py:82`). `CacheAccounted` and `NothingRefused` name
  it as their exception, `unheard`;
- the ends of the last requests reach the worker only with the next output, so an idle
  engine keeps the states of the requests that were aborted or failed last;
- a `step_index` a request is added with is checked by the step scheduler
  (`step_scheduler.py:47`) and ignored by the runner, which starts at 0;
- the loop can answer a request before `get_result` looks its future up
  (`diffusion_engine.py:688`), which then fails with "not found in output queue"
  (`:722`): the outcome `Lookup` models;
- at the session cap, a request that fails before reaching its model state evicts the
  KV but not the model state of the oldest session (`runner.py:292`), whose next
  forward is refused;
- the encode worker's frame count never moves (`pipeline_dreamzero.py:1890`), so the
  denoise worker is set back to frame 0 at every request while its window keeps growing:
  `WindowAligned` does not hold of `DisaggRollout`. The repository's README names
  multi-chunk session progress as open work;
- a reset decided for a request that does not get through is lost for good
  (`pipeline_dreamzero.py:1486`), which `TextStaleOnlyAfterLoss` states as its
  exception;
- an `EngineDeadError` of the diffusion poll or of a submission ends `run()` with
  `_fatal_error` unset (`orchestrator.py:357`): the requests in flight are told nothing;
- a replica that is lost after the frontend bound a request to it and before the request
  is admitted takes the request with it: the watcher finds the binding, tells the request
  an error, and the request is admitted all the same when its add is read
  (`membership_controller.py:88`, `async_omni_engine.py:706`). It is the `detached` of
  `AnsweredOnce`;
- a parent that goes on because its companions' KV is ready is bundled without their
  outputs, with a warning (`orchestrator.py:1201`); their outputs, once they come, stay in the
  tracker until the parent is cleaned up;
- the late reply of a call that gave up is handed to the next one
  (`multiproc_executor.py:421`): `ReplyChannel` allows it, and counts it;
- a broadcast requested while a list is being sent is forgotten
  (`omni_coordinator.py:281`) until the next keepalive, and an update of a known
  replica does not count as a sign of life.

## 5. What is proved

All proofs are checked by TLAPS for every value of the constants under the named
`ASSUME`s of the modules (batch size and step count positive, keys total, window and
chunk positive, special values distinct).

That every variable keeps its shape is a theorem of each component: `RunnerTypes`,
`EngineTypes`, `RolloutTyped`, `RpcTypeCorrect`, `OrchestratorTyped`, `DirectoryTypes`.
TLC checks two of these invariants besides, `RunnerTypeOK`, which bounds every step
index, and `CoordTypeOK`, which relates a flush to its flag; the other four state only
shapes, and no run repeats what the theorem settles.

**Scheduler** (`DiffusionScheduler_proofs`, 10 theorems). `SchedInv` is the type
invariant with `QueuesMatchStates`, `HomogeneousBatch`, `BatchWithinCapacity` and
`InFlightAccounted`; together they are inductive: the update needs to know that
what it finishes is queued once, the admission that the batch it extends has the
key it compares with. `Without` (the deque after removals) is defined without
recursion and its properties (range, no new duplicates) are lemmas; TLC compares it with
`SelectSeq` on every short queue. From the invariant follow the action properties
`UpdateSurfacesFinished`, `ScheduleProgresses` and `TerminalIsFinal`. `NoOvertaking`
too: only `Schedule` makes a queued request run, and it takes a prefix of a deque in
which no id has two places, so that whoever was ahead is taken as well.

**Step runner** (`StepRunner_proofs`, 7 theorems). `RunnerInv` adds to `SchedInv` and the
properties what holds from an output to the next: a request the worker knows has an
adapter and no end to come (`KnownIsHeld`); the output in flight holds the whole running
batch, its new ids are none of the others, and none of its ids is completed yet
(`OutputIsBatch`). `ExecutionKeeps` says once what the three endings of an execution have
in common, in terms of the cache before and after; the three lemmas after it show that
each is such an ending and an `Update`. From them follow `RunnerImplementsScheduler` and,
with it, that the scheduler's theorems hold of the composition (`RunnerServesInOrder`).

**Engine** (`DiffusionEngine_proofs`, 9 theorems). `EngineInv` adds to `SchedInv`
the phases of the loop and of `close()` (what may be in flight, popped or taken
where) and that a future nobody answered has a scheduler state; it implies
`PendingHasOneOwner` and `LoopNeverCrashes`. `EngineImplementsScheduler` is the
refinement: every engine step is a scheduler step or leaves its variables alone; by it
the scheduler's theorems hold of the engine (`EngineServesInOrder`).
`EmptyOutputIsNeverSeen` shows the empty-output branch of the loop dead.
`AnsweredIsForgotten` and `CloseIsComplete` each take a strengthening of their own.

**Rollout and disaggregation** (`ARRollout_proofs`, 12 theorems, of `ARRollout` and of
`DisaggRollout`). `WorkerInv` is what every step of the worker keeps, whichever path its
forwards come from, and is proved once for both specifications:

- `OrderInv`: the runner's LRU order is the tail end of the pipeline's, one use behind
  between `attached` and `forward`. Hence the pipeline, filling up, evicts a session only
  once the runner has, which is `PoolNeverOutlivesModel`.
- `PoolInv`: the free blocks and the blocks of all tables (`Resident`, a set of
  session, branch and place) are the whole pool, and no table outgrows window and chunk.
  Each step changes the table of one session, so the sets before and after differ by that
  session's; their cardinalities give `PoolAccounted`, and with the floor of the pool
  that a session which has it to itself is never refused: `ExhaustedByOthers`.
- `PendingInv`: only the chunk being written is uncommitted: `NothingHalfWritten`.

`RolloutInv` adds, for the monolithic path and a session at rest, the frame count of the
model state against the committed frames (one chunk behind, a multiple of the chunk plus
one, at most the window; `RestInv`), for the running one the branches that have committed
against those that have not (`RunInv`), and for all of them flags against the content of
the cross pool (`CrossInv`): whatever is evicted is fresh, a fresh model state starts
over, and a fresh KV state is not `CrossReady` and never gets to read. From it follow
`WindowAligned` and `OwnCrossIsCurrent`.

`DisaggInv` adds, for the disaggregated path, the line of payloads from the encode worker
to the cross pool (`Line`: the running one, then the queue). For a session that lost no
request, two payloads in a row have the same prompt unless the later one brings a reset
(`Linked`), the last one has the prompt the encode worker holds (`EndsOn`), and the first
one the prompt the session wrote in the pool (`StartsOn`); with nothing in the line the
two ends meet. Every step takes a payload from the front or adds one at the back. That is
`TextStaleOnlyAfterLoss`; `ReadyInv` gives `CrossReadAfterPopulate`, and
`DisaggWorkerSafe` that the four pool and order properties hold of this path too.

**Reply channel** (`ReplyChannel_proofs`, 2 theorems). `ChanInv` adds to the
balance that at most one call waits, that it has not given up, and that while nobody
has the only reply owed is the waiting call's.

**Executor** (`ExecutorRpc_proofs`, 6 theorems). `Parts` says who may be inside the
executor when: a direct caller only while it holds the lock, with the loop not yet
running, over, or stuck at its wait with nothing queued (`Holder`, which needs
`Window`: nobody queues before the flag is set), the loop only with the call of a
task or an execution (`Serving`, `Alone`); and a call is queued once and not yet
broadcast when it is taken (`Queued`, `BeforeQueue`). `RpcRefines` follows:
every step of the code issues, takes, gives up, shuts or stutters in `ReplyChannel`.
`ExecutorRpc_proofs` then instantiates `ReplyChannel_proofs` with the same substitution,
so that its two theorems become theorems of the executor: `RpcKeepsBalance` and
`RpcOwnReply`. `Told` follows a reply from the channel to the caller: who returns was given
one (with `RpcOwnReply`, its own: `RpcReturnsOwnReply`), and a future that is pending
(`Pending`) is in the queue or is the task being served. The last drain ends only with the
queue empty and no task, whatever was cancelled meanwhile: `RpcExitLeavesNobody`.

**Orchestrator** (`Orchestrator_proofs`, 6 theorems). `OrchInv` adds to `AnsweredOnce`
and `BindingsAccounted` that what is being submitted is tracked or overtaken, that a
tracked companion's parent is tracked or detached, that what was never read was
never told unless the watcher found it preselected, and that what is being selected or
is preselected was not yet put (`Preselection`). One lemma, `RemovalInv`, carries most handlers: a step that only
forgets requests, and tells only those it forgets, preserves it.

`OrchTypes` holds the shapes of all the rest, in four groups by who keeps them, each
with its step lemma. One of them is more than a shape: the sentinel is the last frame of
a dead process (`ClientTypes`), so that a drain, which stops at it, misses nothing
(`Outputs`), and what it returns are results and errors.

`TrackerInv` relates the maps of the companion tracker to the tasks that work on them. A
companion that is registered and not done runs, or is being submitted, or the watcher
took it (`CompanionsRun`); one that has finished, so that no engine runs it, has its output
kept until its parent goes on (`OutputsKept`); a deferred parent misses a companion (`DeferredMisses`); what is to be
cleaned up after a wait in `pick` is done (`LastIsDone`). From it `DeferredIsAwaited`: the
companion a deferred parent misses is one that runs. Each handler is first reduced to its
effect on the tracker (it forgets a family, ends a companion, forwards or defers a
parent), and one lemma per effect preserves the invariant. `ForwardBundles`, about two
states of a step, follows from it: wherever a parent goes on, every companion is done, or is
in that very step, and has its output kept unless an engine still runs it.

`ServedInv` is what `TrackedIsServed` needs to be inductive. An engine runs a tracked request
where its pool has bound it (`RunsWhereBound`), so that whoever loses the replica finds the
request; a deferred parent was not submitted (`DeferredNotSent`), so that the last companion
does release it; an abort on its way to the diffusion process names only requests that are no
longer tracked and whose message was read (`AbortsAreOver`), so that it cancels nobody's
task, and no request can be admitted under such an id later, since whoever left a mark
anywhere was announced (`Marked`, `Seen`) and a message is read once. Every step of a task
`Moves` a few requests: the others stay where they are, those land in a place of the list
(`MovesServed`). The process keeps what it was sent until it answers or dies
(`ReceivedServed`), and a poll returns one reply and keeps the rest (`RepliesKept`, which
needs that nothing follows the sentinel).

**Coordinator** (`OmniCoordinator_proofs`, 2 theorems). `CoordTypeOK`, which includes
that a list being flushed is still pending and that no replica is known before it has
started; the invariant adds the lists on their way. `WithdrawnForGood` is about an
address from registration to deletion: a replica's registration is the first event in its
channel and its good-bye the last, so an entry that was taken back, by a good-bye or by
deletion, is never active again, whatever is still on its way: `NeverRelisted`. The other
side of it: a replica that lives on after ten silent minutes is out for good, which is why
`ListTellsWhoLives` speaks of replicas the coordinator knows.

Only model-checked is liveness (TLAPS has no way to prove ENABLED or fairness here):
`EveryRequestEnds`, `CallersAreAnswered`, `BatchAbortIsReleased`, `CloseAnswersEveryone`,
`CallersReturn`, `RequestsAreAnswered`, `HubCatchesUp` and `ListTellsWhoLives`. Every other
property of a passing run is stated by a theorem.

## 6. Not modelled, and what is left

Left out on purpose: connectors and KV transfer (transports of the text and audio
models; the diffusion stages pass their payload through the orchestrator;
of them only the signal that KV is ready is modelled, where the orchestrator takes it),
`core/sched` (the state machine is vLLM's), entrypoints, metrics, configuration, and
the models, kernels and quantization, which are numerics. They are most of the
repository's lines. Of step execution, `interrupt` of a pipeline (nothing in the source sets
it) and the K/V received for a new request, but for its failure.

Left for later, in this order:

1. `PagedWindow`: block tables, slot mappings and window eviction of
   `kv_cache/paged*.py`: a slot read was written for that frame by that branch.
2. The streaming variants of the engine, of the step runner (chunks) and of the stage
   process, with their queues of partial outputs.
3. `InputBatch`, whose packed tensors are reused while the ids of a batch stay the same.
4. The decode stage, and the orchestrator over three diffusion stages: the lost
   decision of `DisaggRollout` would get its cause there.

## 7. Running

    tlasany M.tla                                    # parse
    tlc -config MCARRollout_sessions.cfg MCARRollout # one run
    tlapm ARRollout_proofs.tla                       # one proof module
