----------------------------- MODULE Orchestrator -----------------------------
(* The orchestrator (engine/orchestrator.py) with its stage pools             *)
(* (engine/stage_pool.py), its tracker of CFG companions                      *)
(* (engine/cfg_companion_tracker.py) and the watcher of the membership        *)
(* controller (engine/membership_controller.py): tasks of one event loop over *)
(* an LLM stage 0, a diffusion stage 1 behind a StageDiffusionClient, and a   *)
(* hub whose view of the replicas changes.  A task runs until it waits: for a *)
(* message, between polls, or for a serviceable replica in StagePool.pick.    *)
(* The frontend, on threads of its own, may bind a request before it adds it. *)
EXTENDS StageDiffusionClient, Naturals

CONSTANTS
    Parent, Companion,   \* the requests, of users and for them
    Owner,               \* the parent of each companion
    Replica0,            \* the LLM replicas of stage 0
    D,                   \* the diffusion replica of stage 1
    Distributed,         \* a membership controller is there
    MayVanish, MayDie, MayAbort,   \* bounds: replicas the hub may lose from view,
                                   \* LLM engines that may die, users who give up
    None

Stage   == {0, 1}
Replica == Replica0 \cup {D}

ASSUME OrchAssumption ==
    /\ Req = Parent \cup Companion /\ Parent \cap Companion = {}
    /\ None \notin Req \cup Replica
    /\ Owner \in [Companion -> Parent]
    /\ D \notin Replica0 /\ Distributed \in BOOLEAN /\ IsFiniteSet(Req)
    /\ MayVanish \subseteq Replica /\ MayDie \subseteq Replica0 /\ MayAbort \subseteq Parent

VARIABLES
    selecting,    \* the replica preselect_replica_id is about to bind a request to
    preselected,  \* bound by it, and not yet added: their input is processed
    inbox,      \* request_async_queue
    asked,      \* what the frontend has put there
    told,       \* the terminal messages of each request in output_async_queue
    handler,    \* _request_handler: getting, waiting in pick, or done
    poller,     \* the output handler: polling, in pick, or done
    requestStates, stageSubmitTs,   \* the keys of the two maps
    companionMap, companionsDone, pendingParents, companionOutputs,   \* the tracker
    bundled,    \* the companions whose outputs went on with each parent
    affinity,   \* _affinity of each pool
    core,       \* the replica an LLM engine core runs a request on
    coreDead,   \* LLM replicas whose engine is dead
    up, attached,   \* the hub's UP replicas; the pools' clients
    shutdown, raised, fatalError, ended,   \* how run() comes to its end
    overtaken,  \* ghost: cleaned up while their submission waited
    detached    \* ghost: cleaned up because their replica disappeared

frontVars   == <<selecting, preselected>>
taskVars    == <<handler, poller>>
stateVars   == <<requestStates, stageSubmitTs>>
trackerVars == <<companionMap, companionsDone, pendingParents, companionOutputs, bundled>>
poolVars    == <<affinity, core>>
hubVars     == <<coreDead, up, attached>>
endVars     == <<shutdown, raised, fatalError, ended>>
ghostVars   == <<overtaken, detached>>
orchVars    == <<frontVars, inbox, asked, told, taskVars, stateVars, trackerVars, poolVars, hubVars,
                 endVars, ghostVars, clientVars>>

Ask(op, r) == [op |-> op, id |-> r]
At(place)  == [at |-> place, id |-> None, last |-> {}, early |-> FALSE]
Waiting(r, last, early) == [at |-> "pick", id |-> r, last |-> last, early |-> early]

OrchInit ==
    /\ selecting = [p \in Parent |-> None] /\ preselected = {}
    /\ inbox = <<>> /\ asked = {} /\ told = [r \in Req |-> <<>>]
    /\ handler = At("get") /\ poller = At("poll")
    /\ requestStates = {} /\ stageSubmitTs = [r \in Req |-> {}]
    /\ companionMap = [p \in Parent |-> {}]
    /\ companionsDone = {} /\ pendingParents = {} /\ companionOutputs = {}
    /\ bundled = [p \in Parent |-> {}]
    /\ affinity = [s \in Stage |-> [r \in Req |-> None]] /\ core = [r \in Req |-> None]
    /\ coreDead = {} /\ up = Replica /\ attached = Replica
    /\ shutdown = FALSE /\ raised = "no" /\ fatalError = FALSE /\ ended = FALSE
    /\ overtaken = {} /\ detached = {}
    /\ ClientInit

\* StagePool.pick: sticky, then the parent's replica, then the balancer's choice.
Serviceable(s) == (IF s = 0 THEN Replica0 ELSE {D}) \cap up \cap attached

Candidates(s, r, like) ==
    IF affinity[s][r] \in Serviceable(s) THEN {affinity[s][r]}
    ELSE IF like # None /\ affinity[s][like] \in Serviceable(s) THEN {affinity[s][like]}
    ELSE Serviceable(s)

-----------------------------------------------------------------------------
(* The frontend, AsyncOmniEngine, puts messages in this order; nothing after  *)
(* a shutdown or the end is read.                                            *)

Closed == Ask("shutdown", None) \in asked \/ raised # "no"

Put(m) ==
    /\ m \notin asked /\ ~Closed
    /\ asked' = asked \cup {m} /\ inbox' = Append(inbox, m)
    /\ UNCHANGED <<selecting, told, taskVars, stateVars, trackerVars, poolVars, hubVars, endVars, ghostVars, clientVars>>

\* With several replicas of stage 0 attached, a multimodal prompt is routed on the
\* caller's thread before its input is processed; nothing is chosen when nothing
\* is serviceable.  The event loop may run between the choice and the binding.
SelectReplica(p) ==
    /\ Ask("add", p) \notin asked /\ ~Closed
    /\ selecting[p] = None /\ p \notin preselected
    /\ Cardinality(Replica0 \cap attached) > 1
    /\ \E replica \in Candidates(0, p, None) : selecting' = [selecting EXCEPT ![p] = replica]
    /\ UNCHANGED <<preselected, inbox, asked, told, taskVars, stateVars, trackerVars, poolVars, hubVars,
                   endVars, ghostVars, clientVars>>

BindSelected(p) ==
    /\ selecting[p] # None
    /\ affinity' = [affinity EXCEPT ![0][p] = selecting[p]]
    /\ selecting' = [selecting EXCEPT ![p] = None] /\ preselected' = preselected \cup {p}
    /\ UNCHANGED <<inbox, asked, told, taskVars, stateVars, trackerVars, core, hubVars, endVars, ghostVars, clientVars>>

\* process_inputs raises: the request is not added and its binding is released.
PreprocessingFails(p) ==
    /\ p \in preselected /\ preselected' = preselected \ {p}
    /\ affinity' = [affinity EXCEPT ![0][p] = None]
    /\ UNCHANGED <<selecting, inbox, asked, told, taskVars, stateVars, trackerVars, core, hubVars, endVars,
                   ghostVars, clientVars>>

AddRequest(p) ==
    /\ selecting[p] = None /\ Put(Ask("add", p))
    /\ preselected' = preselected \ {p}
AddCompanion(c) ==
    /\ Ask("add", Owner[c]) \in asked /\ Ask("abort", Owner[c]) \notin asked
    /\ Put(Ask("companion", c)) /\ UNCHANGED preselected
AbortRequest(p) ==
    p \in MayAbort /\ Ask("add", p) \in asked /\ Put(Ask("abort", p)) /\ UNCHANGED preselected
Shutdown == Put(Ask("shutdown", None)) /\ UNCHANGED preselected

-----------------------------------------------------------------------------
(* What the handlers are made of.                                            *)

Raise(e) == raised' = IF raised = "no" THEN e ELSE raised

Tell(r, m) == told' = [told EXCEPT ![r] = Append(@, m)]

InSubmission == {task.id : task \in {t \in {handler, poller} : t.at = "pick"}}

\* Mutant: only the first pool releases its bindings.
Forget_FirstPool(ids) ==
    /\ requestStates' = requestStates \ ids
    /\ affinity' = [affinity EXCEPT ![0] = [r \in Req |-> IF r \in ids THEN None ELSE affinity[0][r]]]
    /\ overtaken' = overtaken \cup (ids \cap InSubmission)

\* _cleanup_request_ids without an abort.
Forget(ids) ==
    /\ requestStates' = requestStates \ ids
    /\ affinity' = [s \in Stage |-> [r \in Req |-> IF r \in ids THEN None ELSE affinity[s][r]]]
    /\ overtaken' = overtaken \cup (ids \cap InSubmission)

\* _abort_request_ids: each pool tells the replicas the ids are bound to.
AbortIds(ids) ==
    /\ core' = [r \in Req |-> IF r \in ids /\ affinity[0][r] \in attached THEN None ELSE core[r]]
    /\ LET bound == {r \in ids : affinity[1][r] \in attached} IN
       requestPipe' = IF bound = {} THEN requestPipe ELSE Append(requestPipe, AbortMessage(bound))

WithCompanions(p) == {p} \cup companionMap[p]

\* CfgCompanionTracker.cleanup_parent
CleanupParent(p) ==
    /\ companionMap' = [companionMap EXCEPT ![p] = {}]
    /\ companionsDone' = companionsDone \ companionMap[p]
    /\ pendingParents' = pendingParents \ {p}
    /\ companionOutputs' = companionOutputs \ companionMap[p]
    /\ UNCHANGED bundled

IsCompanion(r) == \E p \in Parent : r \in companionMap[p]

-----------------------------------------------------------------------------
(* The request handler.                                                      *)

\* submit_initial on the LLM stage, a replica picked; a dead engine raises and
\* the binding is rolled back.
SubmitLLM(r, replica) ==
    IF replica \in coreDead
    THEN /\ Raise("EngineDead") /\ handler' = At("done")
         /\ affinity' = [affinity EXCEPT ![0][r] = None] /\ UNCHANGED core
    ELSE /\ affinity' = [affinity EXCEPT ![0][r] = replica]
         /\ core' = [core EXCEPT ![r] = replica]
         /\ handler' = At("get") /\ UNCHANGED raised

Admit(r, like) ==
    /\ requestStates' = requestStates \cup {r}
    /\ stageSubmitTs' = [stageSubmitTs EXCEPT ![r] = {0}]
    /\ \/ \E replica \in Candidates(0, r, like) : SubmitLLM(r, replica)
       \/ /\ Candidates(0, r, like) = {} /\ handler' = Waiting(r, {}, FALSE)
          /\ affinity' = [affinity EXCEPT ![0][r] = None] /\ UNCHANGED <<raised, core>>

Get(op, r) ==
    /\ handler.at = "get" /\ inbox # <<>> /\ Head(inbox) = Ask(op, r)
    /\ inbox' = Tail(inbox)

HandleAdd(p) ==
    /\ Get("add", p)
    /\ Admit(p, None)
    /\ UNCHANGED <<frontVars, asked, told, poller, trackerVars, hubVars, shutdown, fatalError, ended, ghostVars, clientVars>>

\* A companion whose parent is no longer active is dropped.
HandleCompanion(c) ==
    /\ Get("companion", c)
    /\ IF Owner[c] \notin requestStates
       THEN UNCHANGED <<handler, stateVars, poolVars, raised, companionMap>>
       ELSE /\ companionMap' = [companionMap EXCEPT ![Owner[c]] = @ \cup {c}]
            /\ Admit(c, Owner[c])
    /\ UNCHANGED <<frontVars, asked, told, poller, companionsDone, pendingParents, companionOutputs, bundled, hubVars,
                   shutdown, fatalError, ended, ghostVars, clientVars>>

\* The wait in pick ends: a replica is serviceable, or the deadline passes.
HandlerPicks ==
    /\ handler.at = "pick"
    /\ \/ \E replica \in Serviceable(0) : SubmitLLM(handler.id, replica)
       \/ Serviceable(0) = {} /\ Raise("RuntimeError") /\ handler' = At("done") /\ UNCHANGED poolVars
    /\ UNCHANGED <<frontVars, inbox, asked, told, poller, stateVars, trackerVars, hubVars, shutdown, fatalError, ended,
                   ghostVars, clientVars>>

\* _handle_abort: abort_parents, then the cleanup with an abort.
HandleAbort(p) ==
    /\ Get("abort", p)
    /\ CleanupParent(p) /\ AbortIds(WithCompanions(p)) /\ Forget(WithCompanions(p))
    /\ UNCHANGED <<frontVars, asked, told, taskVars, stageSubmitTs, hubVars, endVars, detached,
                   responsePipe, procVars, outputQueue, engineDead, shuttingDown>>

\* The clients are marked so that an exit is no longer taken for a death.
HandleShutdown ==
    /\ Get("shutdown", None)
    /\ shutdown' = TRUE /\ handler' = At("done")
    /\ shuttingDown' = (shuttingDown \/ D \in attached)
    /\ UNCHANGED <<frontVars, asked, told, poller, stateVars, trackerVars, poolVars, hubVars, raised, fatalError, ended,
                   ghostVars, pipeVars, procVars, outputQueue, engineDead>>

-----------------------------------------------------------------------------
(* The output handler.                                                       *)

\* EngineDeadError in the loop's own try: every request admitted to stage 0, which
\* is every request there is, is told and forgotten.
StageDies ==
    /\ fatalError' = TRUE /\ shutdown' = TRUE /\ Raise("EngineDead") /\ poller' = At("done")
    /\ told' = [r \in Req |-> IF r \in requestStates THEN Append(told[r], "fatal") ELSE told[r]]
    /\ requestStates' = {} /\ overtaken' = overtaken \cup (requestStates \cap InSubmission)

\* An exception ends the output handler.  The try encloses the early forwarding
\* of ready KV: an EngineDeadError is fatal there, and others pass unless the
\* shutdown has begun.
Throw(e, early) ==
    \/ early /\ e = "EngineDead" /\ StageDies
    \/ /\ ~(early /\ e = "EngineDead")
       /\ poller' = At("done")
       /\ IF early /\ shutdown THEN UNCHANGED raised ELSE Raise(e)
       /\ UNCHANGED <<told, requestStates, overtaken, fatalError, shutdown>>

\* submit_initial on the diffusion stage; the binding stays when it raises.
\* Companions whose completion led here are cleaned up after it.
SubmitDiffusion(p, last, early) ==
    \/ /\ engineDead /\ Throw("EngineDead", early)
       /\ affinity' = [affinity EXCEPT ![1][p] = D]
       /\ UNCHANGED <<stageSubmitTs, requestPipe>>
    \/ /\ ~engineDead
       /\ requestPipe' = Append(requestPipe, AddMessage(p))
       /\ stageSubmitTs' = [stageSubmitTs EXCEPT ![p] = @ \cup {1}]
       /\ requestStates' = requestStates \ last
       /\ affinity' = [s \in Stage |-> [r \in Req |->
                          IF r \in last THEN None ELSE IF s = 1 /\ r = p THEN D ELSE affinity[s][r]]]
       /\ overtaken' = overtaken \cup (last \cap InSubmission)
       /\ poller' = At("poll") /\ UNCHANGED <<told, raised, fatalError, shutdown>>

\* pop_companion_outputs, with what has been put there on the way.
PopOutputs(p, outputs) ==
    /\ bundled' = [bundled EXCEPT ![p] = (companionOutputs \cup outputs) \cap companionMap[p]]
    /\ companionOutputs' = (companionOutputs \cup outputs) \ companionMap[p]

\* _forward_to_next_stage of a parent, which companions that are done, finished or
\* early, may have released.  Without a client in the next pool, or when the input
\* processor raises, it fails; no valid input ends the request; a serviceable
\* replica gets it, or pick waits.
Forward(p, done, early) ==
    LET last == IF early THEN {} ELSE done IN
    \/ /\ D \in attached
       /\ Tell(p, "output") /\ CleanupParent(p) /\ Forget(WithCompanions(p) \cup last)
       /\ UNCHANGED <<poller, stageSubmitTs, raised, shutdown, fatalError, requestPipe>>
    \/ /\ companionsDone' = companionsDone \cup done
       /\ pendingParents' = pendingParents \ {p}
       /\ UNCHANGED companionMap
       /\ \/ /\ D \notin attached /\ companionOutputs' = companionOutputs \cup last
             /\ Throw("RuntimeError", early) /\ UNCHANGED <<bundled, stageSubmitTs, affinity, requestPipe>>
          \/ /\ D \in attached /\ PopOutputs(p, last)
             /\ \/ Throw("RuntimeError", early) /\ UNCHANGED <<stageSubmitTs, affinity, requestPipe>>
                \/ Candidates(1, p, None) # {} /\ SubmitDiffusion(p, last, early)
                \/ /\ Candidates(1, p, None) = {} /\ poller' = Waiting(p, last, early)
                   /\ UNCHANGED <<told, stateVars, affinity, raised, shutdown, fatalError, requestPipe, overtaken>>

\* Mutant: the parent is told, and only the request that failed is cleaned up.
StageError_KeepsParent(r) ==
    /\ Tell(IF IsCompanion(r) THEN Owner[r] ELSE r, "error")
    /\ AbortIds({r}) /\ Forget({r})
    /\ UNCHANGED <<poller, stageSubmitTs, trackerVars, raised, shutdown, fatalError>>

\* Mutant: a companion's error is its own.
StageError_OwnId(r) ==
    /\ Tell(r, "error")
    /\ AbortIds({r}) /\ Forget({r})
    /\ UNCHANGED <<poller, stageSubmitTs, trackerVars, raised, shutdown, fatalError>>

\* _handle_stage_error, of the parent when a companion fails.
StageError(r) ==
    LET p == IF IsCompanion(r) THEN Owner[r] ELSE r IN
    /\ Tell(p, "error")
    /\ IF p \in Parent
       THEN CleanupParent(p) /\ AbortIds(WithCompanions(p)) /\ Forget(WithCompanions(p))
       ELSE AbortIds({p}) /\ Forget({p}) /\ UNCHANGED trackerVars
    /\ UNCHANGED <<poller, stageSubmitTs, raised, shutdown, fatalError>>

PollerFrame == <<frontVars, inbox, asked, handler, hubVars, ended, detached>>
ClientFrame == <<responsePipe, procVars, outputQueue, engineDead, shuttingDown>>
Dropped     == <<told, poller, stateVars, trackerVars, affinity, raised, shutdown, fatalError, requestPipe, overtaken>>

\* Mutant: a companion is marked done after the test, and releases nobody.
CompanionDone_MarkedLate(c, early) ==
    LET output == IF early THEN {} ELSE {c} IN
    /\ companionsDone' = companionsDone \cup {c}
    /\ companionOutputs' = companionOutputs \cup output
    /\ Forget(output)
    /\ UNCHANGED <<told, poller, stageSubmitTs, companionMap, pendingParents, bundled, raised, shutdown, fatalError,
                   requestPipe>>

\* Mutant: a companion's output is put aside after its parent was released.
CompanionDone_StashedLate(c, early) ==
    LET p == Owner[c]
        released == p \in pendingParents /\ c \notin companionsDone /\ companionMap[p] \ companionsDone \subseteq {c}
    IN  \/ released /\ p \in requestStates /\ 1 \notin stageSubmitTs[p] /\ Forward(p, {c}, TRUE)
        \/ /\ ~(released /\ p \in requestStates /\ 1 \notin stageSubmitTs[p])
           /\ companionsDone' = companionsDone \cup {c}
           /\ companionOutputs' = companionOutputs \cup (IF early THEN {} ELSE {c})
           /\ pendingParents' = IF released THEN pendingParents \ {p} ELSE pendingParents
           /\ Forget(IF early THEN {} ELSE {c})
           /\ UNCHANGED <<told, poller, stageSubmitTs, companionMap, bundled, raised, shutdown, fatalError, requestPipe>>

\* A companion is done when it has finished, its output kept for its parent, or
\* early, when its KV is ready; the last one, the first time, releases a deferred
\* parent, if it is still there and not yet submitted.
CompanionDone(c, early) ==
    LET p == Owner[c]
        output == IF early THEN {} ELSE {c}
        released == p \in pendingParents /\ c \notin companionsDone /\ companionMap[p] \ companionsDone \subseteq {c}
    IN  \/ released /\ p \in requestStates /\ 1 \notin stageSubmitTs[p] /\ Forward(p, {c}, early)
        \/ /\ ~(released /\ p \in requestStates /\ 1 \notin stageSubmitTs[p])
           /\ companionsDone' = companionsDone \cup {c}
           /\ companionOutputs' = companionOutputs \cup output
           /\ pendingParents' = IF released THEN pendingParents \ {p} ELSE pendingParents
           /\ Forget(output)
           /\ UNCHANGED <<told, poller, stageSubmitTs, companionMap, bundled, raised, shutdown, fatalError, requestPipe>>

\* A parent's KV is ready, or it finishes on stage 0: it goes on once, when its
\* companions are done.
ParentDone(p, early) ==
    \/ 1 \in stageSubmitTs[p] /\ UNCHANGED Dropped
    \/ /\ 1 \notin stageSubmitTs[p]
       /\ IF companionMap[p] \subseteq companionsDone
          THEN Forward(p, {}, early)
          ELSE /\ pendingParents' = pendingParents \cup {p}
               /\ UNCHANGED <<told, poller, stateVars, companionMap, companionsDone, companionOutputs, bundled,
                              affinity, raised, shutdown, fatalError, requestPipe, overtaken>>

Polls == poller.at = "poll" /\ ~shutdown

\* A request of an LLM replica finishes or fails, and its output is polled; one
\* of a request that is no longer known is dropped.  One that goes on generating
\* may tell that its KV can be transferred; it does so once, and a second time
\* would change nothing.
PollLLM(r) ==
    /\ Polls /\ core[r] \in attached \ coreDead
    /\ \/ /\ r \notin requestStates
          /\ core' = [core EXCEPT ![r] = None] /\ UNCHANGED Dropped
       \/ r \in requestStates /\ StageError(r)
       \/ /\ r \in requestStates
          /\ \E early \in BOOLEAN :
                /\ IF IsCompanion(r) THEN CompanionDone(r, early) ELSE ParentDone(r, early)
                /\ core' = IF early THEN core ELSE [core EXCEPT ![r] = None]
    /\ UNCHANGED <<PollerFrame, ClientFrame>>

\* EngineDeadError of an LLM replica.
PollDead ==
    /\ Polls /\ coreDead \cap attached # {}
    /\ StageDies
    /\ UNCHANGED <<frontVars, inbox, asked, handler, stageSubmitTs, trackerVars, poolVars, hubVars, ended, detached,
                   clientVars>>

\* _handle_processed_outputs of an output of the diffusion stage, the last one.
DiffusionOutput(o) ==
    \/ o.id \notin requestStates /\ UNCHANGED <<Dropped, core>>
    \/ o.id \in requestStates /\ o.kind = "error" /\ StageError(o.id)
    \/ /\ o.id \in requestStates /\ o.kind = "result"
       /\ Tell(o.id, "output") /\ CleanupParent(o.id) /\ Forget(WithCompanions(o.id))
       /\ UNCHANGED <<poller, stageSubmitTs, core, raised, shutdown, fatalError, requestPipe>>

PollDiffusion ==
    /\ Polls /\ D \in attached
    /\ \/ \E r \in Parent, kind \in {"result", "error"} :
              PollReturns(Reply(r, kind)) /\ DiffusionOutput(Reply(r, kind))
       \/ /\ \/ PollRaises /\ Raise("EngineDead") /\ poller' = At("done")
             \/ PollTakesForShutdown /\ UNCHANGED <<raised, poller>>
          /\ UNCHANGED <<told, stateVars, trackerVars, poolVars, shutdown, fatalError, overtaken>>
    /\ UNCHANGED PollerFrame

PollerPicks ==
    /\ poller.at = "pick"
    /\ \/ Serviceable(1) # {} /\ SubmitDiffusion(poller.id, poller.last, poller.early)
       \/ /\ Serviceable(1) = {} /\ Throw("RuntimeError", poller.early)
          /\ UNCHANGED <<stageSubmitTs, affinity, requestPipe>>
    /\ UNCHANGED <<PollerFrame, ClientFrame, trackerVars, core>>

PollerEnds ==
    /\ poller.at = "poll" /\ shutdown
    /\ poller' = At("done")
    /\ UNCHANGED <<frontVars, inbox, asked, told, handler, stateVars, trackerVars, poolVars, hubVars, endVars, ghostVars, clientVars>>

-----------------------------------------------------------------------------
(* The hub, the membership watcher, the engines, and the end of run(), which  *)
(* reads nothing that could still change around it.                          *)

HubChanges(replica) ==
    /\ Distributed /\ raised = "no" /\ replica \in MayVanish \cap attached
    /\ up' = (up \ {replica}) \cup ({replica} \ up)
    /\ UNCHANGED <<frontVars, inbox, asked, told, taskVars, stateVars, trackerVars, poolVars, coreDead, attached,
                   endVars, ghostVars, clientVars>>

\* Mutant: the bindings are dropped before the requests bound there are looked up.
ReplicaLost_BindingsFirst(replica) ==
    /\ Distributed /\ ~ended /\ replica \in attached \ up
    /\ attached' = attached \ {replica}
    /\ affinity' = [s \in Stage |-> [r \in Req |->
                      IF affinity[s][r] = replica THEN None ELSE affinity[s][r]]]
    /\ shuttingDown' = (shuttingDown \/ replica = D)
    /\ UNCHANGED <<frontVars, inbox, asked, told, taskVars, stateVars, trackerVars, core, coreDead, up, endVars,
                   ghostVars, pipeVars, procVars, outputQueue, engineDead>>

\* The watcher sees that a replica disappeared, and handle_unregister: its
\* bindings are dropped, its client is detached, whoever was bound to it is
\* cleaned up, past the tracker, and told.
ReplicaLost(replica) ==
    /\ Distributed /\ ~ended /\ replica \in attached \ up
    /\ attached' = attached \ {replica}
    /\ LET s == IF replica = D THEN 1 ELSE 0
           affected == {r \in Req : affinity[s][r] = replica}
           aborted == {r \in affected : affinity[1 - s][r] \in attached}
       IN  /\ told' = [r \in Req |-> IF r \in affected THEN Append(told[r], "error") ELSE told[r]]
           /\ detached' = detached \cup affected
           /\ Forget(affected)
           /\ core' = [r \in Req |-> IF s = 1 /\ r \in aborted THEN None ELSE core[r]]
           /\ requestPipe' = IF s = 1 \/ aborted = {} THEN requestPipe
                             ELSE Append(requestPipe, AbortMessage(aborted))
    /\ shuttingDown' = (shuttingDown \/ replica = D)
    /\ UNCHANGED <<frontVars, inbox, asked, taskVars, stageSubmitTs, trackerVars, coreDead, up, endVars,
                   responsePipe, procVars, outputQueue, engineDead>>

CoreDies(replica) ==
    /\ replica \in (MayDie \cap attached) \ coreDead /\ raised = "no"
    /\ coreDead' = coreDead \cup {replica}
    /\ UNCHANGED <<frontVars, inbox, asked, told, taskVars, stateVars, trackerVars, poolVars, up, attached,
                   endVars, ghostVars, clientVars>>

Process ==
    /\ raised = "no" /\ D \in attached /\ ProcessNext
    /\ UNCHANGED <<frontVars, inbox, asked, told, taskVars, stateVars, trackerVars, poolVars, hubVars, endVars, ghostVars>>

\* run() after its gather, which returns when a task has raised or when all have
\* ended, the membership watcher, which nobody stops, among them.  After a fatal
\* error the requests still queued or tracked are told.
Finish ==
    /\ ~ended
    /\ raised # "no" \/ (handler.at = "done" /\ poller.at = "done" /\ ~Distributed)
    /\ ended' = TRUE /\ shutdown' = TRUE
    /\ handler' = At("done") /\ poller' = At("done")
    /\ IF fatalError
       THEN LET queued == {r \in Req : \E i \in DOMAIN inbox : inbox[i] = Ask("add", r)} IN
            /\ told' = [r \in Req |-> IF r \in queued \cup requestStates THEN Append(told[r], "fatal") ELSE told[r]]
            /\ inbox' = <<>> /\ requestStates' = {}
       ELSE UNCHANGED <<told, inbox, requestStates>>
    /\ shuttingDown' = (shuttingDown \/ D \in attached)
    /\ UNCHANGED <<frontVars, asked, stageSubmitTs, trackerVars, poolVars, hubVars, raised, fatalError, ghostVars,
                   pipeVars, procVars, outputQueue, engineDead>>

-----------------------------------------------------------------------------
Frontend ==
    \/ \E p \in Parent : AddRequest(p) \/ AbortRequest(p)
    \/ \E p \in Parent : SelectReplica(p) \/ BindSelected(p) \/ PreprocessingFails(p)
    \/ \E c \in Companion : AddCompanion(c)
    \/ Shutdown

Handler ==
    \/ \E p \in Parent : HandleAdd(p) \/ HandleAbort(p)
    \/ \E c \in Companion : HandleCompanion(c)
    \/ HandlerPicks \/ HandleShutdown

Poller == PollDead \/ PollDiffusion \/ PollerPicks \/ PollerEnds \/ \E r \in Req : PollLLM(r)

OrchNext ==
    \/ Frontend \/ Handler \/ Poller \/ Process \/ Finish
    \/ \E replica \in Replica : HubChanges(replica) \/ ReplicaLost(replica) \/ CoreDies(replica)

OrchSafety == OrchInit /\ [][OrchNext]_orchVars

ProcWorks == ProcReceives \/ ProcTearsDown \/ \E r \in Req : ProcResponds(r)

\* The event loop runs what can run, and the process serves.  Nobody has to ask,
\* abort, fail, vanish or return.
OrchFairness ==
    /\ WF_orchVars(Handler \/ Poller \/ Finish)
    /\ WF_orchVars(ProcWorks /\ Process)

OrchSpec == OrchSafety /\ OrchFairness

-----------------------------------------------------------------------------
Messages == [op : {"add", "companion", "abort"}, id : Req] \cup {Ask("shutdown", None)}
Tasks(places) == [at : places, id : Req \cup {None}, last : SUBSET Companion, early : BOOLEAN]
Replies == [kind : {"result", "error"}, id : Req]

\* Every variable has the shape the source gives it.
OrchTypeOK ==
    /\ selecting \in [Parent -> Replica0 \cup {None}] /\ preselected \in SUBSET Parent
    /\ inbox \in Seq(Messages) /\ asked \in SUBSET Messages
    /\ told \in [Req -> Seq({"output", "error", "fatal"})]
    /\ handler \in Tasks({"get", "pick", "done"}) /\ poller \in Tasks({"poll", "pick", "done"})
    /\ requestStates \in SUBSET Req /\ stageSubmitTs \in [Req -> SUBSET Stage]
    /\ companionMap \in [Parent -> SUBSET Companion] /\ companionsDone \in SUBSET Companion
    /\ pendingParents \in SUBSET Parent /\ companionOutputs \in SUBSET Companion
    /\ bundled \in [Parent -> SUBSET Companion]
    /\ affinity \in [Stage -> [Req -> Replica \cup {None}]] /\ core \in [Req -> Replica0 \cup {None}]
    /\ coreDead \in SUBSET Replica0 /\ up \in SUBSET Replica /\ attached \in SUBSET Replica
    /\ shutdown \in BOOLEAN /\ raised \in {"no", "EngineDead", "RuntimeError"}
    /\ fatalError \in BOOLEAN /\ ended \in BOOLEAN
    /\ overtaken \in SUBSET Req /\ detached \in SUBSET Req
    /\ requestPipe \in Seq([type : {"add", "abort"}, ids : SUBSET Req])
    /\ responsePipe \in Seq(Replies \cup {Sentinel}) /\ outputQueue \in Seq(Replies)
    /\ procTasks \in SUBSET Req /\ proc \in {"up", "failing", "dead"}
    /\ exitcode \in {"none", "failure", "any"} /\ engineDead \in BOOLEAN /\ shuttingDown \in BOOLEAN

\* A request is told its end once and is forgotten then, whichever of its stages
\* or companions fails, and whatever comes late; the two ways around it are a
\* cleanup while its submission waits and a cleanup by the membership watcher.
AnsweredOnce ==
    \A p \in Parent \ (overtaken \cup detached) :
        Len(told[p]) <= 1 /\ (told[p] # <<>> => p \notin requestStates)

\* A pool binds a request to a replica only while the request is tracked or, on
\* stage 0, on its way from the thread that preselected the replica: nothing that
\* an abort, a failure or a lost replica interrupts leaves a binding behind, but
\* for a request forgotten while its submission waited, which nobody releases.
OnItsWay(r) == r \in preselected \/ Ask("add", r) \in ToSet(inbox)

BindingsAccounted ==
    fatalError \/ \A s \in Stage, r \in Req : affinity[s][r] # None =>
        r \in requestStates \cup overtaken \/ (s = 0 /\ OnItsWay(r))

\* A deferred parent waits for a companion that is still to come: no release is
\* lost between the tracker's marks (cfg_companion_tracker.py:69-94).
DeferredIsAwaited ==
    raised # "no" \/ \A p \in pendingParents \ detached :
        /\ p \in requestStates
        /\ \E c \in companionMap[p] \ companionsDone :
              c \in detached \/ core[c] # None \/ (handler.at = "pick" /\ handler.id = c)

\* Where the work on a request can be; that a process is dead is found out by the
\* monitor or the next poll.
AtLLM(r)  == core[r] \in attached
InPick(r) == \/ handler.at = "pick" /\ handler.id = r
             \/ poller.at = "pick" /\ (poller.id = r \/ r \in poller.last)
AtDiffusion(r) ==
    /\ D \in attached /\ affinity[1][r] = D
    /\ \/ AddMessage(r) \in ToSet(requestPipe) \/ r \in procTasks \/ proc = "dead"
       \/ \E kind \in {"result", "error"} :
             Reply(r, kind) \in ToSet(responsePipe) \cup ToSet(outputQueue)

\* No request is lost on its way (_route_output, _forward_to_next_stage,
\* handle_unregister): while it is tracked, an engine of an attached replica, a
\* task in pick or its companions' deferral has it, until the output handler ends.
TrackedIsServed ==
    raised # "no" \/ poller.at = "done" \/ \A r \in requestStates :
        AtLLM(r) \/ InPick(r) \/ r \in pendingParents \/ AtDiffusion(r)

\* A parent goes on when all companions registered by then are done, and with the
\* output of every one that has finished, the last one's included.  The warning of
\* orchestrator.py:1201 is due only for companions that are still generating,
\* whose KV is ready.
ForwardBundles ==
    [][\A p \in Parent :
          (poller.id # p /\ (poller'.id = p \/ 1 \in stageSubmitTs'[p] \ stageSubmitTs[p]))
              => \A c \in companionMap[p] \ bundled'[p] : c \in companionsDone' /\ core'[c] # None]_orchVars

\* A tracked request is answered, unless it is aborted, the orchestrator ends or
\* is told to, the diffusion process is taken to be shutting down, or the watcher
\* has cleaned up one of its companions.
RequestsAreAnswered ==
    \A p \in Parent : (p \in requestStates) ~>
        \/ told[p] # <<>> \/ Ask("abort", p) \in asked
        \/ ended \/ shutdown \/ shuttingDown
        \/ \E c \in Companion : Owner[c] = p /\ c \in detached

-----------------------------------------------------------------------------
\* async_omni_engine.py:1493: shutdown() sends the message "and wait for the
\* Orchestrator thread to exit", which it does at the end of run().
ShutdownEnds == shutdown ~> ended
=============================================================================
