------------------------- MODULE StageDiffusionClient -------------------------
(* The head's end of a diffusion stage (diffusion/stage_diffusion_client.py)  *)
(* and the process behind it (diffusion/stage_diffusion_proc.py): two pipes,  *)
(* a process that may fail, be killed or send its death sentinel, and the     *)
(* monitor thread that watches it.  The orchestrator calls the operators of   *)
(* the client.                                                                *)
EXTENDS SequencesExt

CONSTANT Req     \* request ids

VARIABLES
    requestPipe,   \* add_request and abort messages on their way
    responsePipe,  \* results, errors and the sentinel on their way back
    procTasks,     \* the process's dispatch tasks
    proc,          \* "up", "failing" (fatal_event is set) or "dead"
    exitcode,      \* "failure": at most 128, "any": above or not, which shows
                   \* when a poll first looks, and nobody looks twice
    outputQueue,   \* _output_queue
    engineDead,    \* _engine_dead
    shuttingDown   \* _shutting_down

pipeVars   == <<requestPipe, responsePipe>>
procVars   == <<procTasks, proc, exitcode>>
clientVars == <<pipeVars, procVars, outputQueue, engineDead, shuttingDown>>

AddMessage(r)     == [type |-> "add", ids |-> {r}]
AbortMessage(ids) == [type |-> "abort", ids |-> ids]
Reply(r, kind)    == [kind |-> kind, id |-> r]
Sentinel          == [kind |-> "dead"]

ClientInit ==
    /\ requestPipe = <<>> /\ responsePipe = <<>> /\ outputQueue = <<>>
    /\ procTasks = {} /\ proc = "up" /\ exitcode = "none"
    /\ engineDead = FALSE /\ shuttingDown = FALSE

-----------------------------------------------------------------------------
(* StageDiffusionProc.run_loop.                                              *)

\* A frame is received: a task is made, or aborted tasks are cancelled.
ProcReceives ==
    /\ proc = "up" /\ requestPipe # <<>>
    /\ requestPipe' = Tail(requestPipe)
    /\ LET m == Head(requestPipe) IN
       procTasks' = IF m.type = "add" THEN procTasks \cup m.ids ELSE procTasks \ m.ids
    /\ UNCHANGED <<responsePipe, proc, exitcode, outputQueue, engineDead, shuttingDown>>

\* A task ends: its response is sent.
ProcResponds(r) ==
    /\ proc # "dead" /\ r \in procTasks
    /\ procTasks' = procTasks \ {r}
    /\ \E kind \in {"result", "error"} : responsePipe' = Append(responsePipe, Reply(r, kind))
    /\ UNCHANGED <<requestPipe, proc, exitcode, outputQueue, engineDead, shuttingDown>>

\* A task ends in an error with the executor dead: the loop is told to end.
ProcFails(r) ==
    /\ proc = "up" /\ r \in procTasks
    /\ procTasks' = procTasks \ {r}
    /\ responsePipe' = Append(responsePipe, Reply(r, "error"))
    /\ proc' = "failing"
    /\ UNCHANGED <<requestPipe, exitcode, outputQueue, engineDead, shuttingDown>>

\* The sentinel is the last frame; the other tasks are cancelled unanswered.
ProcTearsDown ==
    /\ proc = "failing"
    /\ responsePipe' = Append(responsePipe, Sentinel)
    /\ procTasks' = {} /\ proc' = "dead" /\ exitcode' = "failure"
    /\ UNCHANGED <<requestPipe, outputQueue, engineDead, shuttingDown>>

ProcKilled ==
    /\ proc # "dead"
    /\ proc' = "dead" /\ procTasks' = {}
    /\ exitcode' = "any"
    /\ UNCHANGED <<pipeVars, outputQueue, engineDead, shuttingDown>>

\* The monitor thread, once.
MonitorNotices ==
    /\ proc = "dead" /\ ~shuttingDown /\ ~engineDead
    /\ engineDead' = TRUE
    /\ UNCHANGED <<pipeVars, procVars, outputQueue, shuttingDown>>

-----------------------------------------------------------------------------
(* get_diffusion_output_nowait, on the orchestrator's thread.  Nothing       *)
(* follows the sentinel, so a drain takes every response there is.  A poll is *)
(* the step at which it looks at _engine_dead: its drain came before, and may *)
(* have missed what the process sent, and the monitor saw, in between.  Polls *)
(* that return None and change nothing are left out.                         *)

Outputs(pipe) == IF pipe # <<>> /\ Last(pipe) = Sentinel THEN Front(pipe) ELSE pipe
Arrived == outputQueue \o Outputs(responsePipe)

FirstToNotice == ~engineDead /\ ~shuttingDown /\ proc = "dead"

\* A drain, and an output; with the queue empty and the process not alive it may
\* be the final drain that finds it.
PollReturns(o) ==
    /\ Arrived # <<>> /\ o = Head(Arrived)
    /\ responsePipe' = <<>> /\ outputQueue' = Tail(Arrived)
    /\ \/ engineDead' = (engineDead \/ \E i \in DOMAIN responsePipe : responsePipe[i] = Sentinel)
       \/ outputQueue = <<>> /\ FirstToNotice /\ engineDead' = TRUE
    /\ UNCHANGED <<procVars, shuttingDown>>

\* EngineDeadError: dead already, without another drain, or first to notice.
PollRaises ==
    /\ outputQueue = <<>> /\ ~shuttingDown
    /\ engineDead \/ (proc = "dead" /\ Arrived = <<>>)
    /\ engineDead' = TRUE
    /\ UNCHANGED <<pipeVars, procVars, outputQueue, shuttingDown>>

\* Killed by a signal: taken for a shutdown from now on.
PollTakesForShutdown ==
    /\ FirstToNotice /\ Arrived = <<>> /\ exitcode = "any"
    /\ engineDead' = TRUE /\ shuttingDown' = TRUE
    /\ UNCHANGED <<pipeVars, procVars, outputQueue>>

ProcessNext ==
    \/ ProcReceives \/ ProcTearsDown \/ ProcKilled \/ MonitorNotices
    \/ \E r \in Req : ProcResponds(r) \/ ProcFails(r)
=============================================================================
