---------------------------- MODULE OmniCoordinator ----------------------------
(***************************************************************************)
(* The replica directory of a distributed deployment                       *)
(* (distributed/omni_coordinator): a coordinator process keeps a registry  *)
(* of stage replicas, fed by the clients the replicas run, and publishes   *)
(* the list of those that are UP to the hub client in the orchestrator's   *)
(* process, which routes requests by it.                                   *)
(*                                                                         *)
(* Nothing is acknowledged on the way.  A replica registers once, with an  *)
(* "update" event, and then sends heartbeats; sends do not block and drop  *)
(* the event when the buffer is full, and closing a socket drops what it   *)
(* has not sent.  The coordinator's two threads share the registry and the *)
(* flag _pending_broadcast.  The list is published on a PUB socket, which  *)
(* drops it when no hub is connected.                                      *)
(*                                                                         *)
(* Time is kept as what the coordinator compares it with: whether an entry *)
(* has been silent for longer than heartbeat_timeout, or than the ten      *)
(* minutes after which it is deleted.                                      *)
(***************************************************************************)
EXTENDS Naturals, Sequences

CONSTANTS Addr,         \* input addresses: each is given to one replica, once
          MaxInFlight,  \* bound: events on their way from one replica
          HighWater,    \* bound: published lists waiting for the hub
          MaxFaults     \* bound: losses and silences while a replica lives

ASSUME CoordAssumption ==
    /\ MaxInFlight \in Nat \ {0}
    /\ HighWater \in Nat \ {0}
    /\ MaxFaults \in Nat

VARIABLES
    replica,     \* [Addr -> {"new", "up", "gone"}]: the stage process
    channel,     \* [Addr -> Seq(Event)]: DEALER to ROUTER
    registry,    \* OmniCoordinator._replicas
    pending,     \* OmniCoordinator._pending_broadcast
    phase,       \* where _periodic_loop is
    subscribed,  \* is the hub's SUB socket connected?
    wire,        \* published lists on their way to the hub
    hub,         \* OmniCoordClientForHub._replica_list
    faults       \* faults so far

replicaVars == <<replica, channel>>
coordVars   == <<registry, pending, phase>>
hubVars     == <<subscribed, wire, hub>>
vars        == <<replicaVars, coordVars, hubVars, faults>>

\* An "update" event is a registration (status UP) or a good-bye (DOWN).
Event == {"register", "heartbeat", "bye"}

Status  == {"unknown", "up", "error", "down"}
Silence == {"none", "timeout", "gc"}
Entry   == [status : Status, silence : Silence]

\* The entry of an address that is not in _replicas.
Unknown == [status |-> "unknown", silence |-> "none"]

\* get_active_replicas
Active == {a \in Addr : registry[a].status = "up"}

CoordInit ==
    /\ replica = [a \in Addr |-> "new"]
    /\ channel = [a \in Addr |-> <<>>]
    /\ registry = [a \in Addr |-> Unknown]
    /\ pending = FALSE
    /\ phase = "idle"
    /\ subscribed = FALSE
    /\ wire = <<>>
    /\ hub = {}
    /\ faults = 0

Fault == faults < MaxFaults /\ faults' = faults + 1

--------------------------------------------------------------------------------
(* OmniCoordClientForStage: the client a replica runs.                     *)

\* What is left of the events on their way when the socket is closed with
\* linger 0: those that had been sent.
Sent(events) == {SubSeq(events, 1, n) : n \in 0 .. Len(events)}

\* _send_event.  The send may find the buffer full and drop the event, or fail
\* and close the socket to reconnect; the event is sent once more afterwards.
SendEvent(a, event) ==
    \/ /\ Len(channel[a]) < MaxInFlight
       /\ channel' = [channel EXCEPT ![a] = Append(@, event)]
       /\ UNCHANGED faults
    \/ /\ Fault
       /\ \E left \in Sent(channel[a]) :
             \/ channel' = [channel EXCEPT ![a] = left]
             \/ /\ Len(left) < Len(channel[a])
                /\ channel' = [channel EXCEPT ![a] = Append(left, event)]

\* The process is ready and its client is built.  An address has one process, which
\* holds when a replica is one engine process (stage_engine_core_proc.py:133).
Register(a) ==
    /\ replica[a] = "new"
    /\ replica' = [replica EXCEPT ![a] = "up"]
    /\ SendEvent(a, "register")
    /\ UNCHANGED <<coordVars, hubVars>>

\* _heartbeat_loop
Heartbeat(a) ==
    /\ replica[a] = "up"
    /\ SendEvent(a, "heartbeat")
    /\ UNCHANGED <<replica, coordVars, hubVars>>

\* close: the good-bye is sent, and then the socket is closed over it.
Close(a) ==
    /\ replica[a] = "up"
    /\ replica' = [replica EXCEPT ![a] = "gone"]
    /\ \E left \in Sent(Append(channel[a], "bye")) :
          channel' = [channel EXCEPT ![a] = left]
    /\ UNCHANGED <<coordVars, hubVars, faults>>

\* The process is killed, or dies before its client is built.
Die(a) ==
    /\ replica[a] # "gone"
    /\ replica' = [replica EXCEPT ![a] = "gone"]
    /\ \E left \in Sent(channel[a]) : channel' = [channel EXCEPT ![a] = left]
    /\ UNCHANGED <<coordVars, hubVars, faults>>

--------------------------------------------------------------------------------
(* _recv_loop and _handle_event.                                           *)

Receive(a, event) ==
    /\ channel[a] # <<>>
    /\ Head(channel[a]) = event
    /\ channel' = [channel EXCEPT ![a] = Tail(@)]
    /\ UNCHANGED <<replica, phase, hubVars, faults>>

\* Mutant: an address that is not known is added as a replica that is up.
HandleUpdate_AddsUp(a, event, status) ==
    /\ Receive(a, event)
    /\ registry' = [registry EXCEPT ![a] =
          IF @ = Unknown THEN [status |-> "up", silence |-> "none"]
                         ELSE [@ EXCEPT !.status = status]]
    /\ pending' = TRUE

\* An update adds an address that is not known, whatever its status, and only
\* sets the status of one that is: last_heartbeat stays as it was.
HandleUpdate(a, event, status) ==
    /\ Receive(a, event)
    /\ registry' = [registry EXCEPT ![a] =
          IF @ = Unknown THEN [status |-> status, silence |-> "none"]
                         ELSE [@ EXCEPT !.status = status]]
    /\ pending' = TRUE

HandleRegister(a) == HandleUpdate(a, "register", "up")

HandleBye(a) == HandleUpdate(a, "bye", "down")

\* Mutant: a heartbeat refreshes the entry and leaves its status alone.
HandleHeartbeat_NoPromotion(a) ==
    /\ Receive(a, "heartbeat")
    /\ registry' = [registry EXCEPT ![a].silence = "none"]
    /\ UNCHANGED pending

\* A heartbeat promotes an ERROR entry; one from an unknown address is ignored.
\* The queue length it carries is abstracted to whether it has changed.
HandleHeartbeat(a) ==
    /\ Receive(a, "heartbeat")
    /\ IF registry[a] = Unknown
       THEN UNCHANGED <<registry, pending>>
       ELSE \E queueChanged \in BOOLEAN :
              /\ registry' = [registry EXCEPT ![a] =
                    [status  |-> IF @.status = "error" THEN "up" ELSE @.status,
                     silence |-> "none"]]
              /\ pending' = (pending \/ queueChanged \/ registry[a].status = "error")

--------------------------------------------------------------------------------
(* _periodic_loop.                                                         *)

\* Time passes over an entry.  That a replica which is up stays silent for so
\* long is a fault of the network or of its process.
FallSilent(a) ==
    /\ registry[a] # Unknown
    /\ registry[a].silence # "gc"
    /\ registry' = [registry EXCEPT ![a].silence =
                      IF @ = "none" THEN "timeout" ELSE "gc"]
    /\ IF replica[a] = "up" THEN Fault ELSE UNCHANGED faults
    /\ UNCHANGED <<replicaVars, pending, phase, hubVars>>

\* _check_heartbeat_timeouts for one entry
Checked(entry) ==
    CASE entry.status = "up" /\ entry.silence # "none" -> [entry EXCEPT !.status = "error"]
      [] entry.status \in {"down", "error"} /\ entry.silence = "gc" -> Unknown
      [] OTHER -> entry

\* Mutant: the check schedules a broadcast only for what it has marked, and no
\* keepalive follows it.
CheckHeartbeats_NoKeepalive ==
    /\ phase = "idle"
    /\ registry' = [a \in Addr |-> Checked(registry[a])]
    /\ pending' = (pending \/ \E a \in Addr : Checked(registry[a]).status # registry[a].status)
    /\ phase' = IF pending' THEN "flush" ELSE "idle"
    /\ UNCHANGED <<replicaVars, hubVars, faults>>

\* The check, and the keepalive broadcast it schedules.
CheckHeartbeats ==
    /\ phase = "idle"
    /\ registry' = [a \in Addr |-> Checked(registry[a])]
    /\ pending' = TRUE
    /\ phase' = "flush"
    /\ UNCHANGED <<replicaVars, hubVars, faults>>

\* Mutant: the loop publishes on every round.
FlushDue_Always ==
    /\ phase = "idle"
    /\ phase' = "flush"
    /\ UNCHANGED <<replicaVars, registry, pending, hubVars, faults>>

\* A round between two checks publishes if a broadcast is pending.
FlushDue ==
    /\ phase = "idle"
    /\ pending
    /\ phase' = "flush"
    /\ UNCHANGED <<replicaVars, registry, pending, hubVars, faults>>

\* publish_replica_list_update.  A PUB socket drops what it cannot deliver, and
\* reports success.
Publish ==
    /\ phase = "flush"
    /\ phase' = "sent"
    /\ wire' = IF subscribed /\ Len(wire) < HighWater THEN Append(wire, Active) ELSE wire
    /\ UNCHANGED <<replicaVars, registry, pending, subscribed, hub, faults>>

\* The send raises: the broadcast stays pending.
PublishFails ==
    /\ phase = "flush"
    /\ phase' = "idle"
    /\ Fault
    /\ UNCHANGED <<replicaVars, registry, pending, hubVars>>

\* The flag is cleared after the send, and with it every broadcast requested
\* since the list was taken.
ClearPending ==
    /\ phase = "sent"
    /\ phase' = "idle"
    /\ pending' = FALSE
    /\ UNCHANGED <<replicaVars, registry, hubVars, faults>>

--------------------------------------------------------------------------------
(* OmniCoordClientForHub._recv_loop.                                       *)

HubConnects ==
    /\ ~subscribed
    /\ subscribed' = TRUE
    /\ UNCHANGED <<replicaVars, coordVars, wire, hub, faults>>

HubReceives ==
    /\ wire # <<>>
    /\ hub' = Head(wire)
    /\ wire' = Tail(wire)
    /\ UNCHANGED <<replicaVars, coordVars, subscribed, faults>>

\* recv fails: the socket is closed and the last list is kept.
HubDisconnects ==
    /\ subscribed
    /\ Fault
    /\ subscribed' = FALSE
    /\ wire' = <<>>
    /\ UNCHANGED <<replicaVars, coordVars, hub>>

--------------------------------------------------------------------------------

Client(a)   == Register(a) \/ Heartbeat(a) \/ Close(a) \/ Die(a)
Handle(a)   == HandleRegister(a) \/ HandleBye(a) \/ HandleHeartbeat(a)
Periodic    == CheckHeartbeats \/ FlushDue \/ Publish \/ PublishFails \/ ClearPending
Hub         == HubConnects \/ HubReceives \/ HubDisconnects

CoordNext ==
    \/ \E a \in Addr : Client(a) \/ Handle(a) \/ FallSilent(a)
    \/ Periodic
    \/ Hub

CoordSafety == CoordInit /\ [][CoordNext]_vars

\* The client's heartbeat thread, the coordinator's two threads and the hub's
\* thread keep running; the check comes round by the clock, whatever else the
\* loop finds to do (strong fairness), and a replica that is gone grows silent.
CoordFairness ==
    /\ \A a \in Addr : /\ WF_vars(Heartbeat(a))
                       /\ WF_vars(Handle(a))
                       /\ WF_vars(replica[a] = "gone" /\ FallSilent(a))
    /\ SF_vars(CheckHeartbeats)
    /\ WF_vars(Publish)
    /\ WF_vars(ClearPending)
    /\ WF_vars(HubConnects)
    /\ WF_vars(HubReceives)

CoordSpec == CoordSafety /\ CoordFairness

--------------------------------------------------------------------------------

\* The types, and what the coordinator's threads rely on without a lock: a
\* broadcast that is being flushed is still pending, so that a send that fails
\* is tried again, and only replicas that have started are ever listed.
CoordTypeOK ==
    /\ replica \in [Addr -> {"new", "up", "gone"}]
    /\ channel \in [Addr -> Seq(Event)]
    /\ registry \in [Addr -> Entry]
    /\ pending \in BOOLEAN
    /\ phase \in {"idle", "flush", "sent"}
    /\ subscribed \in BOOLEAN
    /\ wire \in Seq(SUBSET Addr)
    /\ hub \in SUBSET Addr
    /\ faults \in 0 .. MaxFaults
    /\ phase # "idle" => pending
    /\ \A a \in Addr : replica[a] = "new" =>
          channel[a] = <<>> /\ registry[a] = Unknown /\ a \notin hub

\* The directory is done with a: it said good-bye, or its entry was deleted and
\* no registration will make another.
Withdrawn(a) ==
    \/ registry[a].status = "down"
    \/ /\ registry[a] = Unknown /\ replica[a] # "new"
       /\ \A k \in 1 .. Len(channel[a]) : channel[a][k] # "register"

\* An address whose entry was taken back, by its good-bye or by the deletion of
\* an entry that had been silent for ten minutes (omni_coordinator.py), is never
\* listed again: no event on its way, and no event sent later, brings it back,
\* so that an orchestrator may forget what it knew of it.
NeverRelisted ==
    [][\A a \in Addr :
          /\ Withdrawn(a) => Withdrawn(a)'
          /\ registry[a] # Unknown /\ registry'[a] = Unknown => Withdrawn(a)'
          /\ Withdrawn(a) => a \notin Active]_vars

\* Whatever was dropped on the way, and although a broadcast requested between
\* the taking of a list and the clearing of the flag is forgotten: once the set
\* of active replicas stays what it is, the hub comes to hold it and keeps it
\* (_periodic_loop's keepalive, "next update will catch up").
HubCatchesUp ==
    \A S \in SUBSET Addr : <>[](Active = S) => <>[](hub = S)

\* The list comes to tell who is alive.  A replica that stays up, and that the
\* coordinator knows, is listed for good, also when it was silent for too long
\* and was taken off the list; one that is gone is taken off for good, also
\* when its good-bye was lost.
ListTellsWhoLives ==
    \A a \in Addr :
       /\ <>[](replica[a] = "up" /\ registry[a] # Unknown) => <>[](a \in hub)
       /\ <>[](replica[a] = "gone") => <>[](a \notin hub)

================================================================================
