---------------------------- MODULE DisaggRollout ----------------------------
(* The disaggregated path: an encode worker, with model states of its own,   *)
(* decides resets and packs a carrier; the denoise worker is the rollout     *)
(* worker of ARRollout, whose forward starts from the carrier instead of     *)
(* encoding.  Between the two a request can be lost: its encode stage raises *)
(* half-way, or its client aborts it.                                        *)
EXTENDS ARRollout

CONSTANT MaxRequests   \* bound: requests a client makes

ASSUME RequestsAssumption == MaxRequests \in Nat

VARIABLES
    encStates,  \* keys of the encode worker's _states, least recent first
    enc,        \* the encode worker's DreamZeroState of each session
    queue,      \* payloads on their way to the denoise worker
    incoming,   \* the payload of the denoise worker's forward
    requests,   \* requests made
    lost        \* history: sessions of which a request was lost

encVars == <<encStates, enc, requests>>
disaggVars == <<rolloutVars, encVars, queue, incoming, lost>>

NoPayload == [sess |-> DefaultSession, carrier |-> FreshModel, reason |-> "none"]

DisaggInit ==
    /\ RolloutInit
    /\ encStates = <<DefaultSession>>
    /\ enc = [s \in Session |-> FreshModel]
    /\ queue = <<>> /\ incoming = NoPayload
    /\ requests = 0 /\ lost = {}

\* The encode worker has no KV: only its model state is reset and used.
UseEncState(s, model) ==
    LET used == MoveToEnd(encStates, s)
    IN  /\ encStates' = Kept(used)
        /\ enc' = [t \in Session |-> IF t = s THEN model
                                     ELSE IF t \in Evicted(used) THEN FreshModel ELSE enc[t]]

\* The encode stage of a request.  Nothing here advances current_start_frame.
\* It can raise before the reset decision or past it: then the decision is gone
\* with the carrier.
EncodeStage(s, prompt, explicit, clip) ==
    LET reason == ResetReason(enc[s], prompt, explicit)
        model == [ResetModel(enc[s], reason) EXCEPT !.lang = prompt]
        encoded == [model EXCEPT !.clip = IF model.csf = 0 THEN clip ELSE @]
    IN  /\ requests < MaxRequests
        /\ requests' = requests + 1
        /\ \/ /\ UseEncState(s, encoded)
              /\ queue' = Append(queue, [sess |-> s, carrier |-> encoded, reason |-> reason])
              /\ UNCHANGED lost
           \/ /\ UseEncState(s, model)
              /\ lost' = lost \cup {s}
              /\ UNCHANGED queue
           \/ /\ UseEncState(s, enc[s])
              /\ UNCHANGED <<queue, lost>>
        /\ UNCHANGED <<rolloutVars, incoming>>

\* A request aborted after its encode stage is not forwarded.
AbortBetween(i) ==
    /\ lost' = lost \cup {queue[i].sess}
    /\ queue' = SubSeq(queue, 1, i - 1) \o SubSeq(queue, i + 1, Len(queue))
    /\ UNCHANGED <<rolloutVars, encVars, incoming>>

Receive ==
    /\ queue # <<>>
    /\ Attach(queue[1].sess)
    /\ incoming' = queue[1]
    /\ queue' = Tail(queue)
    /\ UNCHANGED <<encVars, lost>>

\* Mutant: the reset the encode worker decided is not applied.
Realign_NoReset ==
    LET s == run.sess
    IN  /\ run.phase = "attached"
        /\ UseState(s, [dz[s] EXCEPT !.csf = incoming.carrier.csf, !.clip = incoming.carrier.clip])
        /\ StartForward(s, incoming.carrier)
        /\ UNCHANGED <<sessions, kv, free, cross, encVars, queue, incoming, lost>>

\* diffuse: the carrier's reset at frame 0, then its frame and image.
Realign ==
    LET s == run.sess
        carrier == incoming.carrier
        reason == IF carrier.csf = 0 THEN incoming.reason ELSE "none"
    IN  /\ run.phase = "attached"
        /\ UseState(s, [ResetModel(dz[s], reason) EXCEPT !.csf = carrier.csf, !.clip = carrier.clip])
        /\ ResetKv(s, reason)
        /\ StartForward(s, carrier)
        /\ UNCHANGED <<sessions, cross, encVars, queue, incoming, lost>>

DenoiseStep == Step /\ UNCHANGED <<encVars, queue, incoming, lost>>

DisaggNext ==
    \/ \E s \in Session, prompt \in Prompt, explicit \in BOOLEAN, clip \in Clip :
          EncodeStage(s, prompt, explicit, clip)
    \/ \E i \in DOMAIN queue : AbortBetween(i)
    \/ Receive
    \/ Realign
    \/ DenoiseStep

DisaggSpec == DisaggInit /\ [][DisaggNext]_disaggVars

-----------------------------------------------------------------------------
\* The two workers agree on the prompt of a session as long as none of its
\* requests was lost between them, whatever each of them evicts or tears down.
TextStaleOnlyAfterLoss == run.sess \notin lost => OwnTextIsCurrent
=============================================================================
