------------------------ MODULE OmniCoordinator_proofs ------------------------
(* Proofs about OmniCoordinator, for any addresses and bounds: its types,    *)
(* that what is being flushed is still pending, that only replicas that have *)
(* started are listed, and that one taken off the directory stays off it.    *)
EXTENDS OmniCoordinator, SequenceTheorems, TLAPS

\* Nor is a replica that has not started in a list that is on its way.
OnlyStartedOnWire ==
    \A a \in Addr : replica[a] = "new" =>
        \A k \in 1 .. Len(wire) : a \notin wire[k]

CoordInv == CoordTypeOK /\ OnlyStartedOnWire

-----------------------------------------------------------------------------
LEMMA AppendSeq ==
    ASSUME NEW S, NEW s \in Seq(S), NEW e \in S
    PROVE  /\ Append(s, e) \in Seq(S) /\ Len(Append(s, e)) = Len(s) + 1
           /\ \A k \in 1 .. Len(s) : Append(s, e)[k] = s[k]
           /\ Append(s, e)[Len(s) + 1] = e
BY AppendProperties

LEMMA TailSeq ==
    ASSUME NEW S, NEW s \in Seq(S), s # <<>>
    PROVE  /\ Head(s) \in S /\ Head(s) = s[1] /\ Tail(s) \in Seq(S)
           /\ Len(s) \in Nat /\ Len(s) >= 1 /\ Len(Tail(s)) = Len(s) - 1
           /\ \A k \in 1 .. Len(Tail(s)) : Tail(s)[k] = s[k + 1]
BY HeadTailProperties, EmptySeq

LEMMA SentSeq ==
    ASSUME NEW S, NEW s \in Seq(S), NEW left \in Sent(s)
    PROVE  left \in Seq(S)
<1>1. PICK n \in 0 .. Len(s) : left = SubSeq(s, 1, n)
      BY DEF Sent
<1> QED BY <1>1, SubSeqProperties

-----------------------------------------------------------------------------
LEMMA CoordInitInv == CoordInit => CoordInv
<1> SUFFICES ASSUME CoordInit PROVE CoordInv
      OBVIOUS
<1>1. \A S : <<>> \in Seq(S)
      BY EmptySeq
<1>2. Unknown \in Entry
      BY DEF Unknown, Entry, Status, Silence
<1>3. OnlyStartedOnWire
      BY DEF CoordInit, OnlyStartedOnWire
<1>4. replica \in [Addr -> {"new", "up", "gone"}] /\ registry \in [Addr -> Entry]
      /\ channel \in [Addr -> Seq(Event)] /\ wire \in Seq(SUBSET Addr)
      BY <1>1, <1>2 DEF CoordInit
<1>5. \A a \in Addr : channel[a] = <<>> /\ registry[a] = Unknown /\ a \notin hub
      BY DEF CoordInit
<1>6. phase = "idle" /\ hub \in SUBSET Addr /\ pending \in BOOLEAN /\ subscribed \in BOOLEAN
      BY DEF CoordInit
<1>7. faults \in 0 .. MaxFaults
      BY CoordAssumption DEF CoordInit
<1> QED BY <1>3, <1>4, <1>5, <1>6, <1>7 DEF CoordInv, CoordTypeOK

\* A client adds events to its channel, and is not new afterwards.
LEMMA ClientInv ==
    ASSUME CoordInv, NEW a \in Addr, Client(a)
    PROVE  CoordInv'
<1>1. "register" \in Event /\ "heartbeat" \in Event /\ "bye" \in Event
      BY DEF Event
<1>2. channel[a] \in Seq(Event)
      BY DEF CoordInv, CoordTypeOK
<1>3. ASSUME NEW e \in Event, SendEvent(a, e)
      PROVE  /\ channel' \in [Addr -> Seq(Event)] /\ faults' \in 0 .. MaxFaults
             /\ \A d \in Addr \ {a} : channel'[d] = channel[d]
      <2>1. Append(channel[a], e) \in Seq(Event)
            BY <1>2, AppendSeq
      <2>2. \A left \in Sent(channel[a]) : left \in Seq(Event) /\ Append(left, e) \in Seq(Event)
            BY <1>2, SentSeq, AppendSeq
      <2>3. \E s \in Seq(Event) : channel' = [channel EXCEPT ![a] = s]
            BY <1>3, <2>1, <2>2 DEF SendEvent
      <2>4. faults' \in 0 .. MaxFaults
            BY <1>3, CoordAssumption DEF SendEvent, Fault, CoordInv, CoordTypeOK
      <2> QED BY <2>3, <2>4 DEF CoordInv, CoordTypeOK
<1>4. ASSUME NEW s \in Seq(Event), NEW left \in Sent(s), channel' = [channel EXCEPT ![a] = left]
      PROVE  /\ channel' \in [Addr -> Seq(Event)]
             /\ \A d \in Addr \ {a} : channel'[d] = channel[d]
      BY <1>4, SentSeq DEF CoordInv, CoordTypeOK
<1>5. /\ channel' \in [Addr -> Seq(Event)] /\ faults' \in 0 .. MaxFaults
      /\ \A d \in Addr \ {a} : channel'[d] = channel[d] /\ replica'[d] = replica[d]
      /\ replica' \in [Addr -> {"new", "up", "gone"}] /\ replica'[a] # "new"
      /\ UNCHANGED <<registry, pending, phase, subscribed, wire, hub>>
      <2>1. CASE Register(a)
            BY <2>1, <1>1, <1>3 DEF Register, coordVars, hubVars, CoordInv, CoordTypeOK
      <2>2. CASE Heartbeat(a)
            BY <2>2, <1>1, <1>3 DEF Heartbeat, coordVars, hubVars, CoordInv, CoordTypeOK
      <2>3. CASE Close(a)
            <3>1. Append(channel[a], "bye") \in Seq(Event)
                  BY <1>1, <1>2, AppendSeq
            <3> QED BY <2>3, <3>1, <1>4 DEF Close, coordVars, hubVars, CoordInv, CoordTypeOK
      <2>4. CASE Die(a)
            BY <2>4, <1>2, <1>4 DEF Die, coordVars, hubVars, CoordInv, CoordTypeOK
      <2> QED BY <2>1, <2>2, <2>3, <2>4 DEF Client
<1>6. CoordTypeOK'
      BY <1>5 DEF CoordInv, CoordTypeOK
<1>7. OnlyStartedOnWire'
      BY <1>5 DEF CoordInv, OnlyStartedOnWire
<1> QED BY <1>6, <1>7 DEF CoordInv

\* What is handled came from a replica that has started.
LEMMA HandleInv ==
    ASSUME CoordInv, NEW a \in Addr, Handle(a)
    PROVE  CoordInv'
<1>1. channel[a] # <<>> /\ channel' = [channel EXCEPT ![a] = Tail(@)]
      /\ UNCHANGED <<replica, phase, subscribed, wire, hub, faults>>
      BY DEF Handle, HandleRegister, HandleBye, HandleUpdate, HandleHeartbeat, Receive, hubVars
<1>2. /\ channel' \in [Addr -> Seq(Event)] /\ replica[a] # "new"
      /\ \A d \in Addr \ {a} : channel'[d] = channel[d]
      BY <1>1, TailSeq DEF CoordInv, CoordTypeOK
<1>3. /\ registry' \in [Addr -> Entry] /\ pending' \in BOOLEAN /\ (pending => pending')
      /\ \A d \in Addr \ {a} : registry'[d] = registry[d]
      <2>1. ASSUME NEW s \in {"up", "down"}, NEW e, HandleUpdate(a, e, s)
            PROVE  /\ registry' \in [Addr -> Entry] /\ pending' \in BOOLEAN /\ (pending => pending')
                   /\ \A d \in Addr \ {a} : registry'[d] = registry[d]
            <3>1. [status |-> s, silence |-> "none"] \in Entry
                  /\ \A entry \in Entry : [entry EXCEPT !.status = s] \in Entry
                  BY DEF Entry, Status, Silence
            <3>2. \E entry \in Entry : registry' = [registry EXCEPT ![a] = entry]
                  BY <2>1, <3>1 DEF HandleUpdate, CoordInv, CoordTypeOK
            <3> QED BY <2>1, <3>2 DEF HandleUpdate, CoordInv, CoordTypeOK
      <2>2. CASE HandleHeartbeat(a)
            <3>1. \A st \in Status : [status |-> st, silence |-> "none"] \in Entry
                  BY DEF Entry, Silence
            <3>2. \A entry \in Entry : (IF entry.status = "error" THEN "up" ELSE entry.status) \in Status
                  BY DEF Entry, Status
            <3>3. \/ UNCHANGED <<registry, pending>>
                  \/ /\ \E entry \in Entry : registry' = [registry EXCEPT ![a] = entry]
                     /\ \E q \in BOOLEAN : pending' = (pending \/ q \/ registry[a].status = "error")
                  BY <2>2, <3>1, <3>2 DEF HandleHeartbeat, CoordInv, CoordTypeOK
            <3>4. pending \in BOOLEAN /\ registry \in [Addr -> Entry]
                  BY DEF CoordInv, CoordTypeOK
            <3>5. pending' \in BOOLEAN /\ (pending => pending')
                  BY <3>3, <3>4, Zenon
            <3> QED BY <3>3, <3>4, <3>5
      <2> QED BY <2>1, <2>2 DEF Handle, HandleRegister, HandleBye
<1>4. CoordTypeOK'
      BY <1>1, <1>2, <1>3 DEF CoordInv, CoordTypeOK
<1>5. OnlyStartedOnWire'
      BY <1>1 DEF CoordInv, OnlyStartedOnWire
<1> QED BY <1>4, <1>5 DEF CoordInv

LEMMA FallSilentInv ==
    ASSUME CoordInv, NEW a \in Addr, FallSilent(a)
    PROVE  CoordInv'
<1>1. registry' \in [Addr -> Entry] /\ registry[a] # Unknown
      /\ \A d \in Addr \ {a} : registry'[d] = registry[d]
      BY DEF FallSilent, CoordInv, CoordTypeOK, Entry, Silence
<1>2. faults' \in 0 .. MaxFaults
      /\ UNCHANGED <<replica, channel, pending, phase, subscribed, wire, hub>>
      BY CoordAssumption DEF FallSilent, Fault, replicaVars, hubVars, CoordInv, CoordTypeOK
<1>3. CoordTypeOK'
      BY <1>1, <1>2 DEF CoordInv, CoordTypeOK
<1>4. OnlyStartedOnWire'
      BY <1>2 DEF CoordInv, OnlyStartedOnWire
<1> QED BY <1>3, <1>4 DEF CoordInv

\* The check knows no address it did not know; a list is taken from the registry.
LEMMA PeriodicInv ==
    ASSUME CoordInv, Periodic
    PROVE  CoordInv'
<1>1. UNCHANGED <<replica, channel, subscribed, hub>>
      BY DEF Periodic, CheckHeartbeats, FlushDue, Publish, PublishFails, ClearPending,
             replicaVars, hubVars
<1>2. CASE CheckHeartbeats
      <2>1. \A d \in Addr : /\ Checked(registry[d]) \in Entry
                            /\ registry[d] = Unknown => Checked(registry[d]) = Unknown
            BY DEF Checked, Unknown, CoordInv, CoordTypeOK, Entry, Status, Silence
      <2>2. registry' \in [Addr -> Entry]
            /\ \A d \in Addr : registry[d] = Unknown => registry'[d] = Unknown
            BY <1>2, <2>1 DEF CheckHeartbeats
      <2>3. CoordTypeOK'
            BY <1>1, <1>2, <2>2 DEF CheckHeartbeats, hubVars, CoordInv, CoordTypeOK
      <2>4. OnlyStartedOnWire'
            BY <1>1, <1>2 DEF CheckHeartbeats, hubVars, CoordInv, OnlyStartedOnWire
      <2> QED BY <2>3, <2>4 DEF CoordInv
<1>3. CASE Publish
      <2>1. /\ Active \in SUBSET Addr /\ wire \in Seq(SUBSET Addr)
            /\ \A d \in Addr : replica[d] = "new" => d \notin Active
            BY DEF Active, Unknown, CoordInv, CoordTypeOK
      <2>2. /\ Append(wire, Active) \in Seq(SUBSET Addr)
            /\ \A k \in 1 .. Len(Append(wire, Active)) :
                  Append(wire, Active)[k] = Active
                  \/ (k \in 1 .. Len(wire) /\ Append(wire, Active)[k] = wire[k])
            BY <2>1, AppendSeq
      <2>3. CoordTypeOK'
            BY <1>1, <1>3, <2>2 DEF Publish, CoordInv, CoordTypeOK
      <2>4. OnlyStartedOnWire'
            BY <1>1, <1>3, <2>1, <2>2 DEF Publish, CoordInv, OnlyStartedOnWire
      <2> QED BY <2>3, <2>4 DEF CoordInv
<1>4. CASE FlushDue \/ PublishFails \/ ClearPending
      <2>1. faults' \in 0 .. MaxFaults
            BY <1>4, CoordAssumption
               DEF FlushDue, PublishFails, ClearPending, Fault, CoordInv, CoordTypeOK
      <2>2. pending' \in BOOLEAN /\ phase' \in {"idle", "flush", "sent"} /\ (phase' # "idle" => pending')
            BY <1>4 DEF FlushDue, PublishFails, ClearPending, CoordInv, CoordTypeOK
      <2>3. registry' = registry /\ wire' = wire
            BY <1>4 DEF FlushDue, PublishFails, ClearPending, hubVars
      <2>4. CoordTypeOK'
            BY <1>1, <2>1, <2>2, <2>3 DEF CoordInv, CoordTypeOK
      <2>5. OnlyStartedOnWire'
            BY <1>1, <2>3 DEF CoordInv, OnlyStartedOnWire
      <2> QED BY <2>4, <2>5 DEF CoordInv
<1> QED BY <1>2, <1>3, <1>4 DEF Periodic

LEMMA HubInv ==
    ASSUME CoordInv, Hub
    PROVE  CoordInv'
<1>1. UNCHANGED <<replica, channel, registry, pending, phase>>
      BY DEF Hub, HubConnects, HubReceives, HubDisconnects, replicaVars, coordVars
<1>2. CASE HubReceives
      <2>1. /\ Head(wire) \in SUBSET Addr /\ Head(wire) = wire[1] /\ 1 \in 1 .. Len(wire)
            /\ Tail(wire) \in Seq(SUBSET Addr)
            /\ \A k \in 1 .. Len(Tail(wire)) : k + 1 \in 1 .. Len(wire) /\ Tail(wire)[k] = wire[k + 1]
            BY <1>2, TailSeq DEF HubReceives, CoordInv, CoordTypeOK
      <2>2. CoordTypeOK'
            BY <1>1, <1>2, <2>1 DEF HubReceives, CoordInv, CoordTypeOK, OnlyStartedOnWire
      <2>3. OnlyStartedOnWire'
            BY <1>1, <1>2, <2>1 DEF HubReceives, CoordInv, OnlyStartedOnWire
      <2> QED BY <2>2, <2>3 DEF CoordInv
<1>3. CASE HubConnects \/ HubDisconnects
      <2>1. <<>> \in Seq(SUBSET Addr) /\ Len(<<>>) = 0
            BY EmptySeq
      <2>2. faults' \in 0 .. MaxFaults
            BY <1>3, CoordAssumption
               DEF HubConnects, HubDisconnects, Fault, CoordInv, CoordTypeOK
      <2>3. hub' = hub /\ subscribed' \in BOOLEAN /\ (wire' = wire \/ wire' = <<>>)
            BY <1>3 DEF HubConnects, HubDisconnects
      <2>4. CoordTypeOK'
            BY <1>1, <2>1, <2>2, <2>3 DEF CoordInv, CoordTypeOK
      <2>5. OnlyStartedOnWire'
            BY <1>1, <2>1, <2>3 DEF CoordInv, OnlyStartedOnWire
      <2> QED BY <2>4, <2>5 DEF CoordInv
<1> QED BY <1>2, <1>3 DEF Hub

\* The inductive invariant of the directory.
LEMMA CoordStepInv == CoordInv /\ [CoordNext]_vars => CoordInv'
<1> SUFFICES ASSUME CoordInv, [CoordNext]_vars PROVE CoordInv'
      OBVIOUS
<1>1. CASE UNCHANGED vars
      BY <1>1 DEF vars, replicaVars, coordVars, hubVars, CoordInv, CoordTypeOK, OnlyStartedOnWire
<1> QED BY <1>1, ClientInv, HandleInv, FallSilentInv, PeriodicInv, HubInv DEF CoordNext

\* The types; a broadcast that is being flushed is still pending, so that one
\* whose send fails is tried again; and no list names a replica that has not
\* started (_periodic_loop, _handle_event).
THEOREM DirectoryTypes == CoordSafety => []CoordTypeOK
<1>1. CoordInv => CoordTypeOK
      BY DEF CoordInv
<1> QED BY <1>1, CoordInitInv, CoordStepInv, PTL DEF CoordSafety


-----------------------------------------------------------------------------
(* An address lives once.                                                     *)

\* A replica registers with its first event and says good-bye with its last:
\* what follows a good-bye in the registry is its deletion.
Courses ==
    \A a \in Addr :
       /\ \A k \in 1 .. Len(channel[a]) :
             /\ channel[a][k] = "register" => k = 1 /\ registry[a] = Unknown
             /\ channel[a][k] = "bye" => k = Len(channel[a]) /\ replica[a] = "gone"
       /\ registry[a].status = "down" => channel[a] = <<>> /\ replica[a] = "gone"

LEMMA CoursesInit == CoordInit => Courses
<1>1. CoordInit => \A a \in Addr : channel[a] = <<>> /\ registry[a].status # "down"
      <2>1. Unknown.status # "down"
            BY DEF Unknown
      <2> QED BY <2>1 DEF CoordInit
<1>2. Len(<<>>) = 0 /\ \A k : ~(k \in 1 .. 0)
      BY EmptySeq
<1> QED BY <1>1, <1>2 DEF Courses

\* What a client's step leaves in its channel: events that were there, in their
\* places, and after them at most the one it sends.
LEMMA ClientSends ==
    ASSUME CoordInv, NEW a \in Addr, Client(a)
    PROVE  /\ channel'[a] \in Seq(Event)
           /\ replica[a] # "gone" /\ replica'[a] # "new"
           /\ \A d \in Addr \ {a} : channel'[d] = channel[d] /\ replica'[d] = replica[d]
           /\ registry' = registry
           /\ \A k \in 1 .. Len(channel'[a]) :
                 \/ k \in 1 .. Len(channel[a]) /\ channel'[a][k] = channel[a][k]
                 \/ channel'[a][k] = "heartbeat"
                 \/ channel'[a][k] = "register" /\ replica[a] = "new" /\ k = 1
                 \/ channel'[a][k] = "bye" /\ replica'[a] = "gone" /\ k = Len(channel'[a])
<1> DEFINE ch == channel[a]
           old(s) == \A k \in 1 .. Len(s) : k \in 1 .. Len(ch) /\ s[k] = ch[k]
           grown(s, e) == /\ s \in Seq(Event) /\ Len(s) \in Nat /\ Len(s) <= Len(ch) + 1
                          /\ \A k \in 1 .. Len(s) : \/ k \in 1 .. Len(ch) /\ s[k] = ch[k]
                                                    \/ k = Len(s) /\ s[k] = e
<1>1. /\ ch \in Seq(Event) /\ Len(ch) \in Nat
      /\ channel \in [Addr -> Seq(Event)] /\ replica \in [Addr -> {"new", "up", "gone"}]
      /\ replica[a] = "new" => Len(ch) = 0
      BY EmptySeq DEF CoordInv, CoordTypeOK
<1>2. "register" \in Event /\ "heartbeat" \in Event /\ "bye" \in Event
      BY DEF Event
<1> HIDE DEF ch
<1>3. ASSUME NEW s \in Seq(Event), NEW left \in Sent(s)
      PROVE  /\ left \in Seq(Event) /\ Len(left) \in Nat /\ Len(left) <= Len(s)
             /\ \A k \in 1 .. Len(left) : left[k] = s[k]
      <2>1. PICK n \in 0 .. Len(s) : left = SubSeq(s, 1, n)
            BY <1>3 DEF Sent
      <2>2. /\ left \in Seq(Event)
            /\ Len(left) = IF 1 <= n THEN n - 1 + 1 ELSE 0
            /\ \A k \in 1 .. n - 1 + 1 : left[k] = s[1 + k - 1]
            BY <2>1, SubSeqProperties
      <2>3. n \in Nat /\ Len(s) \in Nat /\ n <= Len(s)
            BY <2>1
      <2> QED BY <2>2, <2>3
<1>4. ASSUME NEW e \in Event, NEW left \in Sent(ch)
      PROVE  grown(left, e) /\ grown(Append(left, e), e)
      <2>1. /\ left \in Seq(Event) /\ Len(left) \in Nat /\ Len(left) <= Len(ch)
            /\ \A k \in 1 .. Len(left) : left[k] = ch[k]
            BY <1>1, <1>3, <1>4
      <2>2. /\ Append(left, e) \in Seq(Event) /\ Len(Append(left, e)) = Len(left) + 1
            /\ \A k \in 1 .. Len(left) : Append(left, e)[k] = left[k]
            /\ Append(left, e)[Len(left) + 1] = e
            BY <2>1, AppendSeq
      <2>3. \A k \in 1 .. Len(left) : k \in 1 .. Len(ch)
            BY <1>1, <2>1
      <2>4. \A k \in 1 .. Len(left) + 1 : k \in 1 .. Len(left) \/ k = Len(left) + 1
            BY <2>1
      <2>5. grown(left, e)
            BY <1>1, <2>1, <2>3
      <2>6. grown(Append(left, e), e)
            BY <1>1, <2>1, <2>2, <2>3, <2>4
      <2> QED BY <2>5, <2>6
<1>5. ASSUME NEW e \in Event, SendEvent(a, e)
      PROVE  /\ \A d \in Addr \ {a} : channel'[d] = channel[d]
             /\ grown(channel'[a], e)
      <2>1. ch \in Sent(ch)
            <3>1. SubSeq(ch, 1, Len(ch)) = ch
                  BY <1>1
            <3>2. Len(ch) \in 0 .. Len(ch)
                  BY <1>1
            <3> QED BY <3>1, <3>2 DEF Sent
      <2>2. PICK left \in Sent(ch) : \/ channel' = [channel EXCEPT ![a] = left]
                                    \/ channel' = [channel EXCEPT ![a] = Append(left, e)]
            BY <1>5, <2>1 DEF SendEvent, ch
      <2>0. DOMAIN channel = Addr
            BY <1>1
      <2>3. channel'[a] = left \/ channel'[a] = Append(left, e)
            BY <2>0, <2>2
      <2>4. grown(channel'[a], e)
            <3>1. grown(left, e) /\ grown(Append(left, e), e)
                  BY <1>4
            <3> HIDE DEF grown
            <3> QED BY <2>3, <3>1
      <2>5. \A d \in Addr \ {a} : channel'[d] = channel[d]
            BY <2>0, <2>2
      <2> QED BY <2>4, <2>5
<1>6. CASE Register(a)
      <2>1. /\ replica[a] = "new" /\ replica' = [replica EXCEPT ![a] = "up"]
            /\ SendEvent(a, "register") /\ registry' = registry
            BY <1>6 DEF Register, coordVars
      <2>2. grown(channel'[a], "register") /\ \A d \in Addr \ {a} : channel'[d] = channel[d]
            BY <1>2, <1>5, <2>1
      <2>3. \A k \in 1 .. Len(channel'[a]) : channel'[a][k] = "register" /\ k = 1
            BY <1>1, <2>1, <2>2
      <2> QED BY <1>1, <2>1, <2>2, <2>3
<1>7. CASE Heartbeat(a)
      <2>1. /\ replica[a] = "up" /\ replica' = replica
            /\ SendEvent(a, "heartbeat") /\ registry' = registry
            BY <1>7 DEF Heartbeat, coordVars
      <2>2. grown(channel'[a], "heartbeat") /\ \A d \in Addr \ {a} : channel'[d] = channel[d]
            BY <1>2, <1>5, <2>1
      <2> QED BY <2>1, <2>2 DEF ch
<1>8. CASE Close(a)
      <2>1. /\ replica[a] = "up" /\ replica' = [replica EXCEPT ![a] = "gone"] /\ registry' = registry
            BY <1>8 DEF Close, coordVars
      <2>2. PICK left \in Sent(Append(ch, "bye")) : channel' = [channel EXCEPT ![a] = left]
            BY <1>8 DEF Close, ch
      <2>3. /\ Append(ch, "bye") \in Seq(Event) /\ Len(Append(ch, "bye")) = Len(ch) + 1
            /\ \A k \in 1 .. Len(ch) : Append(ch, "bye")[k] = ch[k]
            /\ Append(ch, "bye")[Len(ch) + 1] = "bye"
            BY <1>1, <1>2, AppendSeq
      <2>4. /\ left \in Seq(Event) /\ Len(left) \in Nat /\ Len(left) <= Len(ch) + 1
            /\ \A k \in 1 .. Len(left) : left[k] = Append(ch, "bye")[k]
            BY <1>3, <2>2, <2>3
      <2>5. \A k \in 1 .. Len(left) : k \in 1 .. Len(ch) \/ (k = Len(ch) + 1 /\ k = Len(left))
            BY <1>1, <2>4
      <2>6. grown(left, "bye")
            BY <1>1, <2>3, <2>4, <2>5
      <2>7. channel'[a] = left /\ \A d \in Addr \ {a} : channel'[d] = channel[d]
            BY <1>1, <2>2
      <2> QED BY <1>1, <2>1, <2>6, <2>7 DEF ch
<1>9. CASE Die(a)
      <2>1. /\ replica[a] # "gone" /\ replica' = [replica EXCEPT ![a] = "gone"] /\ registry' = registry
            BY <1>9 DEF Die, coordVars
      <2>2. PICK left \in Sent(ch) : channel' = [channel EXCEPT ![a] = left]
            BY <1>9 DEF Die, ch
      <2>3. grown(left, "bye") /\ channel'[a] = left /\ \A d \in Addr \ {a} : channel'[d] = channel[d]
            BY <1>1, <1>2, <1>4, <2>2
      <2> QED BY <1>1, <2>1, <2>3 DEF ch
<1> QED BY <1>6, <1>7, <1>8, <1>9 DEF Client

LEMMA ClientCourses ==
    ASSUME CoordInv, Courses, NEW a \in Addr, Client(a)
    PROVE  Courses'
<1>1. /\ channel'[a] \in Seq(Event) /\ replica[a] # "gone"
      /\ \A d \in Addr \ {a} : channel'[d] = channel[d] /\ replica'[d] = replica[d]
      /\ registry' = registry
      /\ \A k \in 1 .. Len(channel'[a]) :
            \/ k \in 1 .. Len(channel[a]) /\ channel'[a][k] = channel[a][k]
            \/ channel'[a][k] = "heartbeat"
            \/ channel'[a][k] = "register" /\ replica[a] = "new" /\ k = 1
            \/ channel'[a][k] = "bye" /\ replica'[a] = "gone" /\ k = Len(channel'[a])
      BY ClientSends
<1>2. replica[a] = "new" => registry[a] = Unknown
      BY DEF CoordInv, CoordTypeOK
<1>3. \A k \in 1 .. Len(channel[a]) : channel[a][k] # "bye"
      BY <1>1 DEF Courses
<1>4. registry[a].status # "down"
      BY <1>1 DEF Courses
<1>5. \A k \in 1 .. Len(channel'[a]) :
         /\ channel'[a][k] = "register" => k = 1 /\ registry'[a] = Unknown
         /\ channel'[a][k] = "bye" => k = Len(channel'[a]) /\ replica'[a] = "gone"
      BY <1>1, <1>2, <1>3 DEF Courses
<1> QED BY <1>1, <1>4, <1>5 DEF Courses

\* The first event of the channel is gone; the entry is what the event makes of it.
LEMMA HandleEffect ==
    ASSUME CoordInv, NEW a \in Addr, Handle(a)
    PROVE  /\ replica' = replica /\ replica[a] # "new"
           /\ \A d \in Addr \ {a} : channel'[d] = channel[d] /\ registry'[d] = registry[d]
           /\ channel[a] # <<>> /\ Len(channel[a]) \in Nat /\ Len(channel[a]) >= 1
           /\ channel'[a] \in Seq(Event) /\ Len(channel'[a]) = Len(channel[a]) - 1
           /\ \A k \in 1 .. Len(channel'[a]) : channel'[a][k] = channel[a][k + 1]
           /\ \/ channel[a][1] = "register" /\ registry'[a].status = "up"
              \/ channel[a][1] = "bye" /\ registry'[a].status = "down"
              \/ channel[a][1] = "heartbeat" /\ registry'[a] = registry[a]
              \/ /\ channel[a][1] = "heartbeat" /\ registry[a] # Unknown
                 /\ registry'[a].status = IF registry[a].status = "error" THEN "up" ELSE registry[a].status
<1>1. channel[a] # <<>> /\ channel' = [channel EXCEPT ![a] = Tail(@)] /\ replica' = replica
      BY DEF Handle, HandleRegister, HandleBye, HandleUpdate, HandleHeartbeat, Receive
<1>2. channel \in [Addr -> Seq(Event)] /\ registry \in [Addr -> Entry] /\ replica[a] # "new"
      BY <1>1 DEF CoordInv, CoordTypeOK
<1>3. /\ Head(channel[a]) = channel[a][1] /\ Tail(channel[a]) \in Seq(Event)
      /\ Len(channel[a]) \in Nat /\ Len(channel[a]) >= 1
      /\ Len(Tail(channel[a])) = Len(channel[a]) - 1
      /\ \A k \in 1 .. Len(Tail(channel[a])) : Tail(channel[a])[k] = channel[a][k + 1]
      BY <1>1, <1>2, TailSeq
<1>4. channel'[a] = Tail(channel[a]) /\ \A d \in Addr \ {a} : channel'[d] = channel[d]
      BY <1>1, <1>2
<1>5. ASSUME NEW e, NEW s, HandleUpdate(a, e, s)
      PROVE  /\ Head(channel[a]) = e /\ registry'[a].status = s
             /\ \A d \in Addr \ {a} : registry'[d] = registry[d]
      BY <1>2, <1>5 DEF HandleUpdate, Receive, Entry
<1>6. CASE HandleHeartbeat(a)
      <2>1. Head(channel[a]) = "heartbeat"
            BY <1>6 DEF HandleHeartbeat, Receive
      <2>2. CASE registry[a] = Unknown
            BY <1>1, <1>2, <1>3, <1>4, <1>6, <2>1, <2>2 DEF HandleHeartbeat
      <2>3. CASE registry[a] # Unknown
            <3>1. registry' = [registry EXCEPT ![a] =
                    [status |-> IF @.status = "error" THEN "up" ELSE @.status, silence |-> "none"]]
                  BY <1>6, <2>3 DEF HandleHeartbeat
            <3>2. /\ registry'[a].status = IF registry[a].status = "error" THEN "up" ELSE registry[a].status
                  /\ \A d \in Addr \ {a} : registry'[d] = registry[d]
                  BY <1>2, <3>1
            <3> QED BY <1>1, <1>2, <1>3, <1>4, <2>1, <2>3, <3>2
      <2> QED BY <2>2, <2>3
<1>7. CASE HandleRegister(a)
      BY <1>1, <1>2, <1>3, <1>4, <1>5, <1>7 DEF HandleRegister
<1>8. CASE HandleBye(a)
      BY <1>1, <1>2, <1>3, <1>4, <1>5, <1>8 DEF HandleBye
<1> QED BY <1>6, <1>7, <1>8 DEF Handle

LEMMA HandleCourses ==
    ASSUME CoordInv, Courses, NEW a \in Addr, Handle(a)
    PROVE  Courses'
<1> DEFINE n == Len(channel[a])
<1>1. /\ replica' = replica
      /\ \A d \in Addr \ {a} : channel'[d] = channel[d] /\ registry'[d] = registry[d]
      /\ channel[a] # <<>> /\ n \in Nat /\ n >= 1
      /\ channel'[a] \in Seq(Event) /\ Len(channel'[a]) = n - 1
      /\ \A k \in 1 .. Len(channel'[a]) : channel'[a][k] = channel[a][k + 1]
      BY HandleEffect
<1>2. registry[a].status # "down"
      BY <1>1 DEF Courses
<1> HIDE DEF n
<1>3. \A k \in 1 .. n - 1 : k + 1 \in 1 .. n /\ k + 1 # 1 /\ (k + 1 = n => k = n - 1)
      BY <1>1
<1>4. \A k \in 1 .. n : /\ channel[a][k] = "register" => k = 1
                        /\ channel[a][k] = "bye" => k = n /\ replica[a] = "gone"
      BY DEF Courses, n
<1>5. \A k \in 1 .. Len(channel'[a]) :
         /\ channel'[a][k] = "register" => k = 1 /\ registry'[a] = Unknown
         /\ channel'[a][k] = "bye" => k = Len(channel'[a]) /\ replica'[a] = "gone"
      BY <1>1, <1>3, <1>4
<1>6. registry'[a].status = "down" => channel'[a] = <<>> /\ replica'[a] = "gone"
      <2>1. registry'[a].status = "down" => channel[a][1] = "bye"
            BY <1>2, HandleEffect
      <2>2. 1 \in 1 .. n
            BY <1>1
      <2>3. registry'[a].status = "down" => Len(channel'[a]) = 0 /\ replica[a] = "gone"
            BY <1>1, <1>4, <2>1, <2>2
      <2> QED BY <1>1, <2>3, EmptySeq
<1> QED BY <1>1, <1>5, <1>6 DEF Courses

\* Neither time nor the check takes an entry down, and the check makes none.
LEMMA ClockEffect ==
    ASSUME CoordInv, Periodic \/ \E a \in Addr : FallSilent(a)
    PROVE  /\ UNCHANGED <<replica, channel>>
           /\ \A d \in Addr : /\ registry[d] = Unknown => registry'[d] = Unknown
                              /\ \/ registry'[d].status = registry[d].status
                                 \/ registry'[d] = Unknown
                                 \/ registry[d].status = "up" /\ registry'[d].status = "error"
<1>1. UNCHANGED <<replica, channel>>
      BY DEF Periodic, CheckHeartbeats, FlushDue, Publish, PublishFails, ClearPending,
             FallSilent, replicaVars
<1>2. registry \in [Addr -> Entry]
      BY DEF CoordInv, CoordTypeOK
<1>3. CASE CheckHeartbeats
      <2>1. \A entry \in Entry :
               /\ entry = Unknown => Checked(entry) = Unknown
               /\ \/ Checked(entry).status = entry.status
                  \/ Checked(entry) = Unknown
                  \/ entry.status = "up" /\ Checked(entry).status = "error"
            BY DEF Checked, Unknown, Entry, Status, Silence
      <2>2. \A d \in Addr : registry'[d] = Checked(registry[d]) /\ registry[d] \in Entry
            BY <1>2, <1>3 DEF CheckHeartbeats
      <2> QED BY <1>1, <2>1, <2>2
<1>4. CASE FlushDue \/ Publish \/ PublishFails \/ ClearPending
      BY <1>1, <1>4 DEF FlushDue, Publish, PublishFails, ClearPending
<1>5. ASSUME NEW a \in Addr, FallSilent(a)
      PROVE  \A d \in Addr : /\ registry[d] = Unknown => registry'[d] = Unknown
                             /\ registry'[d].status = registry[d].status
      <2>1. /\ registry[a] # Unknown
            /\ registry' = [registry EXCEPT ![a].silence = IF @ = "none" THEN "timeout" ELSE "gc"]
            BY <1>5 DEF FallSilent
      <2>2. \A d \in Addr \ {a} : registry'[d] = registry[d]
            BY <1>2, <2>1
      <2>3. registry'[a].status = registry[a].status
            BY <1>2, <2>1 DEF Entry
      <2> QED BY <2>1, <2>2, <2>3
<1> QED BY <1>1, <1>3, <1>4, <1>5 DEF Periodic

LEMMA ClockCourses ==
    ASSUME CoordInv, Courses, Periodic \/ \E a \in Addr : FallSilent(a)
    PROVE  Courses'
<1>1. \A d \in Addr : registry'[d].status = "down" => registry[d].status = "down"
      BY ClockEffect DEF Unknown
<1> QED BY <1>1, ClockEffect DEF Courses

LEMMA CoursesStep == CoordInv /\ Courses /\ [CoordNext]_vars => Courses'
<1> SUFFICES ASSUME CoordInv, Courses, [CoordNext]_vars PROVE Courses'
      OBVIOUS
<1>1. CASE Hub
      BY <1>1 DEF Hub, HubConnects, HubReceives, HubDisconnects, replicaVars, coordVars, Courses
<1>2. CASE UNCHANGED vars
      BY <1>2 DEF vars, replicaVars, coordVars, Courses
<1> QED BY <1>1, <1>2, ClientCourses, HandleCourses, ClockCourses DEF CoordNext

\* Taken off the directory, an address stays off it.
THEOREM WithdrawnForGood == CoordSafety => NeverRelisted
<1> DEFINE Stays(a) == /\ Withdrawn(a) => Withdrawn(a)'
                       /\ registry[a] # Unknown /\ registry'[a] = Unknown => Withdrawn(a)'
<1>1. ASSUME CoordInv, Courses, CoordNext, NEW a \in Addr PROVE Stays(a)
      <2>1. /\ replica[a] = "new" => registry[a] = Unknown
            /\ registry[a].status = "down" => replica[a] = "gone" /\ channel[a] = <<>>
            /\ registry[a] # Unknown => \A k \in 1 .. Len(channel[a]) : channel[a][k] # "register"
            BY <1>1 DEF CoordInv, CoordTypeOK, Courses
      <2>2. ASSUME NEW d \in Addr, Client(d) PROVE Stays(a)
            <3>1. CASE d = a
                  BY <1>1, <2>2, <3>1, ClientSends DEF Withdrawn
            <3>2. CASE d # a
                  BY <1>1, <2>2, <3>2, ClientSends DEF Withdrawn
            <3> QED BY <3>1, <3>2
      <2>3. ASSUME NEW d \in Addr, Handle(d) PROVE Stays(a)
            <3>1. CASE d = a
                  <4>1. /\ replica' = replica /\ replica[a] # "new" /\ channel[a] # <<>>
                        /\ Len(channel[a]) \in Nat /\ Len(channel[a]) >= 1
                        /\ Len(channel'[a]) = Len(channel[a]) - 1
                        /\ \A k \in 1 .. Len(channel'[a]) : channel'[a][k] = channel[a][k + 1]
                        BY <1>1, <2>3, <3>1, HandleEffect
                  <4>2. (\A k \in 1 .. Len(channel[a]) : channel[a][k] # "register")
                           => /\ channel[a][1] # "register"
                              /\ \A k \in 1 .. Len(channel'[a]) : channel'[a][k] # "register"
                        <5>1. /\ 1 \in 1 .. Len(channel[a])
                              /\ \A k \in 1 .. Len(channel'[a]) : k + 1 \in 1 .. Len(channel[a])
                              BY <4>1
                        <5> QED BY <4>1, <5>1
                  <4>3. Withdrawn(a) => registry[a] = Unknown
                        BY <2>1, <4>1 DEF Withdrawn
                  <4>4. Withdrawn(a) => Withdrawn(a)'
                        <5> SUFFICES ASSUME Withdrawn(a) PROVE Withdrawn(a)'
                              OBVIOUS
                        <5>1. /\ registry[a] = Unknown /\ registry[a].status # "down"
                              /\ \A k \in 1 .. Len(channel[a]) : channel[a][k] # "register"
                              BY <2>1, <4>1, <4>3 DEF Withdrawn
                        <5>2. \/ registry'[a].status = "down"
                              \/ registry'[a] = registry[a]
                              BY <1>1, <2>3, <3>1, <4>2, <5>1, HandleEffect
                        <5> QED BY <4>1, <4>2, <5>1, <5>2 DEF Withdrawn
                  <4>5. registry[a] # Unknown /\ registry'[a] = Unknown => Withdrawn(a)'
                        BY <2>1, <4>1, <4>2 DEF Withdrawn
                  <4> QED BY <4>4, <4>5
            <3>2. CASE d # a
                  BY <1>1, <2>3, <3>2, HandleEffect DEF Withdrawn
            <3> QED BY <3>1, <3>2
      <2>4. CASE Periodic \/ \E d \in Addr : FallSilent(d)
            <3>1. /\ UNCHANGED <<replica, channel>>
                  /\ registry[a] = Unknown => registry'[a] = Unknown
                  /\ \/ registry'[a].status = registry[a].status
                     \/ registry'[a] = Unknown
                     \/ registry[a].status = "up"
                  BY <1>1, <2>4, ClockEffect
            <3>2. channel[a] = <<>> => \A k \in 1 .. Len(channel[a]) : channel[a][k] # "register"
                  BY EmptySeq
            <3> QED BY <2>1, <3>1, <3>2 DEF Withdrawn
      <2>5. CASE Hub
            BY <2>5 DEF Hub, HubConnects, HubReceives, HubDisconnects, replicaVars, coordVars, Withdrawn
      <2> QED BY <1>1, <2>2, <2>3, <2>4, <2>5 DEF CoordNext
<1>2. \A a \in Addr : Withdrawn(a) => a \notin Active
      BY DEF Withdrawn, Active, Unknown
<1>3. CoordInv /\ Courses /\ [CoordNext]_vars =>
        [\A a \in Addr :
            /\ Withdrawn(a) => Withdrawn(a)'
            /\ registry[a] # Unknown /\ registry'[a] = Unknown => Withdrawn(a)'
            /\ Withdrawn(a) => a \notin Active]_vars
      BY <1>1, <1>2
<1> QED BY <1>3, CoordInitInv, CoordStepInv, CoursesInit, CoursesStep, PTL
        DEF CoordSafety, NeverRelisted
================================================================================
