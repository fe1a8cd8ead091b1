-------------------------- MODULE Orchestrator_proofs --------------------------
(* Proofs about Orchestrator, for any requests, companions, replicas and      *)
(* bounds: a request is told its end once, no pool binds a request that is    *)
(* neither tracked nor on its way, every variable keeps its shape, a deferred *)
(* parent waits for a companion that is still to come, and goes on with what  *)
(* all of its companions that finished left, and a request that is tracked is *)
(* always at work somewhere.                                                  *)
EXTENDS Orchestrator, SequenceTheorems, TLAPS

Tables ==
    /\ told \in [Req -> Seq({"output", "error", "fatal"})]
    /\ requestStates \in SUBSET Req
    /\ companionMap \in [Parent -> SUBSET Companion]
    /\ affinity \in [Stage -> [Req -> Replica \cup {None}]]
    /\ handler.at = "pick" => handler.id \in Req
    /\ poller.at = "pick" => poller.id \in Parent /\ poller.last \in SUBSET Companion

Shapes == Tables /\ inbox \in Seq(Messages)

\* Besides what is bound, what is being submitted is tracked, or was forgotten
\* while its submission waited.
Bindings ==
    fatalError \/
        /\ \A s \in Stage, r \in Req : affinity[s][r] # None =>
              r \in requestStates \cup overtaken \/ (s = 0 /\ OnItsWay(r))
        /\ handler.at = "pick" => handler.id \in requestStates \cup overtaken
        /\ poller.at = "pick" => poller.id \in requestStates \cup overtaken

\* A companion that is tracked is in its parent's map, and its parent is tracked,
\* unless the membership watcher took it.
Families ==
    /\ \A q \in Parent : \A c \in companionMap[q] :
          Owner[c] = q /\ (c \in requestStates => q \in requestStates \cup detached)
    /\ \A c \in Companion : c \in requestStates => IsCompanion(c)

\* A message is put once, and a request that is still to be put or to be read was
\* never told anything.
Unread ==
    /\ \A i \in 1 .. Len(inbox) : inbox[i] \in asked
    /\ \A i, j \in 1 .. Len(inbox) : inbox[i] = inbox[j] => i = j
    /\ \A i \in 1 .. Len(inbox), q \in Parent : inbox[i] = Ask("add", q) =>
          q \notin requestStates /\ (told[q] = <<>> \/ q \in detached)
    /\ \A q \in Parent : Ask("add", q) \notin asked =>
          q \notin requestStates /\ (told[q] = <<>> \/ q \in detached)

\* The frontend binds a request before it adds it.
Preselection ==
    /\ selecting \in [Parent -> Replica0 \cup {None}] /\ preselected \in SUBSET Parent
    /\ \A q \in Parent : selecting[q] # None \/ q \in preselected => Ask("add", q) \notin asked

OrchInv == Shapes /\ Bindings /\ Families /\ Unread /\ Preselection /\ AnsweredOnce

-----------------------------------------------------------------------------
LEMMA AppendSeq ==
    ASSUME NEW S, NEW s \in Seq(S), NEW e \in S
    PROVE  /\ Append(s, e) \in Seq(S) /\ Len(Append(s, e)) = Len(s) + 1 /\ Len(s) \in Nat
           /\ \A k \in 1 .. Len(s) : Append(s, e)[k] = s[k]
           /\ Append(s, e)[Len(s) + 1] = e
BY AppendProperties, LenProperties

LEMMA TailSeq ==
    ASSUME NEW S, NEW s \in Seq(S), s # <<>>
    PROVE  /\ Head(s) \in S /\ Head(s) = s[1] /\ Tail(s) \in Seq(S)
           /\ Len(s) \in Nat /\ Len(s) >= 1 /\ Len(Tail(s)) = Len(s) - 1
           /\ \A k \in 1 .. Len(Tail(s)) : Tail(s)[k] = s[k + 1]
BY HeadTailProperties, EmptySeq

LEMMA AskIsMessage ==
    /\ \A r \in Req, op \in {"add", "companion", "abort"} : Ask(op, r) \in Messages
    /\ Ask("shutdown", None) \in Messages
BY DEF Messages, Ask

LEMMA Names ==
    /\ \A q \in Parent : q \in Req /\ q \notin Companion
    /\ \A c \in Companion : c \in Req /\ c \notin Parent /\ Owner[c] \in Parent
    /\ None \notin Req /\ D \in Replica /\ Replica0 \subseteq Replica
    /\ 0 \in Stage /\ 1 \in Stage
BY OrchAssumption DEF Replica, Stage

-----------------------------------------------------------------------------
(* What the handlers are made of.                                            *)

\* Whoever is on its way stays so: nothing but an admission changes that.
StaysOnItsWay == \A r \in Req : OnItsWay(r) => OnItsWay(r)'

LEMMA NothingRead ==
    ASSUME UNCHANGED <<inbox, preselected>>
    PROVE  StaysOnItsWay
BY DEF StaysOnItsWay, OnItsWay

LEMMA HeadRead ==
    ASSUME Shapes, NEW op \in {"add", "companion", "abort", "shutdown"}, NEW r, Get(op, r),
           UNCHANGED preselected
    PROVE  \A q \in Req : OnItsWay(q) => OnItsWay(q)' \/ (op = "add" /\ q = r)
<1>1. /\ inbox[1] = Ask(op, r) /\ inbox' = Tail(inbox) /\ Len(inbox) \in Nat /\ Len(inbox) >= 1
      /\ Len(inbox') = Len(inbox) - 1 /\ inbox' \in Seq(Messages)
      /\ \A k \in 1 .. Len(inbox') : inbox'[k] = inbox[k + 1]
      BY TailSeq DEF Shapes, Get
<1>2. ASSUME NEW q \in Req, Ask("add", q) \in ToSet(inbox), Ask("add", q) \notin ToSet(inbox')
      PROVE  op = "add" /\ q = r
      <2>1. PICK k \in 1 .. Len(inbox) : inbox[k] = Ask("add", q)
            BY <1>2, LenProperties DEF ToSet, Shapes
      <2>2. \A j \in 1 .. Len(inbox') : inbox'[j] # Ask("add", q)
            BY <1>1, <1>2, LenProperties DEF ToSet
      <2>3. k = 1
            <3>1. CASE k # 1
                  <4>1. k - 1 \in 1 .. Len(inbox') /\ (k - 1) + 1 = k
                        BY <1>1, <2>1, <3>1
                  <4> QED BY <1>1, <2>1, <2>2, <4>1
            <3> QED BY <3>1
      <2> QED BY <1>1, <2>1, <2>3 DEF Ask
<1> QED BY <1>2 DEF OnItsWay

\* What is forgotten loses its bindings; what was being submitted is overtaken.
LEMMA ForgetBindings ==
    ASSUME Shapes, Bindings, NEW ids, Forget(ids), UNCHANGED fatalError, StaysOnItsWay,
           handler' = handler \/ handler'.at # "pick",
           poller' = poller \/ poller'.at # "pick"
    PROVE  /\ Bindings'
           /\ requestStates' \in SUBSET Req
           /\ affinity' \in [Stage -> [Req -> Replica \cup {None}]]
<1>1. affinity' \in [Stage -> [Req -> Replica \cup {None}]]
      BY DEF Forget, Shapes, Tables
<1>2. requestStates' \in SUBSET Req
      BY DEF Forget, Shapes, Tables
<1>3. handler.at = "pick" => handler.id \in InSubmission
      BY DEF InSubmission
<1>4. poller.at = "pick" => poller.id \in InSubmission
      BY DEF InSubmission
<1>5. ASSUME ~fatalError PROVE Bindings'
      <2>1. \A s \in Stage, r \in Req : affinity'[s][r] # None =>
               r \notin ids /\ affinity[s][r] # None
            BY DEF Forget
      <2>2. \A r \in (requestStates \cup overtaken) \ ids : r \in requestStates' \cup overtaken'
            BY DEF Forget
      <2>3. \A s \in Stage, r \in Req : affinity'[s][r] # None =>
               r \in requestStates' \cup overtaken' \/ (s = 0 /\ OnItsWay(r)')
            BY <1>5, <2>1, <2>2 DEF Bindings, StaysOnItsWay
      <2>4. \A r \in InSubmission : r \in requestStates \cup overtaken => r \in requestStates' \cup overtaken'
            BY DEF Forget
      <2>5. handler'.at = "pick" => handler'.id \in requestStates' \cup overtaken'
            BY <1>3, <1>5, <2>4 DEF Bindings
      <2>6. poller'.at = "pick" => poller'.id \in requestStates' \cup overtaken'
            BY <1>4, <1>5, <2>4 DEF Bindings
      <2> QED BY <2>3, <2>5, <2>6 DEF Bindings
<1> QED BY <1>1, <1>2, <1>5 DEF Bindings

\* A step that only forgets: with a parent go its companions, or the watcher has
\* taken it; whoever is told anything is forgotten, or was taken by the watcher;
\* a message may be read.
Shrinks ==
    /\ requestStates' \subseteq requestStates
    /\ overtaken \subseteq overtaken' /\ detached \subseteq detached'
    /\ \A q \in Parent : companionMap'[q] \subseteq companionMap[q]
    /\ \A q \in Parent, c \in requestStates' : c \in companionMap[q] => c \in companionMap'[q]
    /\ \A q \in Parent : q \in requestStates \ requestStates' =>
          q \in detached' \/ \A c \in companionMap'[q] : c \notin requestStates'

Tells ==
    \A q \in Parent :
        \/ told'[q] = told[q] \/ q \in detached'
        \/ q \in requestStates \ requestStates' /\ \E m : told'[q] = Append(told[q], m)

Reads ==
    UNCHANGED <<frontVars, asked>> /\ (inbox' = inbox \/ (inbox # <<>> /\ inbox' = Tail(inbox)))

Removal == Shrinks /\ Tells /\ Bindings' /\ Tables'

\* Reading leaves a part of the inbox.
LEMMA ReadPart ==
    ASSUME Shapes, Reads
    PROVE  /\ inbox' \in Seq(Messages)
           /\ \E d \in {0, 1} : \A i \in 1 .. Len(inbox') :
                 i + d \in 1 .. Len(inbox) /\ inbox'[i] = inbox[i + d]
<1>1. CASE inbox' = inbox
      <2>1. \A i \in 1 .. Len(inbox') : i + 0 \in 1 .. Len(inbox) /\ inbox'[i] = inbox[i + 0]
            BY <1>1
      <2> QED BY <1>1, <2>1 DEF Shapes
<1>2. CASE inbox # <<>> /\ inbox' = Tail(inbox)
      <2>1. \A i \in 1 .. Len(inbox') : i + 1 \in 1 .. Len(inbox) /\ inbox'[i] = inbox[i + 1]
            BY <1>2, TailSeq DEF Shapes
      <2> QED BY <1>2, <2>1, TailSeq DEF Shapes
<1> QED BY <1>1, <1>2 DEF Reads

LEMMA RemovalInv ==
    ASSUME OrchInv, Shrinks, Tells, Reads
    PROVE  Families' /\ Unread' /\ Preselection' /\ AnsweredOnce' /\ inbox' \in Seq(Messages)
<1>1. Families'
      BY DEF OrchInv, Families, IsCompanion, Shrinks
<1>2. AnsweredOnce'
      <2> SUFFICES ASSUME NEW q \in Parent, q \notin overtaken', q \notin detached'
                   PROVE  Len(told'[q]) <= 1 /\ (told'[q] # <<>> => q \notin requestStates')
            BY DEF AnsweredOnce
      <2>1. Len(told[q]) <= 1 /\ (told[q] # <<>> => q \notin requestStates)
            BY DEF OrchInv, AnsweredOnce, Shrinks
      <2>2. CASE told'[q] = told[q]
            BY <2>1, <2>2 DEF Shrinks
      <2>3. CASE q \in requestStates \ requestStates' /\ \E m : told'[q] = Append(told[q], m)
            <3>1. PICK m : told'[q] = Append(told[q], m)
                  BY <2>3
            <3>2. told[q] = <<>>
                  BY <2>1, <2>3
            <3> QED BY <2>3, <3>1, <3>2
      <2> QED BY <2>2, <2>3 DEF Tells
<1>3. Unread'
      <2>1. PICK d \in {0, 1} : \A i \in 1 .. Len(inbox') :
                i + d \in 1 .. Len(inbox) /\ inbox'[i] = inbox[i + d]
            BY ReadPart DEF OrchInv
      <2>2. \A i \in 1 .. Len(inbox') : inbox'[i] \in asked'
            BY <2>1 DEF OrchInv, Unread, Reads
      <2>3. ASSUME NEW i \in 1 .. Len(inbox'), NEW j \in 1 .. Len(inbox'), inbox'[i] = inbox'[j]
            PROVE  i = j
            <3>1. i + d = j + d
                  BY <2>1, <2>3 DEF OrchInv, Unread
            <3> QED BY <3>1
      <2>4. ASSUME NEW i \in 1 .. Len(inbox'), NEW q \in Parent, inbox'[i] = Ask("add", q)
            PROVE  q \notin requestStates' /\ (told'[q] = <<>> \/ q \in detached')
            <3>1. q \notin requestStates /\ (told[q] = <<>> \/ q \in detached)
                  BY <2>1, <2>4 DEF OrchInv, Unread
            <3> QED BY <3>1 DEF Shrinks, Tells
      <2>5. \A q \in Parent : Ask("add", q) \notin asked' =>
               q \notin requestStates' /\ (told'[q] = <<>> \/ q \in detached')
            BY DEF OrchInv, Unread, Shrinks, Tells, Reads
      <2> QED BY <2>2, <2>3, <2>4, <2>5 DEF Unread
<1>4. Preselection'
      BY DEF OrchInv, Preselection, Reads, frontVars
<1> QED BY <1>1, <1>2, <1>3, <1>4, ReadPart DEF OrchInv

\* A parent goes with its companions.
LEMMA FamilyForgotten ==
    ASSUME Shapes, NEW p \in Parent, NEW last \in SUBSET Companion,
           CleanupParent(p), Forget(WithCompanions(p) \cup last), UNCHANGED detached
    PROVE  Shrinks /\ p \notin requestStates' /\ companionMap' \in [Parent -> SUBSET Companion]
<1>1. /\ companionMap' \in [Parent -> SUBSET Companion] /\ companionMap'[p] = {}
      /\ \A q \in Parent \ {p} : companionMap'[q] = companionMap[q]
      BY DEF CleanupParent, Shapes, Tables
<1>2. /\ requestStates' \subseteq requestStates /\ p \notin requestStates'
      /\ \A c \in companionMap[p] : c \notin requestStates'
      /\ overtaken \subseteq overtaken'
      BY DEF Forget, WithCompanions
<1>3. \A q \in Parent \ {p} : q \in requestStates => q \in requestStates'
      BY Names DEF Forget, WithCompanions, Shapes, Tables
<1> QED BY <1>1, <1>2, <1>3 DEF Shrinks

\* Companions go, and their parents stay.
LEMMA CompanionsForgotten ==
    ASSUME Shapes, NEW last \in SUBSET Companion, requestStates' = requestStates \ last,
           overtaken \subseteq overtaken', UNCHANGED <<companionMap, detached>>
    PROVE  Shrinks
BY Names DEF Shrinks

LEMMA TellTold ==
    ASSUME Tables, NEW q \in Req, NEW m \in {"output", "error", "fatal"}, Tell(q, m)
    PROVE  /\ told' \in [Req -> Seq({"output", "error", "fatal"})]
           /\ told'[q] = Append(told[q], m)
           /\ \A r \in Req \ {q} : told'[r] = told[r]
<1>1. told[q] \in Seq({"output", "error", "fatal"})
      BY DEF Tables
<1>2. Append(told[q], m) \in Seq({"output", "error", "fatal"})
      BY <1>1, AppendSeq
<1> QED BY <1>1, <1>2 DEF Tell, Tables

-----------------------------------------------------------------------------
(* The output handler.                                                       *)

\* What touches no table.
LEMMA NothingRemoved ==
    ASSUME OrchInv, StaysOnItsWay,
           UNCHANGED <<told, requestStates, companionMap, affinity, overtaken, detached, fatalError>>,
           handler' = handler \/ handler'.at # "pick",
           poller' = poller \/ poller'.at # "pick"
    PROVE  Removal
<1>1. Tables'
      BY DEF OrchInv, Shapes, Tables
<1>2. Bindings'
      BY DEF OrchInv, Bindings, StaysOnItsWay
<1>3. Shrinks /\ Tells
      BY DEF Shrinks, Tells
<1> QED BY <1>1, <1>2, <1>3 DEF Removal

\* A stage dies: everybody is told and forgotten.
LEMMA StageDiesRemoves ==
    ASSUME OrchInv, StageDies, UNCHANGED <<companionMap, detached, handler>>,
           affinity' \in [Stage -> [Req -> Replica \cup {None}]]
    PROVE  Removal
<1>1. /\ told' = [r \in Req |-> IF r \in requestStates THEN Append(told[r], "fatal") ELSE told[r]]
      /\ requestStates' = {} /\ overtaken \subseteq overtaken' /\ fatalError' = TRUE
      /\ poller' = At("done")
      BY DEF StageDies
<1>2. \A r \in Req : told[r] \in Seq({"output", "error", "fatal"})
                     /\ Append(told[r], "fatal") \in Seq({"output", "error", "fatal"})
      BY AppendSeq DEF OrchInv, Shapes, Tables
<1>3. told' \in [Req -> Seq({"output", "error", "fatal"})]
      BY <1>1, <1>2
<1>4. Tables'
      BY <1>1, <1>3 DEF At, OrchInv, Shapes, Tables
<1>5. Bindings' /\ Shrinks
      BY <1>1 DEF Bindings, Shrinks
<1>6. Tells
      BY <1>1, Names DEF Tells
<1> QED BY <1>4, <1>5, <1>6 DEF Removal

\* An exception in the output handler: everybody goes, or nobody, and the parent
\* of the submission that failed may have been bound.
LEMMA ThrowRemoves ==
    ASSUME OrchInv, StaysOnItsWay, NEW e, NEW early, Throw(e, early),
           UNCHANGED <<companionMap, detached, handler>>,
           affinity' \in [Stage -> [Req -> Replica \cup {None}]],
           NEW p \in Req, p \in requestStates \cup overtaken \/ fatalError,
           \A s \in Stage, r \in Req : affinity'[s][r] = affinity[s][r] \/ (s = 1 /\ r = p)
    PROVE  Removal
<1>1. CASE StageDies
      BY <1>1, StageDiesRemoves
<1>2. CASE poller' = At("done") /\ UNCHANGED <<told, requestStates, overtaken, fatalError>>
      <2>1. Tables'
            BY <1>2 DEF At, OrchInv, Shapes, Tables
      <2>2. Bindings'
            BY <1>2 DEF At, OrchInv, Bindings, StaysOnItsWay
      <2>3. Shrinks /\ Tells
            BY <1>2 DEF Shrinks, Tells
      <2> QED BY <2>1, <2>2, <2>3 DEF Removal
<1> QED BY <1>1, <1>2 DEF Throw

LEMMA SubmitDiffusionRemoves ==
    ASSUME OrchInv, StaysOnItsWay, NEW p \in Parent, NEW last \in SUBSET Companion, NEW early,
           p \in requestStates \cup overtaken \/ fatalError,
           SubmitDiffusion(p, last, early),
           UNCHANGED <<detached, companionMap, handler>>
    PROVE  Removal
<1>1. p \in Req /\ 1 \in Stage /\ D \in Replica
      BY Names
<1>2. CASE Throw("EngineDead", early) /\ affinity' = [affinity EXCEPT ![1][p] = D]
      <2>1. /\ affinity' \in [Stage -> [Req -> Replica \cup {None}]]
            /\ \A s \in Stage, r \in Req :
                  affinity'[s][r] = affinity[s][r] \/ (s = 1 /\ r = p)
            BY <1>1, <1>2 DEF OrchInv, Shapes, Tables
      <2> QED BY <1>1, <1>2, <2>1, ThrowRemoves
<1>3. CASE ~engineDead /\ UNCHANGED fatalError /\ UNCHANGED told
      <2>1. /\ requestStates' = requestStates \ last
            /\ overtaken' = overtaken \cup (last \cap InSubmission)
            /\ affinity' = [s \in Stage |-> [r \in Req |->
                               IF r \in last THEN None
                               ELSE IF s = 1 /\ r = p THEN D ELSE affinity[s][r]]]
            /\ poller'.at # "pick"
            BY <1>3 DEF SubmitDiffusion, At
      <2>2. /\ affinity' \in [Stage -> [Req -> Replica \cup {None}]]
            /\ \A s \in Stage, r \in Req : affinity'[s][r] # None =>
                  r \notin last /\ (affinity[s][r] # None \/ r = p)
            BY <1>1, <2>1 DEF OrchInv, Shapes, Tables
      <2>3. Tables'
            BY <1>3, <2>1, <2>2 DEF OrchInv, Shapes, Tables
      <2>4. handler.at = "pick" => handler.id \in InSubmission
            BY DEF InSubmission
      <2>5. p \notin last
            BY Names
      <2>6. Bindings'
            BY <1>1, <1>3, <2>1, <2>2, <2>4, <2>5 DEF OrchInv, Bindings, StaysOnItsWay
      <2>7. Shrinks
            BY <2>1, CompanionsForgotten DEF OrchInv
      <2> QED BY <1>3, <2>3, <2>6, <2>7 DEF Removal, Tells
<1> QED BY <1>2, <1>3 DEF SubmitDiffusion

\* Of the parent itself, whether it is forwarded, ends here, waits or fails.
LEMMA ForwardRemoves ==
    ASSUME OrchInv, StaysOnItsWay, NEW p \in Parent, p \in requestStates, NEW done \in SUBSET Companion,
           NEW early \in BOOLEAN, Forward(p, done, early), UNCHANGED <<detached, handler>>
    PROVE  Removal
<1> DEFINE last == IF early THEN {} ELSE done
<1>1. p \in Req /\ last \in SUBSET Companion
      BY Names
<1>2. CASE /\ Tell(p, "output") /\ CleanupParent(p)
           /\ Forget(WithCompanions(p) \cup last) /\ UNCHANGED <<poller, fatalError>>
      <2>1. Shrinks /\ p \notin requestStates' /\ companionMap' \in [Parent -> SUBSET Companion]
            BY <1>1, <1>2, FamilyForgotten DEF OrchInv
      <2>2. /\ Bindings' /\ requestStates' \in SUBSET Req
            /\ affinity' \in [Stage -> [Req -> Replica \cup {None}]]
            BY <1>2, ForgetBindings DEF OrchInv
      <2>3. /\ told' \in [Req -> Seq({"output", "error", "fatal"})]
            /\ told'[p] = Append(told[p], "output")
            /\ \A r \in Req \ {p} : told'[r] = told[r]
            BY <1>1, <1>2, TellTold DEF OrchInv, Shapes
      <2>4. Tables'
            BY <1>2, <2>1, <2>2, <2>3 DEF OrchInv, Shapes, Tables
      <2>5. Tells
            BY <2>1, <2>3, Names DEF Tells
      <2> QED BY <2>1, <2>2, <2>4, <2>5 DEF Removal
<1>3. CASE SubmitDiffusion(p, last, early) /\ UNCHANGED companionMap
      BY <1>1, <1>3, SubmitDiffusionRemoves
<1>4. CASE /\ poller' = Waiting(p, last, early)
           /\ UNCHANGED <<companionMap, told, stateVars, affinity, overtaken, fatalError>>
      <2>1. poller'.id = p /\ poller'.last = last
            BY <1>4 DEF Waiting
      <2>2. Tables'
            BY <1>1, <1>4, <2>1 DEF stateVars, OrchInv, Shapes, Tables
      <2>3. Bindings'
            BY <1>4, <2>1 DEF stateVars, OrchInv, Bindings, StaysOnItsWay
      <2>4. Shrinks /\ Tells
            BY <1>4 DEF stateVars, Shrinks, Tells
      <2> QED BY <2>2, <2>3, <2>4 DEF Removal
<1>5. CASE Throw("RuntimeError", early) /\ UNCHANGED <<companionMap, affinity>>
      <2>1. affinity' \in [Stage -> [Req -> Replica \cup {None}]]
            BY <1>5 DEF OrchInv, Shapes, Tables
      <2> QED BY <1>1, <1>5, <2>1, ThrowRemoves
<1> HIDE DEF last
<1> QED BY <1>2, <1>3, <1>4, <1>5 DEF Forward, last

\* The parent is told, with whichever of its requests failed.
LEMMA StageErrorRemoves ==
    ASSUME OrchInv, StaysOnItsWay, NEW r \in Req, r \in requestStates, StageError(r),
           UNCHANGED <<detached, handler>>
    PROVE  Removal
<1>1. ASSUME NEW p \in Parent, p \in requestStates \cup detached, Tell(p, "error"),
             CleanupParent(p), Forget(WithCompanions(p)), UNCHANGED <<poller, fatalError>>
      PROVE  Removal
      <2>1. WithCompanions(p) \cup {} = WithCompanions(p) /\ {} \in SUBSET Companion
            OBVIOUS
      <2>2. Shrinks /\ p \notin requestStates' /\ companionMap' \in [Parent -> SUBSET Companion]
            BY <1>1, <2>1, FamilyForgotten DEF OrchInv
      <2>3. /\ Bindings' /\ requestStates' \in SUBSET Req
            /\ affinity' \in [Stage -> [Req -> Replica \cup {None}]]
            BY <1>1, ForgetBindings DEF OrchInv
      <2>4. /\ told' \in [Req -> Seq({"output", "error", "fatal"})]
            /\ told'[p] = Append(told[p], "error")
            /\ \A d \in Req \ {p} : told'[d] = told[d]
            BY <1>1, TellTold, Names DEF OrchInv, Shapes
      <2>5. Tables'
            BY <1>1, <2>2, <2>3, <2>4 DEF OrchInv, Shapes, Tables
      <2>6. Tells
            BY <1>1, <2>2, <2>4, Names DEF Tells
      <2> QED BY <2>2, <2>3, <2>5, <2>6 DEF Removal
<1>2. CASE IsCompanion(r)
      <2>1. PICK q \in Parent : r \in companionMap[q]
            BY <1>2 DEF IsCompanion
      <2>2. Owner[r] = q /\ q \in requestStates \cup detached
            BY <2>1 DEF OrchInv, Families
      <2> QED BY <1>1, <1>2, <2>2 DEF StageError
<1>3. CASE ~IsCompanion(r) /\ r \in Parent
      BY <1>1, <1>3 DEF StageError
<1>4. IsCompanion(r) \/ r \in Parent
      BY OrchAssumption DEF OrchInv, Families
<1> QED BY <1>2, <1>3, <1>4

LEMMA DoneRemoves ==
    ASSUME OrchInv, StaysOnItsWay, NEW r \in Req, r \in requestStates, NEW early \in BOOLEAN,
           IF IsCompanion(r) THEN CompanionDone(r, early) ELSE ParentDone(r, early),
           UNCHANGED <<detached, handler>>
    PROVE  Removal
<1>1. CASE IsCompanion(r)
      <2>1. PICK q \in Parent : r \in companionMap[q]
            BY <1>1 DEF IsCompanion
      <2>2. Owner[r] = q /\ {r} \in SUBSET Companion
            BY <2>1 DEF OrchInv, Families, Shapes, Tables
      <2>3. CASE Forward(Owner[r], {r}, early) /\ Owner[r] \in requestStates
            BY <2>2, <2>3, ForwardRemoves
      <2>4. ASSUME NEW output \in SUBSET {r}, Forget(output), UNCHANGED <<told, poller, companionMap, fatalError>>
            PROVE  Removal
            <3>1. Shrinks
                  BY <2>2, <2>4, CompanionsForgotten DEF Forget, OrchInv
            <3>2. /\ Bindings' /\ requestStates' \in SUBSET Req
                  /\ affinity' \in [Stage -> [Req -> Replica \cup {None}]]
                  BY <2>4, ForgetBindings DEF OrchInv
            <3>3. Tables'
                  BY <2>4, <3>2 DEF OrchInv, Shapes, Tables
            <3>4. Tells
                  BY <2>4 DEF Tells
            <3> QED BY <3>1, <3>2, <3>3, <3>4 DEF Removal
      <2>5. (IF early THEN {} ELSE {r}) \in SUBSET {r}
            OBVIOUS
      <2> QED BY <1>1, <2>3, <2>4, <2>5 DEF CompanionDone
<1>2. CASE ~IsCompanion(r) /\ r \in Parent
      <2>1. CASE Forward(r, {}, early)
            BY <1>2, <2>1, ForwardRemoves
      <2>2. CASE UNCHANGED <<told, poller, stateVars, companionMap, affinity, overtaken, fatalError>>
            BY <2>2, NothingRemoved DEF stateVars
      <2>3. CASE UNCHANGED Dropped
            BY <2>2, <2>3 DEF Dropped, trackerVars
      <2> QED BY <1>2, <2>1, <2>2, <2>3 DEF ParentDone
<1>3. IsCompanion(r) \/ r \in Parent
      BY OrchAssumption DEF OrchInv, Families
<1> QED BY <1>1, <1>2, <1>3

LEMMA PollLLMRemoves ==
    ASSUME OrchInv, NEW r \in Req, PollLLM(r)
    PROVE  Removal /\ Reads
<1>1. UNCHANGED <<detached, handler, inbox, asked, frontVars, preselected>>
      BY DEF PollLLM, PollerFrame, frontVars
<1>2. StaysOnItsWay /\ Reads
      BY <1>1, NothingRead DEF Reads
<1>3. CASE UNCHANGED Dropped
      <2>1. UNCHANGED <<told, poller, requestStates, companionMap, affinity, overtaken, fatalError>>
            BY <1>3 DEF Dropped, stateVars, trackerVars
      <2> QED BY <1>1, <1>2, <2>1, NothingRemoved
<1>4. CASE r \in requestStates /\ StageError(r)
      BY <1>1, <1>2, <1>4, StageErrorRemoves
<1>5. ASSUME NEW early \in BOOLEAN, r \in requestStates,
             IF IsCompanion(r) THEN CompanionDone(r, early) ELSE ParentDone(r, early)
      PROVE  Removal
      BY <1>1, <1>2, <1>5, DoneRemoves
<1> QED BY <1>2, <1>3, <1>4, <1>5 DEF PollLLM

LEMMA PollDeadRemoves ==
    ASSUME OrchInv, PollDead
    PROVE  Removal /\ Reads
<1>1. StageDies /\ UNCHANGED <<frontVars, inbox, asked, handler, companionMap, affinity, detached>>
      BY DEF PollDead, trackerVars, poolVars
<1>2. affinity' \in [Stage -> [Req -> Replica \cup {None}]]
      BY <1>1 DEF OrchInv, Shapes, Tables
<1> QED BY <1>1, <1>2, StageDiesRemoves DEF Reads

LEMMA PollDiffusionRemoves ==
    ASSUME OrchInv, PollDiffusion
    PROVE  Removal /\ Reads
<1>1. UNCHANGED <<detached, handler, inbox, asked, frontVars, preselected>>
      BY DEF PollDiffusion, PollerFrame, frontVars
<1>2. StaysOnItsWay /\ Reads
      BY <1>1, NothingRead DEF Reads
<1>3. ASSUME NEW r \in Parent, NEW kind \in {"result", "error"}, DiffusionOutput(Reply(r, kind))
      PROVE  Removal
      <2>1. Reply(r, kind).id = r /\ r \in Req
            BY Names DEF Reply
      <2>2. CASE UNCHANGED Dropped
            <3>1. UNCHANGED <<told, poller, requestStates, companionMap, affinity, overtaken, fatalError>>
                  BY <2>2 DEF Dropped, stateVars, trackerVars
            <3> QED BY <1>1, <1>2, <3>1, NothingRemoved
      <2>3. CASE r \in requestStates /\ StageError(r)
            BY <1>1, <1>2, <2>1, <2>3, StageErrorRemoves
      <2>4. CASE /\ r \in requestStates /\ Tell(r, "output") /\ CleanupParent(r)
                 /\ Forget(WithCompanions(r)) /\ UNCHANGED <<poller, fatalError>>
            <3>1. WithCompanions(r) \cup {} = WithCompanions(r) /\ {} \in SUBSET Companion
                  OBVIOUS
            <3>2. Shrinks /\ r \notin requestStates' /\ companionMap' \in [Parent -> SUBSET Companion]
                  BY <1>1, <2>4, <3>1, FamilyForgotten DEF OrchInv
            <3>3. /\ Bindings' /\ requestStates' \in SUBSET Req
                  /\ affinity' \in [Stage -> [Req -> Replica \cup {None}]]
                  BY <1>1, <1>2, <2>4, ForgetBindings DEF OrchInv
            <3>4. /\ told' \in [Req -> Seq({"output", "error", "fatal"})]
                  /\ told'[r] = Append(told[r], "output")
                  /\ \A d \in Req \ {r} : told'[d] = told[d]
                  BY <2>1, <2>4, TellTold DEF OrchInv, Shapes
            <3>5. Tables'
                  BY <1>1, <2>4, <3>2, <3>3, <3>4 DEF OrchInv, Shapes, Tables
            <3>6. Tells
                  BY <2>4, <3>2, <3>4, Names DEF Tells
            <3> QED BY <3>2, <3>3, <3>5, <3>6 DEF Removal
      <2> QED BY <1>3, <2>1, <2>2, <2>3, <2>4 DEF DiffusionOutput
<1>4. ASSUME poller' = At("done") \/ UNCHANGED poller,
             UNCHANGED <<told, stateVars, trackerVars, poolVars, fatalError, overtaken>>
      PROVE  Removal
      <2>1. poller' = poller \/ poller'.at # "pick"
            BY <1>4 DEF At
      <2>2. UNCHANGED <<requestStates, companionMap, affinity>>
            BY <1>4 DEF stateVars, trackerVars, poolVars
      <2> QED BY <1>1, <1>4, <1>2, <2>1, <2>2, NothingRemoved
<1>5. Removal
      BY <1>3, <1>4 DEF PollDiffusion
<1> QED BY <1>5, <1>2

LEMMA PollerPicksRemoves ==
    ASSUME OrchInv, PollerPicks
    PROVE  Removal /\ Reads
<1>1. UNCHANGED <<detached, handler, inbox, asked, companionMap, frontVars, preselected>>
      BY DEF PollerPicks, PollerFrame, trackerVars, frontVars
<1>2. StaysOnItsWay /\ Reads
      BY <1>1, NothingRead DEF Reads
<1>3. /\ poller.id \in Parent /\ poller.id \in Req /\ poller.last \in SUBSET Companion
      /\ poller.id \in requestStates \cup overtaken \/ fatalError
      BY Names DEF PollerPicks, OrchInv, Shapes, Tables, Bindings
<1>4. CASE SubmitDiffusion(poller.id, poller.last, poller.early)
      BY <1>1, <1>2, <1>3, <1>4, SubmitDiffusionRemoves
<1>5. CASE Throw("RuntimeError", poller.early) /\ UNCHANGED affinity
      <2>1. affinity' \in [Stage -> [Req -> Replica \cup {None}]]
            BY <1>5 DEF OrchInv, Shapes, Tables
      <2> QED BY <1>1, <1>2, <1>3, <1>5, <2>1, ThrowRemoves
<1> QED BY <1>2, <1>4, <1>5 DEF PollerPicks

LEMMA PollerInv == ASSUME OrchInv, Poller PROVE OrchInv'
<1>1. CASE PollerEnds
      <2>1. /\ poller' = At("done")
            /\ UNCHANGED <<told, requestStates, companionMap, affinity, overtaken, detached, fatalError,
                           handler, inbox, asked, frontVars, preselected>>
            BY <1>1 DEF PollerEnds, stateVars, trackerVars, poolVars, endVars, ghostVars, frontVars
      <2> QED BY <2>1, NothingRead, NothingRemoved, RemovalInv DEF At, Reads, Removal, OrchInv, Shapes
<1>2. CASE Removal /\ Reads
      BY <1>2, RemovalInv DEF Removal, OrchInv, Shapes
<1> QED BY <1>1, <1>2, PollLLMRemoves, PollDeadRemoves, PollDiffusionRemoves, PollerPicksRemoves DEF Poller

-----------------------------------------------------------------------------
(* The request handler, and the frontend.                                    *)

LEMMA HandlerPicksRemoves ==
    ASSUME OrchInv, HandlerPicks
    PROVE  Removal /\ Reads
<1>1. /\ UNCHANGED <<told, requestStates, companionMap, overtaken, detached, fatalError, poller, inbox, asked,
                      frontVars, preselected>>
      /\ handler.at = "pick" /\ handler'.at # "pick"
      BY DEF HandlerPicks, SubmitLLM, At, stateVars, trackerVars, ghostVars, frontVars
<1>2. StaysOnItsWay /\ Reads
      BY <1>1, NothingRead DEF Reads
<1>3. CASE affinity' = affinity
      BY <1>1, <1>2, <1>3, NothingRemoved
<1>4. ASSUME NEW replica \in Replica \cup {None}, affinity' = [affinity EXCEPT ![0][handler.id] = replica]
      PROVE  Removal
      <2>1. handler.id \in Req /\ 0 \in Stage
            BY <1>1, Names DEF OrchInv, Shapes, Tables
      <2>2. /\ affinity' \in [Stage -> [Req -> Replica \cup {None}]]
            /\ \A s \in Stage, r \in Req : affinity'[s][r] = affinity[s][r] \/ r = handler.id
            BY <1>4, <2>1 DEF OrchInv, Shapes, Tables
      <2>3. Tables'
            BY <1>1, <2>2 DEF OrchInv, Shapes, Tables
      <2>4. Bindings'
            BY <1>1, <1>2, <2>2 DEF OrchInv, Bindings, StaysOnItsWay
      <2>5. Shrinks /\ Tells
            BY <1>1 DEF Shrinks, Tells
      <2> QED BY <2>3, <2>4, <2>5 DEF Removal
<1>5. \A replica \in Serviceable(0) : replica \in Replica \cup {None}
      BY Names DEF Serviceable
<1> QED BY <1>2, <1>3, <1>4, <1>5 DEF HandlerPicks, SubmitLLM, poolVars

LEMMA HandleAbortRemoves ==
    ASSUME OrchInv, NEW p \in Parent, HandleAbort(p)
    PROVE  Removal /\ Reads
<1>1. /\ CleanupParent(p) /\ Forget(WithCompanions(p)) /\ Get("abort", p)
      /\ UNCHANGED <<told, handler, poller, detached, fatalError, asked, frontVars, preselected>>
      /\ inbox # <<>> /\ inbox' = Tail(inbox)
      BY DEF HandleAbort, Get, taskVars, endVars, frontVars
<1>2. WithCompanions(p) \cup {} = WithCompanions(p) /\ {} \in SUBSET Companion
      OBVIOUS
<1>3. Shrinks /\ p \notin requestStates' /\ companionMap' \in [Parent -> SUBSET Companion]
      BY <1>1, <1>2, FamilyForgotten DEF OrchInv
<1>4. StaysOnItsWay
      BY <1>1, HeadRead DEF OrchInv, StaysOnItsWay
<1>5. /\ Bindings' /\ requestStates' \in SUBSET Req
      /\ affinity' \in [Stage -> [Req -> Replica \cup {None}]]
      BY <1>1, <1>4, ForgetBindings DEF OrchInv
<1>6. Tables'
      BY <1>1, <1>3, <1>5 DEF OrchInv, Shapes, Tables
<1>7. Tells /\ Reads
      BY <1>1 DEF Tells, Reads
<1> QED BY <1>3, <1>5, <1>6, <1>7 DEF Removal

\* The message that was read is not there any more.
LEMMA GetReads ==
    ASSUME OrchInv, NEW op \in {"add", "companion"}, NEW r \in Req, Get(op, r),
           UNCHANGED <<asked, frontVars>>
    PROVE  /\ Reads /\ inbox[1] = Ask(op, r) /\ 1 \in 1 .. Len(inbox)
           /\ \A i \in 1 .. Len(inbox') :
                 i + 1 \in 1 .. Len(inbox) /\ inbox'[i] = inbox[i + 1] /\ inbox'[i] # Ask(op, r)
<1>1. /\ Head(inbox) = inbox[1] /\ Len(inbox) \in Nat /\ Len(inbox) >= 1
      /\ \A i \in 1 .. Len(inbox') : i + 1 \in 1 .. Len(inbox) /\ inbox'[i] = inbox[i + 1]
      BY TailSeq DEF Get, OrchInv, Shapes
<1>2. inbox[1] = Ask(op, r) /\ 1 \in 1 .. Len(inbox)
      BY <1>1 DEF Get
<1>3. ASSUME NEW i \in 1 .. Len(inbox') PROVE inbox'[i] # Ask(op, r)
      <2>1. i + 1 \in 1 .. Len(inbox) /\ i + 1 # 1 /\ inbox'[i] = inbox[i + 1]
            BY <1>1
      <2> QED BY <1>2, <2>1 DEF OrchInv, Unread
<1> QED BY <1>1, <1>2, <1>3 DEF Get, Reads

\* A request is admitted: bound at once, or waited for while its task holds it.
LEMMA AdmitTables ==
    ASSUME OrchInv, NEW r \in Req, NEW like, Admit(r, like),
           \A q \in Req : OnItsWay(q) => OnItsWay(q)' \/ q = r,
           UNCHANGED <<poller, overtaken, fatalError>>
    PROVE  /\ requestStates' = requestStates \cup {r} /\ Bindings'
           /\ affinity' \in [Stage -> [Req -> Replica \cup {None}]]
           /\ handler'.at = "pick" => handler'.id = r
<1>1. requestStates' = requestStates \cup {r}
      BY DEF Admit
<1>2. handler'.at = "pick" => handler'.id = r
      BY DEF Admit, SubmitLLM, At, Waiting
<1>3. PICK replica \in Replica \cup {None} : affinity' = [affinity EXCEPT ![0][r] = replica]
      BY Names DEF Admit, SubmitLLM, Candidates, Serviceable, OrchInv, Shapes, Tables
<1>4. /\ affinity' \in [Stage -> [Req -> Replica \cup {None}]]
      /\ \A s \in Stage, q \in Req : affinity'[s][q] = affinity[s][q] \/ q = r
      BY <1>3, Names DEF OrchInv, Shapes, Tables
<1>5. Bindings'
      BY <1>1, <1>2, <1>4 DEF OrchInv, Bindings
<1> QED BY <1>1, <1>2, <1>4, <1>5

LEMMA HandleAddInv == ASSUME OrchInv, NEW p \in Parent, HandleAdd(p) PROVE OrchInv'
<1>1. /\ Get("add", p) /\ Admit(p, None)
      /\ UNCHANGED <<asked, told, poller, companionMap, fatalError, overtaken, detached, frontVars, preselected>>
      BY DEF HandleAdd, trackerVars, ghostVars, frontVars
<1>2. p \in Req /\ \A q \in Req : OnItsWay(q) => OnItsWay(q)' \/ q = p
      BY <1>1, Names, HeadRead DEF OrchInv
<1>3. /\ requestStates' = requestStates \cup {p} /\ Bindings'
      /\ affinity' \in [Stage -> [Req -> Replica \cup {None}]]
      /\ handler'.at = "pick" => handler'.id = p
      BY <1>1, <1>2, AdmitTables
<1>4. /\ Reads /\ inbox[1] = Ask("add", p) /\ 1 \in 1 .. Len(inbox)
      /\ \A i \in 1 .. Len(inbox') :
            i + 1 \in 1 .. Len(inbox) /\ inbox'[i] = inbox[i + 1] /\ inbox'[i] # Ask("add", p)
      BY <1>1, <1>2, GetReads
<1>5. Shapes'
      BY <1>1, <1>2, <1>3, <1>4, ReadPart DEF OrchInv, Shapes, Tables
<1>6. Families'
      BY <1>1, <1>3, Names DEF OrchInv, Families, IsCompanion, Shapes, Tables
<1>7. Unread'
      <2>1. ASSUME NEW i \in 1 .. Len(inbox'), NEW q \in Parent, inbox'[i] = Ask("add", q)
            PROVE  q \notin requestStates' /\ (told'[q] = <<>> \/ q \in detached')
            <3>1. q # p
                  BY <1>4, <2>1
            <3> QED BY <1>1, <1>3, <1>4, <2>1, <3>1 DEF OrchInv, Unread
      <2>2. ASSUME NEW i \in 1 .. Len(inbox'), NEW j \in 1 .. Len(inbox'), inbox'[i] = inbox'[j]
            PROVE  i = j
            <3>1. i + 1 = j + 1
                  BY <1>4, <2>2 DEF OrchInv, Unread
            <3> QED BY <3>1
      <2>3. \A i \in 1 .. Len(inbox') : inbox'[i] \in asked'
            BY <1>1, <1>4 DEF OrchInv, Unread
      <2>4. ASSUME NEW q \in Parent, Ask("add", q) \notin asked'
            PROVE  q \notin requestStates' /\ (told'[q] = <<>> \/ q \in detached')
            <3>1. q # p
                  BY <1>1, <1>4, <2>4 DEF OrchInv, Unread
            <3> QED BY <1>1, <1>3, <2>4, <3>1 DEF OrchInv, Unread
      <2> QED BY <2>1, <2>2, <2>3, <2>4 DEF Unread
<1>8. AnsweredOnce'
      <2>1. told[p] = <<>> \/ p \in detached
            BY <1>4 DEF OrchInv, Unread
      <2> QED BY <1>1, <1>3, <2>1 DEF OrchInv, AnsweredOnce
<1>9. Preselection'
      BY <1>1 DEF OrchInv, Preselection, frontVars
<1> QED BY <1>3, <1>5, <1>6, <1>7, <1>8, <1>9 DEF OrchInv

LEMMA HandleCompanionInv == ASSUME OrchInv, NEW c \in Companion, HandleCompanion(c) PROVE OrchInv'
<1>1. /\ Get("companion", c)
      /\ UNCHANGED <<asked, told, poller, fatalError, overtaken, detached, frontVars, preselected>>
      BY DEF HandleCompanion, ghostVars, frontVars
<1>2. c \in Req /\ c \notin Parent /\ Owner[c] \in Parent
      BY Names
<1>3. Reads /\ StaysOnItsWay
      BY <1>1, HeadRead DEF Get, Reads, OrchInv, StaysOnItsWay
<1>4. CASE Owner[c] \notin requestStates
      <2>1. UNCHANGED <<handler, requestStates, affinity, companionMap>>
            BY <1>4 DEF HandleCompanion, stateVars, poolVars
      <2> QED BY <1>1, <1>3, <2>1, NothingRemoved, RemovalInv DEF Removal, OrchInv, Shapes
<1>5. CASE Owner[c] \in requestStates
      <2>1. /\ companionMap' = [companionMap EXCEPT ![Owner[c]] = @ \cup {c}]
            /\ Admit(c, Owner[c])
            BY <1>5 DEF HandleCompanion
      <2>2. /\ requestStates' = requestStates \cup {c} /\ Bindings'
            /\ affinity' \in [Stage -> [Req -> Replica \cup {None}]]
            /\ handler'.at = "pick" => handler'.id = c
            BY <1>1, <1>2, <1>3, <2>1, AdmitTables DEF StaysOnItsWay
      <2>3. /\ companionMap' \in [Parent -> SUBSET Companion] /\ c \in companionMap'[Owner[c]]
            /\ \A q \in Parent : companionMap'[q] = companionMap[q]
                                 \/ (q = Owner[c] /\ companionMap'[q] = companionMap[q] \cup {c})
            BY <1>2, <2>1 DEF OrchInv, Shapes, Tables
      <2>4. Shapes'
            BY <1>1, <1>2, <1>3, <2>2, <2>3, ReadPart DEF OrchInv, Shapes, Tables
      <2>5. Families'
            <3>1. ASSUME NEW q \in Parent, NEW e \in companionMap'[q]
                  PROVE  Owner[e] = q /\ (e \in requestStates' => q \in requestStates' \cup detached')
                  <4>1. CASE e \in companionMap[q]
                        BY <1>1, <1>5, <2>2, <4>1 DEF OrchInv, Families
                  <4>2. CASE e = c /\ q = Owner[c]
                        BY <1>5, <2>2, <4>2
                  <4> QED BY <2>3, <4>1, <4>2
            <3>2. ASSUME NEW e \in Companion, e \in requestStates' PROVE \E q \in Parent : e \in companionMap'[q]
                  <4>1. CASE e \in requestStates
                        <5>1. PICK q \in Parent : e \in companionMap[q]
                              BY <4>1 DEF OrchInv, Families, IsCompanion
                        <5> QED BY <2>3, <5>1
                  <4>2. CASE e = c
                        BY <1>2, <2>3, <4>2
                  <4> QED BY <2>2, <3>2, <4>1, <4>2
            <3> QED BY <3>1, <3>2 DEF Families, IsCompanion
      <2>6. Unread'
            <3>1. PICK d \in {0, 1} : \A i \in 1 .. Len(inbox') :
                      i + d \in 1 .. Len(inbox) /\ inbox'[i] = inbox[i + d]
                  BY <1>3, ReadPart DEF OrchInv
            <3>2. ASSUME NEW i \in 1 .. Len(inbox'), NEW j \in 1 .. Len(inbox'), inbox'[i] = inbox'[j]
                  PROVE  i = j
                  <4>1. i + d = j + d
                        BY <3>1, <3>2 DEF OrchInv, Unread
                  <4> QED BY <4>1
            <3>3. ASSUME NEW i \in 1 .. Len(inbox') PROVE inbox'[i] \in asked'
                  BY <1>1, <3>1 DEF OrchInv, Unread
            <3>4. ASSUME NEW i \in 1 .. Len(inbox'), NEW q \in Parent, inbox'[i] = Ask("add", q)
                  PROVE  q \notin requestStates' /\ (told'[q] = <<>> \/ q \in detached')
                  <4>1. q \notin requestStates /\ (told[q] = <<>> \/ q \in detached)
                        BY <3>1, <3>4 DEF OrchInv, Unread
                  <4> QED BY <1>1, <1>2, <2>2, <4>1
            <3>5. ASSUME NEW q \in Parent, Ask("add", q) \notin asked'
                  PROVE  q \notin requestStates' /\ (told'[q] = <<>> \/ q \in detached')
                  BY <1>1, <1>2, <2>2, <3>5 DEF OrchInv, Unread
            <3> QED BY <3>2, <3>3, <3>4, <3>5 DEF Unread
      <2>7. AnsweredOnce'
            BY <1>1, <1>2, <2>2 DEF OrchInv, AnsweredOnce
      <2>8. Preselection'
            BY <1>1 DEF OrchInv, Preselection, frontVars
      <2> QED BY <2>2, <2>4, <2>5, <2>6, <2>7, <2>8 DEF OrchInv
<1> QED BY <1>4, <1>5

LEMMA HandlerInv == ASSUME OrchInv, Handler PROVE OrchInv'
<1>1. CASE Removal /\ Reads
      BY <1>1, RemovalInv DEF Removal, OrchInv, Shapes
<1>2. CASE HandleShutdown
      <2>1. /\ handler' = At("done") /\ Reads
            /\ UNCHANGED <<told, requestStates, companionMap, affinity, overtaken, detached, fatalError, poller>>
            BY <1>2 DEF HandleShutdown, Get, Reads, stateVars, trackerVars, poolVars, ghostVars
      <2>2. StaysOnItsWay
            BY <1>2, HeadRead DEF HandleShutdown, frontVars, OrchInv, StaysOnItsWay
      <2> QED BY <1>1, <2>1, <2>2, NothingRemoved DEF At
<1> QED BY <1>1, <1>2, HandleAddInv, HandleCompanionInv, HandleAbortRemoves, HandlerPicksRemoves DEF Handler

LEMMA PutUnread ==
    ASSUME OrchInv, NEW m \in Messages, Put(m)
    PROVE  /\ inbox' \in Seq(Messages) /\ Unread'
           /\ ToSet(inbox') = ToSet(inbox) \cup {m}
<1>1. /\ m \notin asked /\ asked' = asked \cup {m} /\ inbox' = Append(inbox, m)
      /\ UNCHANGED <<told, requestStates, detached>>
      BY DEF Put, stateVars, ghostVars
<1>2. /\ inbox' \in Seq(Messages) /\ Len(inbox') = Len(inbox) + 1 /\ Len(inbox) \in Nat
      /\ \A k \in 1 .. Len(inbox) : inbox'[k] = inbox[k] /\ inbox[k] # m
      /\ inbox'[Len(inbox) + 1] = m
      BY <1>1, AppendSeq DEF OrchInv, Shapes, Unread
<1>3. \A k \in 1 .. Len(inbox') : k \in 1 .. Len(inbox) \/ k = Len(inbox) + 1
      BY <1>2
<1>4. ToSet(inbox') = ToSet(inbox) \cup {m}
      <2>1. DOMAIN inbox = 1 .. Len(inbox) /\ DOMAIN inbox' = 1 .. Len(inbox')
            BY <1>2, LenProperties DEF OrchInv, Shapes
      <2>2. 1 .. Len(inbox) \subseteq 1 .. Len(inbox') /\ Len(inbox) + 1 \in 1 .. Len(inbox')
            BY <1>2
      <2> QED BY <1>2, <1>3, <2>1, <2>2 DEF ToSet
<1>5. Unread'
      <2>1. \A i \in 1 .. Len(inbox') : inbox'[i] \in asked'
            BY <1>1, <1>2, <1>3 DEF OrchInv, Unread
      <2>2. \A i, j \in 1 .. Len(inbox') : inbox'[i] = inbox'[j] => i = j
            BY <1>2, <1>3 DEF OrchInv, Unread
      <2>3. ASSUME NEW i \in 1 .. Len(inbox'), NEW q \in Parent, inbox'[i] = Ask("add", q)
            PROVE  q \notin requestStates' /\ (told'[q] = <<>> \/ q \in detached')
            <3>1. (i \in 1 .. Len(inbox) /\ inbox[i] = Ask("add", q)) \/ m = Ask("add", q)
                  BY <1>2, <1>3, <2>3
            <3> QED BY <1>1, <3>1 DEF OrchInv, Unread
      <2>4. \A q \in Parent : Ask("add", q) \notin asked' =>
               q \notin requestStates' /\ (told'[q] = <<>> \/ q \in detached')
            BY <1>1 DEF OrchInv, Unread
      <2> QED BY <2>1, <2>2, <2>3, <2>4 DEF Unread
<1> QED BY <1>2, <1>4, <1>5

\* What is put touches no table, and takes nobody off its way.
LEMMA PutInv ==
    ASSUME OrchInv, NEW m \in Messages, Put(m), StaysOnItsWay,
           preselected' \in SUBSET preselected,
           \A q \in Parent : m = Ask("add", q) => selecting[q] = None /\ q \notin preselected'
    PROVE  OrchInv'
<1>1. /\ asked' = asked \cup {m}
      /\ UNCHANGED <<told, requestStates, companionMap, affinity, overtaken, detached, fatalError,
                     handler, poller, selecting>>
      BY DEF Put, taskVars, stateVars, trackerVars, poolVars, endVars, ghostVars
<1>2. inbox' \in Seq(Messages) /\ Unread'
      BY PutUnread
<1>3. Shapes' /\ Families' /\ AnsweredOnce'
      BY <1>1, <1>2 DEF OrchInv, Shapes, Tables, Families, IsCompanion, AnsweredOnce
<1>4. Bindings'
      BY <1>1 DEF OrchInv, Bindings, StaysOnItsWay
<1>5. Preselection'
      BY <1>1 DEF OrchInv, Preselection
<1> QED BY <1>2, <1>3, <1>4, <1>5 DEF OrchInv

\* A request is bound, or released, by the thread that is about to add it.
LEMMA RebindInv ==
    ASSUME OrchInv, NEW p \in Parent, NEW replica \in Replica \cup {None},
           affinity' = [affinity EXCEPT ![0][p] = replica], replica # None => p \in preselected',
           \A q \in Parent \ {p} : q \in preselected => q \in preselected',
           UNCHANGED <<told, requestStates, companionMap, overtaken, detached, fatalError, handler, poller,
                       inbox, asked>>,
           Preselection'
    PROVE  OrchInv'
<1>1. /\ affinity' \in [Stage -> [Req -> Replica \cup {None}]]
      /\ \A s \in Stage, q \in Req : affinity'[s][q] = affinity[s][q] \/ (s = 0 /\ q = p)
      /\ affinity'[0][p] = replica
      BY Names DEF OrchInv, Shapes, Tables
<1>2. \A q \in Req : q # p /\ OnItsWay(q) => OnItsWay(q)'
      BY DEF OnItsWay, OrchInv, Preselection
<1>3. Shapes' /\ Families' /\ Unread' /\ AnsweredOnce'
      BY <1>1 DEF OrchInv, Shapes, Tables, Families, IsCompanion, Unread, AnsweredOnce
<1>4. ASSUME ~fatalError, NEW s \in Stage, NEW q \in Req, affinity'[s][q] # None
      PROVE  q \in requestStates \cup overtaken \/ (s = 0 /\ OnItsWay(q)')
      <2>1. CASE s = 0 /\ q = p
            BY <1>1, <1>4, <2>1 DEF OnItsWay
      <2>2. CASE affinity'[s][q] = affinity[s][q] /\ q # p
            BY <1>2, <1>4, <2>2 DEF OrchInv, Bindings
      <2>3. CASE affinity'[s][q] = affinity[s][q] /\ s # 0
            BY <1>4, <2>3 DEF OrchInv, Bindings
      <2> QED BY <1>1, <2>1, <2>2, <2>3
<1>5. Bindings'
      BY <1>4 DEF OrchInv, Bindings
<1> QED BY <1>3, <1>5 DEF OrchInv

LEMMA FrontendInv == ASSUME OrchInv, Frontend PROVE OrchInv'
<1>1. ASSUME NEW m \in Messages, Put(m), UNCHANGED preselected,
             \A q \in Parent : m # Ask("add", q)
      PROVE  OrchInv'
      <2>1. StaysOnItsWay
            BY <1>1, PutUnread DEF StaysOnItsWay, OnItsWay
      <2> QED BY <1>1, <2>1, PutInv
<1>2. ASSUME NEW p \in Parent, AddRequest(p) PROVE OrchInv'
      <2>1. /\ Put(Ask("add", p)) /\ selecting[p] = None /\ preselected' = preselected \ {p}
            /\ Ask("add", p) \in Messages
            BY <1>2, AskIsMessage, Names DEF AddRequest
      <2>2. StaysOnItsWay
            BY <2>1, PutUnread DEF StaysOnItsWay, OnItsWay
      <2>3. \A q \in Parent : Ask("add", p) = Ask("add", q) => q = p
            BY DEF Ask
      <2> QED BY <2>1, <2>2, <2>3, PutInv
<1>3. ASSUME NEW p \in Parent, SelectReplica(p) PROVE OrchInv'
      <2>1. /\ UNCHANGED <<told, requestStates, companionMap, affinity, overtaken, detached, fatalError, handler,
                            poller, inbox, asked, preselected>>
            /\ Ask("add", p) \notin asked
            /\ \E replica \in Candidates(0, p, None) : selecting' = [selecting EXCEPT ![p] = replica]
            BY <1>3 DEF SelectReplica, taskVars, stateVars, trackerVars, poolVars, endVars, ghostVars
      <2>2. Candidates(0, p, None) \subseteq Replica0
            BY DEF Candidates, Serviceable
      <2>3. Preselection'
            BY <2>1, <2>2 DEF OrchInv, Preselection
      <2>4. StaysOnItsWay
            BY <2>1, NothingRead
      <2> QED BY <2>1, <2>3, <2>4 DEF OrchInv, Shapes, Tables, Bindings, StaysOnItsWay, Families, IsCompanion,
                 Unread, AnsweredOnce
<1>4. ASSUME NEW p \in Parent, BindSelected(p) PROVE OrchInv'
      <2>1. /\ UNCHANGED <<told, requestStates, companionMap, overtaken, detached, fatalError, handler, poller,
                            inbox, asked>>
            /\ affinity' = [affinity EXCEPT ![0][p] = selecting[p]] /\ selecting[p] # None
            /\ selecting' = [selecting EXCEPT ![p] = None] /\ preselected' = preselected \cup {p}
            BY <1>4 DEF BindSelected, taskVars, stateVars, trackerVars, endVars, ghostVars
      <2>2. selecting[p] \in Replica \cup {None}
            BY Names DEF OrchInv, Preselection
      <2>3. Preselection'
            BY <2>1 DEF OrchInv, Preselection
      <2> QED BY <2>1, <2>2, <2>3, RebindInv
<1>5. ASSUME NEW p \in Parent, PreprocessingFails(p) PROVE OrchInv'
      <2>1. /\ UNCHANGED <<told, requestStates, companionMap, overtaken, detached, fatalError, handler, poller,
                            inbox, asked, selecting>>
            /\ affinity' = [affinity EXCEPT ![0][p] = None] /\ preselected' = preselected \ {p}
            BY <1>5 DEF PreprocessingFails, taskVars, stateVars, trackerVars, endVars, ghostVars
      <2>2. Preselection'
            BY <2>1 DEF OrchInv, Preselection
      <2> QED BY <2>1, <2>2, RebindInv
<1> QED BY <1>1, <1>2, <1>3, <1>4, <1>5, AskIsMessage, Names DEF Frontend, AddCompanion, AbortRequest, Shutdown, Ask

-----------------------------------------------------------------------------
(* The hub, the membership watcher, the engines, and the end of run().       *)

LEMMA ReplicaLostRemoves ==
    ASSUME OrchInv, NEW replica \in Replica, ReplicaLost(replica)
    PROVE  Removal /\ Reads
<1> DEFINE s == IF replica = D THEN 1 ELSE 0
           affected == {r \in Req : affinity[s][r] = replica}
<1>1. /\ told' = [r \in Req |-> IF r \in affected THEN Append(told[r], "error") ELSE told[r]]
      /\ detached' = detached \cup affected /\ Forget(affected)
      /\ UNCHANGED <<inbox, asked, handler, poller, companionMap, fatalError, frontVars, preselected>>
      BY DEF ReplicaLost, taskVars, trackerVars, endVars, frontVars
<1> HIDE DEF affected
<1>2. \A r \in Req : told[r] \in Seq({"output", "error", "fatal"})
                     /\ Append(told[r], "error") \in Seq({"output", "error", "fatal"})
      BY AppendSeq DEF OrchInv, Shapes, Tables
<1>3. told' \in [Req -> Seq({"output", "error", "fatal"})]
      BY <1>1, <1>2
<1>4. /\ Bindings' /\ requestStates' \in SUBSET Req
      /\ affinity' \in [Stage -> [Req -> Replica \cup {None}]]
      BY <1>1, NothingRead, ForgetBindings DEF OrchInv
<1>5. Tables'
      BY <1>1, <1>3, <1>4 DEF OrchInv, Shapes, Tables
<1>6. Shrinks
      BY <1>1 DEF Shrinks, Forget
<1>7. Tells
      BY <1>1, Names DEF Tells
<1> QED BY <1>1, <1>4, <1>5, <1>6, <1>7 DEF Removal, Reads

\* After a fatal error whoever is tracked, or is still to be read, is told, and
\* nobody is tracked any more.
LEMMA FinishInv == ASSUME OrchInv, Finish PROVE OrchInv'
<1>1. /\ handler' = At("done") /\ poller' = At("done")
      /\ UNCHANGED <<asked, companionMap, affinity, overtaken, detached, fatalError, frontVars, preselected>>
      BY DEF Finish, trackerVars, poolVars, ghostVars, frontVars
<1>2. CASE ~fatalError
      <2>1. UNCHANGED <<told, inbox, requestStates>>
            BY <1>2 DEF Finish
      <2> QED BY <1>1, <2>1, NothingRead, NothingRemoved, RemovalInv DEF At, Reads, Removal, OrchInv, Shapes
<1>3. CASE fatalError
      <2> DEFINE heard == {r \in Req : \E i \in DOMAIN inbox : inbox[i] = Ask("add", r)} \cup requestStates
      <2>1. /\ told' = [r \in Req |-> IF r \in heard THEN Append(told[r], "fatal") ELSE told[r]]
            /\ inbox' = <<>> /\ requestStates' = {}
            BY <1>3 DEF Finish
      <2>2. \A q \in Parent : q \in heard => told[q] = <<>> \/ q \in overtaken \cup detached
            <3>1. DOMAIN inbox = 1 .. Len(inbox)
                  BY LenProperties DEF OrchInv, Shapes
            <3>2. \A q \in Parent : q \in requestStates => told[q] = <<>> \/ q \in overtaken \cup detached
                  BY DEF OrchInv, AnsweredOnce
            <3> QED BY <3>1, <3>2 DEF OrchInv, Unread
      <2>3. \A q \in Parent : Ask("add", q) \notin asked => q \notin heard
            <3>1. DOMAIN inbox = 1 .. Len(inbox)
                  BY LenProperties DEF OrchInv, Shapes
            <3> QED BY <3>1 DEF OrchInv, Unread
      <2> HIDE DEF heard
      <2>4. \A r \in Req : told[r] \in Seq({"output", "error", "fatal"})
                           /\ Append(told[r], "fatal") \in Seq({"output", "error", "fatal"})
            BY AppendSeq DEF OrchInv, Shapes, Tables
      <2>5. told' \in [Req -> Seq({"output", "error", "fatal"})]
            BY <2>1, <2>4
      <2>6. Shapes'
            BY <1>1, <2>1, <2>5, EmptySeq DEF At, OrchInv, Shapes, Tables
      <2>7. Bindings' /\ Families'
            BY <1>1, <1>3, <2>1 DEF OrchInv, Bindings, Families
      <2>8. Unread'
            BY <1>1, <2>1, <2>3, Names, EmptySeq DEF OrchInv, Unread
      <2>9. AnsweredOnce'
            <3> SUFFICES ASSUME NEW q \in Parent, q \notin overtaken, q \notin detached
                         PROVE  Len(told'[q]) <= 1
                  BY <1>1, <2>1 DEF AnsweredOnce
            <3>1. CASE q \in heard
                  <4>1. told[q] = <<>> /\ told'[q] = Append(told[q], "fatal")
                        BY <2>1, <2>2, <3>1, Names
                  <4> QED BY <4>1
            <3>2. CASE q \notin heard
                  BY <2>1, <3>2, Names DEF OrchInv, AnsweredOnce
            <3> QED BY <3>1, <3>2
      <2>10. Preselection'
            BY <1>1 DEF OrchInv, Preselection, frontVars
      <2> QED BY <2>6, <2>7, <2>8, <2>9, <2>10 DEF OrchInv
<1> QED BY <1>2, <1>3

-----------------------------------------------------------------------------
LEMMA OrchInitInv == OrchInit => OrchInv
<1> SUFFICES ASSUME OrchInit PROVE OrchInv
      OBVIOUS
<1>1. \A S : <<>> \in Seq(S)
      BY EmptySeq
<1>2. Shapes
      BY <1>1, Names DEF OrchInit, At, Shapes, Tables
<1>3. Bindings /\ Families
      BY DEF OrchInit, At, Bindings, Families
<1>4. Unread /\ Preselection /\ AnsweredOnce
      BY Names DEF OrchInit, Unread, Preselection, AnsweredOnce
<1> QED BY <1>2, <1>3, <1>4 DEF OrchInv

LEMMA OrchStepInv == OrchInv /\ [OrchNext]_orchVars => OrchInv'
<1> SUFFICES ASSUME OrchInv, [OrchNext]_orchVars PROVE OrchInv'
      OBVIOUS
<1>1. CASE UNCHANGED <<told, requestStates, companionMap, affinity, overtaken, detached, fatalError,
                       handler, poller, inbox, asked, frontVars>>
      BY <1>1, NothingRead, NothingRemoved, RemovalInv DEF Reads, Removal, OrchInv, Shapes, frontVars
<1>2. CASE \E replica \in Replica : HubChanges(replica) \/ CoreDies(replica)
      BY <1>1, <1>2 DEF HubChanges, CoreDies, taskVars, stateVars, trackerVars, poolVars, endVars, ghostVars
<1>3. CASE Process
      BY <1>1, <1>3 DEF Process, taskVars, stateVars, trackerVars, poolVars, endVars, ghostVars
<1>4. CASE UNCHANGED orchVars
      BY <1>1, <1>4 DEF orchVars, taskVars, stateVars, trackerVars, poolVars, endVars, ghostVars
<1>5. CASE \E replica \in Replica : ReplicaLost(replica)
      BY <1>5, ReplicaLostRemoves, RemovalInv DEF Removal, OrchInv, Shapes
<1> QED BY <1>2, <1>3, <1>4, <1>5, FrontendInv, HandlerInv, PollerInv, FinishInv DEF OrchNext

\* A request is told its end once, and is not tracked any longer then, but for
\* those forgotten while their submission waited and those the watcher cleaned
\* up (_handle_stage_error, _handle_processed_outputs, _drain_requests_on_fatal).
THEOREM RequestsAnsweredOnce == OrchSafety => []AnsweredOnce
<1>1. OrchInv => AnsweredOnce
      BY DEF OrchInv
<1> QED BY <1>1, OrchInitInv, OrchStepInv, PTL DEF OrchSafety

\* No pool keeps a binding of a request that is neither tracked nor on its way
\* from the thread that preselected the replica, but for one that was forgotten
\* while its submission waited (StagePool.release_binding).
THEOREM NoStrayBindings == OrchSafety => []BindingsAccounted
<1>1. OrchInv => BindingsAccounted
      BY DEF OrchInv, Bindings, BindingsAccounted
<1> QED BY <1>1, OrchInitInv, OrchStepInv, PTL DEF OrchSafety

-----------------------------------------------------------------------------
(* The shapes that Tables leaves out, by who keeps them.                      *)

TrackTypes ==
    /\ asked \in SUBSET Messages /\ stageSubmitTs \in [Req -> SUBSET Stage]
    /\ companionsDone \in SUBSET Companion /\ pendingParents \in SUBSET Parent
    /\ companionOutputs \in SUBSET Companion /\ bundled \in [Parent -> SUBSET Companion]
    /\ overtaken \in SUBSET Req /\ detached \in SUBSET Req

TaskTypes ==
    /\ handler \in Tasks({"get", "pick", "done"}) /\ poller \in Tasks({"poll", "pick", "done"})
    /\ shutdown \in BOOLEAN /\ raised \in {"no", "EngineDead", "RuntimeError"}
    /\ fatalError \in BOOLEAN /\ ended \in BOOLEAN

FleetTypes ==
    /\ core \in [Req -> Replica0 \cup {None}] /\ coreDead \in SUBSET Replica0
    /\ up \in SUBSET Replica /\ attached \in SUBSET Replica

ClientMessages == [type : {"add", "abort"}, ids : SUBSET Req]

\* The sentinel is the last frame of a dead process, so that what a drain takes
\* before it is all results and errors.
ClientTypes ==
    /\ requestPipe \in Seq(ClientMessages)
    /\ responsePipe \in Seq(Replies \cup {Sentinel}) /\ outputQueue \in Seq(Replies)
    /\ \A i \in 1 .. Len(responsePipe) :
          responsePipe[i] = Sentinel => i = Len(responsePipe) /\ proc = "dead"
    /\ procTasks \in SUBSET Req /\ proc \in {"up", "failing", "dead"}
    /\ exitcode \in {"none", "failure", "any"} /\ engineDead \in BOOLEAN /\ shuttingDown \in BOOLEAN

\* A request that fails takes its family with it.
LEMMA StageErrorFamily ==
    ASSUME OrchInv, NEW r \in Req, r \in requestStates, StageError(r)
    PROVE  \E p \in Parent :
              /\ Tell(p, "error") /\ CleanupParent(p)
              /\ AbortIds(WithCompanions(p)) /\ Forget(WithCompanions(p))
              /\ r \in WithCompanions(p)
              /\ UNCHANGED <<poller, stageSubmitTs, raised, shutdown, fatalError>>
<1>1. CASE IsCompanion(r)
      <2>1. PICK q \in Parent : r \in companionMap[q]
            BY <1>1 DEF IsCompanion
      <2>2. Owner[r] = q
            BY <2>1 DEF OrchInv, Families
      <2> QED BY <1>1, <2>1, <2>2 DEF StageError, WithCompanions
<1>2. CASE ~IsCompanion(r)
      <2>1. r \in Parent
            BY <1>2, OrchAssumption DEF OrchInv, Families
      <2> QED BY <1>2, <2>1 DEF StageError, WithCompanions
<1> QED BY <1>1, <1>2

\* The frontend puts messages and binds requests, and leaves the rest alone.
LEMMA FrontendFrame ==
    ASSUME Frontend
    PROVE  /\ UNCHANGED <<told, taskVars, stateVars, trackerVars, core, hubVars, endVars, ghostVars, clientVars>>
           /\ asked' = asked \/ \E m \in Messages : Put(m)
BY AskIsMessage, Names DEF Frontend, AddRequest, AddCompanion, AbortRequest, Shutdown, SelectReplica, BindSelected,
   PreprocessingFails, Put, poolVars

\* The companion that is done is one of its parent's.
LEMMA DoneOwner ==
    ASSUME OrchInv, NEW r \in Req, IsCompanion(r)
    PROVE  r \in Companion /\ Owner[r] \in Parent /\ r \in companionMap[Owner[r]]
<1>1. PICK q \in Parent : r \in companionMap[q]
      BY DEF IsCompanion
<1> QED BY <1>1 DEF OrchInv, Families, Shapes, Tables

LEMMA FamilyTypes ==
    ASSUME OrchInv, NEW p \in Parent
    PROVE  WithCompanions(p) \in SUBSET Req /\ companionMap[p] \in SUBSET Companion
BY Names DEF OrchInv, Shapes, Tables, WithCompanions

-----------------------------------------------------------------------------
(* What the tracker and the maps of the orchestrator hold.                    *)

\* Of a family that is forgotten.
LEMMA ForgottenTrack ==
    ASSUME OrchInv, TrackTypes, NEW p \in Parent, NEW last \in SUBSET Companion, CleanupParent(p),
           Forget(WithCompanions(p) \cup last), UNCHANGED <<asked, stageSubmitTs, detached>>
    PROVE  TrackTypes'
<1>1. WithCompanions(p) \cup last \in SUBSET Req
      BY FamilyTypes, Names
<1> QED BY <1>1 DEF TrackTypes, CleanupParent, Forget

LEMMA ThrowTrack ==
    ASSUME OrchInv, TrackTypes, NEW e, NEW early, Throw(e, early)
    PROVE  overtaken' \in SUBSET Req
BY DEF Throw, StageDies, TrackTypes, OrchInv, Shapes, Tables

LEMMA SubmittedTrack ==
    ASSUME OrchInv, TrackTypes, NEW p \in Parent, NEW last \in SUBSET Companion, NEW early,
           SubmitDiffusion(p, last, early)
    PROVE  stageSubmitTs' \in [Req -> SUBSET Stage] /\ overtaken' \in SUBSET Req
<1>1. p \in Req /\ last \in SUBSET Req /\ 1 \in Stage
      BY Names
<1>2. CASE Throw("EngineDead", early) /\ UNCHANGED stageSubmitTs
      BY <1>2, ThrowTrack DEF TrackTypes
<1>3. CASE ~engineDead /\ stageSubmitTs' = [stageSubmitTs EXCEPT ![p] = @ \cup {1}]
           /\ overtaken' = overtaken \cup (last \cap InSubmission)
      BY <1>1, <1>3 DEF TrackTypes
<1> QED BY <1>2, <1>3 DEF SubmitDiffusion

LEMMA ForwardTrack ==
    ASSUME OrchInv, TrackTypes, NEW p \in Parent, NEW done \in SUBSET Companion, NEW early \in BOOLEAN,
           Forward(p, done, early), UNCHANGED <<asked, detached>>
    PROVE  TrackTypes'
<1> DEFINE last == IF early THEN {} ELSE done
<1>1. last \in SUBSET Companion
      OBVIOUS
<1> HIDE DEF last
<1>2. CASE CleanupParent(p) /\ Forget(WithCompanions(p) \cup last) /\ UNCHANGED stageSubmitTs
      BY <1>1, <1>2, ForgottenTrack
<1>3. CASE /\ companionOutputs' \subseteq companionOutputs \cup last
           /\ \/ UNCHANGED bundled
              \/ bundled' = [bundled EXCEPT ![p] = (companionOutputs \cup last) \cap companionMap[p]]
           /\ companionsDone' = companionsDone \cup done
           /\ pendingParents' = pendingParents \ {p}
           /\ \/ SubmitDiffusion(p, last, early)
              \/ Throw("RuntimeError", early) /\ UNCHANGED stageSubmitTs
              \/ UNCHANGED <<stateVars, overtaken>>
      <2>1. stageSubmitTs' \in [Req -> SUBSET Stage] /\ overtaken' \in SUBSET Req
            BY <1>1, <1>3, SubmittedTrack, ThrowTrack DEF stateVars, TrackTypes
      <2>2. bundled' \in [Parent -> SUBSET Companion]
            BY <1>1, <1>3, FamilyTypes DEF TrackTypes
      <2> QED BY <1>1, <1>3, <2>1, <2>2 DEF TrackTypes
<1> QED BY <1>2, <1>3 DEF Forward, PopOutputs, last

LEMMA PollLLMTrack ==
    ASSUME OrchInv, TrackTypes, NEW r \in Req, PollLLM(r)
    PROVE  TrackTypes'
<1>1. UNCHANGED <<asked, detached>>
      BY DEF PollLLM, PollerFrame
<1>2. CASE UNCHANGED Dropped
      BY <1>1, <1>2 DEF Dropped, stateVars, trackerVars, TrackTypes
<1>3. CASE r \in requestStates /\ StageError(r)
      <2>1. PICK p \in Parent : /\ CleanupParent(p) /\ Forget(WithCompanions(p)) /\ UNCHANGED stageSubmitTs
            BY <1>3, StageErrorFamily
      <2>2. WithCompanions(p) \cup {} = WithCompanions(p) /\ {} \in SUBSET Companion
            OBVIOUS
      <2> QED BY <1>1, <2>1, <2>2, ForgottenTrack
<1>4. ASSUME NEW early \in BOOLEAN, IsCompanion(r), CompanionDone(r, early) PROVE TrackTypes'
      <2>1. r \in Companion /\ Owner[r] \in Parent /\ {r} \in SUBSET Companion /\ {r} \in SUBSET Req
            BY <1>4, DoneOwner
      <2>2. CASE Forward(Owner[r], {r}, early)
            BY <1>1, <2>1, <2>2, ForwardTrack
      <2>3. ASSUME NEW output \in SUBSET {r}, companionOutputs' = companionOutputs \cup output, Forget(output),
                   companionsDone' = companionsDone \cup {r},
                   pendingParents' \in {pendingParents, pendingParents \ {Owner[r]}},
                   UNCHANGED <<stageSubmitTs, bundled>>
            PROVE  TrackTypes'
            BY <1>1, <2>1, <2>3 DEF TrackTypes, Forget
      <2>4. (IF early THEN {} ELSE {r}) \in SUBSET {r}
            OBVIOUS
      <2> QED BY <1>4, <2>2, <2>3, <2>4 DEF CompanionDone
<1>5. ASSUME NEW early \in BOOLEAN, r \in requestStates, ~IsCompanion(r), ParentDone(r, early) PROVE TrackTypes'
      <2>1. r \in Parent /\ {} \in SUBSET Companion
            BY <1>5, OrchAssumption DEF OrchInv, Families
      <2>2. CASE Forward(r, {}, early)
            BY <1>1, <2>1, <2>2, ForwardTrack
      <2>3. CASE /\ pendingParents' = pendingParents \cup {r}
                 /\ UNCHANGED <<stateVars, companionsDone, companionOutputs, bundled, overtaken>>
            BY <1>1, <2>1, <2>3 DEF TrackTypes, stateVars
      <2> QED BY <1>2, <1>5, <2>2, <2>3 DEF ParentDone
<1> QED BY <1>2, <1>3, <1>4, <1>5 DEF PollLLM

LEMMA PollDiffusionTrack ==
    ASSUME OrchInv, TrackTypes, PollDiffusion
    PROVE  TrackTypes'
<1>1. UNCHANGED <<asked, detached>>
      BY DEF PollDiffusion, PollerFrame
<1>2. ASSUME NEW r \in Parent, NEW kind \in {"result", "error"}, DiffusionOutput(Reply(r, kind))
      PROVE  TrackTypes'
      <2>1. Reply(r, kind).id = r /\ r \in Req
            BY Names DEF Reply
      <2>2. CASE UNCHANGED Dropped
            BY <1>1, <2>2 DEF Dropped, stateVars, trackerVars, TrackTypes
      <2>3. CASE \E p \in Parent : CleanupParent(p) /\ Forget(WithCompanions(p)) /\ UNCHANGED stageSubmitTs
            <3>1. PICK p \in Parent : CleanupParent(p) /\ Forget(WithCompanions(p)) /\ UNCHANGED stageSubmitTs
                  BY <2>3
            <3>2. WithCompanions(p) \cup {} = WithCompanions(p) /\ {} \in SUBSET Companion
                  OBVIOUS
            <3> QED BY <1>1, <3>1, <3>2, ForgottenTrack
      <2>4. CASE r \in requestStates /\ StageError(r)
            BY <2>1, <2>3, <2>4, StageErrorFamily
      <2> QED BY <1>2, <2>1, <2>2, <2>3, <2>4 DEF DiffusionOutput
<1>3. CASE UNCHANGED <<stateVars, trackerVars, overtaken>>
      BY <1>1, <1>3 DEF stateVars, trackerVars, TrackTypes
<1> QED BY <1>2, <1>3 DEF PollDiffusion

LEMMA TrackTypesStep == ASSUME OrchInv, TrackTypes, [OrchNext]_orchVars PROVE TrackTypes'
<1>1. CASE UNCHANGED <<asked, stageSubmitTs, trackerVars, ghostVars>>
      BY <1>1 DEF trackerVars, ghostVars, TrackTypes
<1>2. ASSUME NEW m \in Messages, Put(m) PROVE TrackTypes'
      BY <1>2 DEF Put, stateVars, trackerVars, ghostVars, TrackTypes
<1>3. CASE Frontend
      BY <1>1, <1>2, <1>3, FrontendFrame DEF stateVars
<1>4. ASSUME NEW r \in Req, NEW like, Admit(r, like),
             UNCHANGED <<asked, companionsDone, pendingParents, companionOutputs, bundled, ghostVars>>
      PROVE  TrackTypes'
      BY <1>4, Names DEF Admit, ghostVars, TrackTypes
<1>5. CASE Handler
      <2>1. CASE \E p \in Parent : HandleAdd(p)
            BY <1>4, <2>1, Names DEF HandleAdd, trackerVars
      <2>2. CASE \E p \in Parent : HandleAbort(p)
            <3>1. PICK p \in Parent : HandleAbort(p)
                  BY <2>2
            <3>2. WithCompanions(p) \cup {} = WithCompanions(p) /\ {} \in SUBSET Companion
                  OBVIOUS
            <3> QED BY <3>1, <3>2, ForgottenTrack DEF HandleAbort
      <2>3. CASE \E c \in Companion : HandleCompanion(c)
            <3>1. PICK c \in Companion : HandleCompanion(c)
                  BY <2>3
            <3>2. CASE UNCHANGED stateVars
                  BY <3>1, <3>2 DEF HandleCompanion, stateVars, ghostVars, TrackTypes
            <3>3. CASE Admit(c, Owner[c])
                  BY <1>4, <3>1, <3>3, Names DEF HandleCompanion
            <3> QED BY <3>1, <3>2, <3>3 DEF HandleCompanion
      <2>4. CASE HandlerPicks \/ HandleShutdown
            BY <1>1, <2>4 DEF HandlerPicks, HandleShutdown, stateVars
      <2> QED BY <1>5, <2>1, <2>2, <2>3, <2>4 DEF Handler
<1>6. CASE Poller
      <2>1. CASE PollDead
            BY <2>1 DEF PollDead, StageDies, trackerVars, TrackTypes, OrchInv, Shapes, Tables
      <2>2. CASE PollerPicks
            <3>1. /\ poller.id \in Parent /\ poller.last \in SUBSET Companion
                  /\ UNCHANGED <<asked, trackerVars, detached>>
                  BY <2>2 DEF PollerPicks, PollerFrame, OrchInv, Shapes, Tables
            <3>2. stageSubmitTs' \in [Req -> SUBSET Stage] /\ overtaken' \in SUBSET Req
                  BY <2>2, <3>1, SubmittedTrack, ThrowTrack DEF PollerPicks, TrackTypes
            <3> QED BY <3>1, <3>2 DEF trackerVars, TrackTypes
      <2>3. CASE PollerEnds
            BY <1>1, <2>3 DEF PollerEnds, stateVars
      <2> QED BY <1>6, <2>1, <2>2, <2>3, PollLLMTrack, PollDiffusionTrack DEF Poller
<1>7. CASE \E replica \in Replica : ReplicaLost(replica)
      BY <1>7 DEF ReplicaLost, Forget, trackerVars, TrackTypes
<1>8. CASE \/ Process \/ Finish
           \/ \E replica \in Replica : HubChanges(replica) \/ CoreDies(replica)
      BY <1>1, <1>8 DEF Process, Finish, HubChanges, CoreDies, stateVars
<1>9. CASE UNCHANGED orchVars
      BY <1>1, <1>9 DEF orchVars, stateVars
<1> QED BY <1>3, <1>5, <1>6, <1>7, <1>8, <1>9 DEF OrchNext

-----------------------------------------------------------------------------
(* What the two tasks, and the end of run(), hold.                            *)

LEMMA RaiseType ==
    ASSUME raised \in {"no", "EngineDead", "RuntimeError"}, NEW e \in {"EngineDead", "RuntimeError"}, Raise(e)
    PROVE  raised' \in {"no", "EngineDead", "RuntimeError"} /\ raised' # "no"
BY DEF Raise

LEMMA TaskPlaces ==
    /\ At("get") \in Tasks({"get", "pick", "done"}) /\ At("poll") \in Tasks({"poll", "pick", "done"})
    /\ At("done") \in Tasks({"get", "pick", "done"}) /\ At("done") \in Tasks({"poll", "pick", "done"})
    /\ \A r \in Req, last \in SUBSET Companion, early \in BOOLEAN :
          /\ Waiting(r, last, early) \in Tasks({"get", "pick", "done"})
          /\ Waiting(r, last, early) \in Tasks({"poll", "pick", "done"})
BY DEF At, Waiting, Tasks

LEMMA SubmitLLMTask ==
    ASSUME TaskTypes, NEW r, NEW replica, SubmitLLM(r, replica)
    PROVE  /\ handler' \in Tasks({"get", "pick", "done"})
           /\ raised' \in {"no", "EngineDead", "RuntimeError"}
BY TaskPlaces, RaiseType DEF SubmitLLM, TaskTypes

\* How the output handler comes out of what it does.
PollerCheck ==
    /\ poller' \in Tasks({"poll", "pick", "done"})
    /\ raised' \in {"no", "EngineDead", "RuntimeError"}
    /\ shutdown' \in BOOLEAN /\ fatalError' \in BOOLEAN

LEMMA StageDiesTask == ASSUME TaskTypes, StageDies PROVE PollerCheck
BY TaskPlaces, RaiseType DEF StageDies, TaskTypes, PollerCheck

LEMMA ThrowTask ==
    ASSUME TaskTypes, NEW e \in {"EngineDead", "RuntimeError"}, NEW early, Throw(e, early)
    PROVE  PollerCheck
<1>1. CASE StageDies
      BY <1>1, StageDiesTask
<1>2. CASE /\ poller' = At("done") /\ (UNCHANGED raised \/ Raise(e))
           /\ UNCHANGED <<fatalError, shutdown>>
      BY <1>2, TaskPlaces, RaiseType DEF TaskTypes, PollerCheck
<1> QED BY <1>1, <1>2 DEF Throw

LEMMA SubmitDiffusionTask ==
    ASSUME TaskTypes, NEW p, NEW last, NEW early, SubmitDiffusion(p, last, early)
    PROVE  PollerCheck
<1>1. CASE Throw("EngineDead", early)
      BY <1>1, ThrowTask
<1>2. CASE poller' = At("poll") /\ UNCHANGED <<raised, fatalError, shutdown>>
      BY <1>2, TaskPlaces DEF TaskTypes, PollerCheck
<1> QED BY <1>1, <1>2 DEF SubmitDiffusion

LEMMA ForwardTask ==
    ASSUME TaskTypes, NEW p \in Parent, NEW done \in SUBSET Companion, NEW early \in BOOLEAN, Forward(p, done, early)
    PROVE  PollerCheck
<1> DEFINE last == IF early THEN {} ELSE done
<1>1. last \in SUBSET Companion
      OBVIOUS
<1> HIDE DEF last
<1>2. CASE SubmitDiffusion(p, last, early)
      BY <1>2, SubmitDiffusionTask
<1>3. CASE poller' = Waiting(p, last, early) /\ UNCHANGED <<raised, shutdown, fatalError>>
      BY <1>1, <1>3, TaskPlaces, Names DEF TaskTypes, PollerCheck
<1>4. CASE Throw("RuntimeError", early)
      BY <1>4, ThrowTask
<1>5. CASE UNCHANGED <<poller, raised, shutdown, fatalError>>
      BY <1>5 DEF TaskTypes, PollerCheck
<1> QED BY <1>2, <1>3, <1>4, <1>5 DEF Forward, last

LEMMA PollerTask ==
    ASSUME OrchInv, TaskTypes, Poller
    PROVE  TaskTypes'
<1>1. CASE PollerCheck /\ UNCHANGED <<handler, ended>>
      BY <1>1 DEF TaskTypes, PollerCheck
<1>2. CASE UNCHANGED <<poller, raised, shutdown, fatalError>> /\ UNCHANGED <<handler, ended>>
      BY <1>2 DEF TaskTypes
<1>3. CASE PollDead
      BY <1>1, <1>3, StageDiesTask DEF PollDead
<1>4. CASE PollerEnds
      BY <1>4, TaskPlaces DEF PollerEnds, endVars, TaskTypes
<1>5. CASE PollerPicks
      BY <1>1, <1>5, SubmitDiffusionTask, ThrowTask DEF PollerPicks, PollerFrame
<1>6. CASE PollDiffusion
      <2>1. UNCHANGED <<handler, ended>>
            BY <1>6 DEF PollDiffusion, PollerFrame
      <2>2. CASE Raise("EngineDead") /\ poller' = At("done") /\ UNCHANGED <<shutdown, fatalError>>
            BY <1>1, <2>1, <2>2, RaiseType, TaskPlaces DEF TaskTypes, PollerCheck
      <2>3. CASE UNCHANGED <<poller, raised, shutdown, fatalError>>
            BY <1>2, <2>1, <2>3
      <2>4. ASSUME NEW r \in Parent, NEW kind \in {"result", "error"}, DiffusionOutput(Reply(r, kind))
            PROVE  UNCHANGED <<poller, raised, shutdown, fatalError>>
            BY <2>4 DEF DiffusionOutput, Dropped, StageError
      <2> QED BY <1>6, <2>2, <2>3, <2>4 DEF PollDiffusion
<1>7. ASSUME NEW r \in Req, PollLLM(r) PROVE TaskTypes'
      <2>1. UNCHANGED <<handler, ended>>
            BY <1>7 DEF PollLLM, PollerFrame
      <2>2. CASE UNCHANGED <<poller, raised, shutdown, fatalError>>
            BY <1>2, <2>1, <2>2
      <2>3. CASE UNCHANGED Dropped \/ StageError(r)
            BY <2>2, <2>3 DEF Dropped, StageError
      <2>4. ASSUME NEW p \in Parent, NEW done \in SUBSET Companion, NEW early \in BOOLEAN, Forward(p, done, early)
            PROVE  TaskTypes'
            BY <1>1, <2>1, <2>4, ForwardTask
      <2>5. ASSUME NEW early \in BOOLEAN, IsCompanion(r), CompanionDone(r, early) PROVE TaskTypes'
            <3>1. Owner[r] \in Parent /\ {r} \in SUBSET Companion
                  BY <2>5, DoneOwner
            <3> QED BY <2>2, <2>4, <2>5, <3>1 DEF CompanionDone
      <2>6. ASSUME NEW early \in BOOLEAN, r \in requestStates, ~IsCompanion(r), ParentDone(r, early) PROVE TaskTypes'
            <3>1. r \in Parent /\ {} \in SUBSET Companion
                  BY <2>6, OrchAssumption DEF OrchInv, Families
            <3> QED BY <2>2, <2>3, <2>4, <2>6, <3>1 DEF ParentDone
      <2> QED BY <1>7, <2>3, <2>5, <2>6 DEF PollLLM
<1> QED BY <1>3, <1>4, <1>5, <1>6, <1>7 DEF Poller

LEMMA TaskTypesStep == ASSUME OrchInv, TaskTypes, [OrchNext]_orchVars PROVE TaskTypes'
<1>1. CASE UNCHANGED <<taskVars, endVars>>
      BY <1>1 DEF taskVars, endVars, TaskTypes
<1>2. CASE Frontend
      BY <1>1, <1>2, FrontendFrame
<1>3. CASE Handler
      <2>1. ASSUME NEW r \in Req, NEW like, Admit(r, like),
                   UNCHANGED <<poller, shutdown, fatalError, ended>>
            PROVE  TaskTypes'
            <3>1. CASE \E replica \in Candidates(0, r, like) : SubmitLLM(r, replica)
                  BY <2>1, <3>1, SubmitLLMTask DEF TaskTypes
            <3>2. CASE handler' = Waiting(r, {}, FALSE) /\ UNCHANGED raised
                  BY <2>1, <3>2, TaskPlaces DEF TaskTypes
            <3> QED BY <2>1, <3>1, <3>2 DEF Admit
      <2>2. CASE \E p \in Parent : HandleAdd(p)
            BY <2>1, <2>2, Names DEF HandleAdd
      <2>3. CASE \E p \in Parent : HandleAbort(p)
            BY <1>1, <2>3 DEF HandleAbort
      <2>4. CASE \E c \in Companion : HandleCompanion(c)
            <3>1. PICK c \in Companion : HandleCompanion(c)
                  BY <2>4
            <3>2. CASE UNCHANGED <<handler, raised>>
                  BY <3>1, <3>2 DEF HandleCompanion, TaskTypes
            <3>3. CASE Admit(c, Owner[c])
                  BY <2>1, <3>1, <3>3, Names DEF HandleCompanion
            <3> QED BY <3>1, <3>2, <3>3 DEF HandleCompanion
      <2>5. CASE HandlerPicks
            <3>1. CASE \E replica \in Serviceable(0) : SubmitLLM(handler.id, replica)
                  BY <2>5, <3>1, SubmitLLMTask DEF HandlerPicks, TaskTypes
            <3>2. CASE Raise("RuntimeError") /\ handler' = At("done")
                  BY <2>5, <3>2, RaiseType, TaskPlaces DEF HandlerPicks, TaskTypes
            <3> QED BY <2>5, <3>1, <3>2 DEF HandlerPicks
      <2>6. CASE HandleShutdown
            BY <2>6, TaskPlaces DEF HandleShutdown, TaskTypes
      <2> QED BY <1>3, <2>2, <2>3, <2>4, <2>5, <2>6 DEF Handler
<1>4. CASE Finish
      BY <1>4, TaskPlaces DEF Finish, TaskTypes
<1>5. CASE Process \/ \E replica \in Replica : HubChanges(replica) \/ CoreDies(replica) \/ ReplicaLost(replica)
      BY <1>1, <1>5 DEF Process, HubChanges, CoreDies, ReplicaLost
<1>6. CASE UNCHANGED orchVars
      BY <1>1, <1>6 DEF orchVars
<1> QED BY <1>2, <1>3, <1>4, <1>5, <1>6, PollerTask DEF OrchNext

-----------------------------------------------------------------------------
(* What the replicas hold.                                                    *)

LEMMA SubmitLLMFleet ==
    ASSUME FleetTypes, NEW r \in Req, NEW replica \in Replica0, SubmitLLM(r, replica)
    PROVE  core' \in [Req -> Replica0 \cup {None}]
BY DEF SubmitLLM, poolVars, FleetTypes

LEMMA FleetTypesStep == ASSUME OrchInv, FleetTypes, [OrchNext]_orchVars PROVE FleetTypes'
<1>1. CASE UNCHANGED <<core, hubVars>>
      BY <1>1 DEF hubVars, FleetTypes
<1>2. CASE Frontend
      BY <1>1, <1>2, FrontendFrame
<1>3. ASSUME NEW ids, AbortIds(ids), UNCHANGED hubVars PROVE FleetTypes'
      BY <1>3 DEF AbortIds, hubVars, FleetTypes
<1>4. CASE Handler
      <2>2. ASSUME NEW r \in Req, NEW like, Admit(r, like), UNCHANGED hubVars
            PROVE  FleetTypes'
            <3>1. Candidates(0, r, like) \subseteq Replica0
                  BY DEF Candidates, Serviceable
            <3>2. CASE \E replica \in Candidates(0, r, like) : SubmitLLM(r, replica)
                  BY <2>2, <3>1, <3>2, SubmitLLMFleet DEF FleetTypes, hubVars
            <3> QED BY <1>1, <2>2, <3>2 DEF Admit, poolVars
      <2>3. CASE \E p \in Parent : HandleAdd(p)
            BY <2>2, <2>3, Names DEF HandleAdd
      <2>4. CASE \E p \in Parent : HandleAbort(p)
            BY <1>3, <2>4 DEF HandleAbort
      <2>5. CASE \E c \in Companion : HandleCompanion(c)
            <3>1. PICK c \in Companion : HandleCompanion(c)
                  BY <2>5
            <3>2. CASE UNCHANGED poolVars
                  BY <1>1, <3>1, <3>2 DEF HandleCompanion, poolVars
            <3>3. CASE Admit(c, Owner[c])
                  BY <2>2, <3>1, <3>3, Names DEF HandleCompanion
            <3> QED BY <3>1, <3>2, <3>3 DEF HandleCompanion
      <2>6. CASE HandlerPicks
            <3>1. handler.id \in Req /\ Serviceable(0) \subseteq Replica0
                  BY <2>6 DEF HandlerPicks, Serviceable, OrchInv, Shapes, Tables
            <3>2. CASE \E replica \in Serviceable(0) : SubmitLLM(handler.id, replica)
                  BY <2>6, <3>1, <3>2, SubmitLLMFleet DEF HandlerPicks, FleetTypes, hubVars
            <3> QED BY <1>1, <2>6, <3>2 DEF HandlerPicks, poolVars
      <2>7. CASE HandleShutdown
            BY <1>1, <2>7 DEF HandleShutdown, poolVars
      <2> QED BY <1>4, <2>3, <2>4, <2>5, <2>6, <2>7 DEF Handler
<1>5. CASE Poller
      <2>1. CASE UNCHANGED core
            BY <1>1, <1>5, <2>1 DEF Poller, PollDead, PollDiffusion, PollerPicks, PollerEnds, PollLLM, PollerFrame
      <2>2. CASE PollDead \/ PollerPicks \/ PollerEnds
            BY <2>1, <2>2 DEF PollDead, PollerPicks, PollerEnds, poolVars
      <2>3. ASSUME NEW r \in Req, StageError(r), UNCHANGED hubVars PROVE FleetTypes'
            BY <1>3, <2>3 DEF StageError
      <2>4. CASE PollDiffusion
            <3>1. UNCHANGED hubVars
                  BY <2>4 DEF PollDiffusion, PollerFrame
            <3>2. ASSUME NEW r \in Parent, NEW kind \in {"result", "error"}, DiffusionOutput(Reply(r, kind))
                  PROVE  FleetTypes'
                  <4>1. Reply(r, kind).id \in Req
                        BY Names DEF Reply
                  <4> QED BY <2>1, <2>3, <3>1, <3>2, <4>1 DEF DiffusionOutput
            <3> QED BY <2>1, <2>4, <3>2 DEF PollDiffusion, poolVars
      <2>5. ASSUME NEW r \in Req, PollLLM(r) PROVE FleetTypes'
            <3>1. UNCHANGED hubVars
                  BY <2>5 DEF PollLLM, PollerFrame
            <3>2. CASE core' = core \/ core' = [core EXCEPT ![r] = None]
                  BY <3>1, <3>2 DEF FleetTypes, hubVars
            <3> QED BY <2>3, <2>5, <3>1, <3>2 DEF PollLLM
      <2> QED BY <1>5, <2>2, <2>4, <2>5 DEF Poller
<1>6. CASE Process \/ Finish
      BY <1>1, <1>6 DEF Process, Finish, poolVars
<1>7. CASE \E replica \in Replica : HubChanges(replica) \/ CoreDies(replica)
      BY <1>7, OrchAssumption DEF HubChanges, CoreDies, poolVars, FleetTypes
<1>8. CASE \E replica \in Replica : ReplicaLost(replica)
      <2>1. /\ UNCHANGED <<coreDead, up>> /\ attached' \subseteq attached
            /\ core' \in [Req -> Replica0 \cup {None}]
            BY <1>8 DEF ReplicaLost, FleetTypes
      <2> QED BY <2>1 DEF FleetTypes
<1>9. CASE UNCHANGED orchVars
      BY <1>1, <1>9 DEF orchVars, poolVars
<1> QED BY <1>2, <1>4, <1>5, <1>6, <1>7, <1>8, <1>9 DEF OrchNext

-----------------------------------------------------------------------------
(* What the client of the diffusion stage and its process hold.               *)

LEMMA ReplyNotSentinel ==
    \A r, kind : kind \in {"result", "error"} => Reply(r, kind) # Sentinel
<1>1. ASSUME NEW r, NEW kind \in {"result", "error"} PROVE Reply(r, kind) # Sentinel
      <2>1. Reply(r, kind).kind = kind /\ Sentinel.kind = "dead"
            BY DEF Reply, Sentinel
      <2> QED BY <1>1, <2>1
<1> QED BY <1>1

\* A response is sent while the process lives, or as its last.
LEMMA SendsResponse ==
    ASSUME ClientTypes, NEW m \in Replies \cup {Sentinel}, responsePipe' = Append(responsePipe, m),
           proc # "dead", m = Sentinel => proc' = "dead"
    PROVE  /\ responsePipe' \in Seq(Replies \cup {Sentinel})
           /\ \A i \in 1 .. Len(responsePipe') :
                 responsePipe'[i] = Sentinel => i = Len(responsePipe') /\ proc' = "dead"
<1>1. /\ responsePipe' \in Seq(Replies \cup {Sentinel})
      /\ Len(responsePipe') = Len(responsePipe) + 1 /\ Len(responsePipe) \in Nat
      /\ \A k \in 1 .. Len(responsePipe) : responsePipe'[k] = responsePipe[k]
      /\ responsePipe'[Len(responsePipe) + 1] = m
      BY AppendSeq DEF ClientTypes
<1>2. \A k \in 1 .. Len(responsePipe) : responsePipe[k] # Sentinel
      BY DEF ClientTypes
<1>3. ASSUME NEW i \in 1 .. Len(responsePipe'), responsePipe'[i] = Sentinel
      PROVE  i = Len(responsePipe') /\ proc' = "dead"
      <2>1. i \in 1 .. Len(responsePipe) \/ i = Len(responsePipe) + 1
            BY <1>1
      <2> QED BY <1>1, <1>2, <1>3, <2>1
<1> QED BY <1>1, <1>3

\* What a drain takes out is results and errors.
LEMMA OutputsType ==
    ASSUME ClientTypes
    PROVE  Outputs(responsePipe) \in Seq(Replies)
<1>1. /\ responsePipe \in Seq(Replies \cup {Sentinel}) /\ Len(responsePipe) \in Nat
      /\ \A i \in 1 .. Len(responsePipe) : responsePipe[i] \in Replies \cup {Sentinel}
      BY LenProperties DEF ClientTypes
<1>2. CASE responsePipe # <<>> /\ Last(responsePipe) = Sentinel
      <2>1. Outputs(responsePipe) = SubSeq(responsePipe, 1, Len(responsePipe) - 1)
            BY <1>2 DEF Outputs, Front
      <2>2. Len(responsePipe) >= 1
            BY <1>1, <1>2, EmptySeq
      <2>3. \A i \in 1 .. Len(responsePipe) - 1 : i \in 1 .. Len(responsePipe) /\ i # Len(responsePipe)
            BY <1>1
      <2>4. \A i \in 1 .. Len(responsePipe) - 1 : responsePipe[i] \in Replies
            BY <1>1, <2>3 DEF ClientTypes
      <2>5. SubSeq(responsePipe, 1, Len(responsePipe) - 1) = [i \in 1 .. Len(responsePipe) - 1 |-> responsePipe[i]]
            BY <1>1, <2>2
      <2>6. [i \in 1 .. Len(responsePipe) - 1 |-> responsePipe[i]] \in Seq(Replies)
            BY <1>1, <2>2, <2>4
      <2> QED BY <2>1, <2>5, <2>6
<1>3. CASE ~(responsePipe # <<>> /\ Last(responsePipe) = Sentinel)
      <2>1. Outputs(responsePipe) = responsePipe
            BY <1>3 DEF Outputs
      <2>2. \A i \in 1 .. Len(responsePipe) : responsePipe[i] # Sentinel
            <3> SUFFICES ASSUME NEW i \in 1 .. Len(responsePipe), responsePipe[i] = Sentinel PROVE FALSE
                  OBVIOUS
            <3>1. i = Len(responsePipe)
                  BY DEF ClientTypes
            <3>2. responsePipe # <<>>
                  BY <1>1, EmptySeq
            <3> QED BY <1>3, <3>1, <3>2 DEF Last
      <2>3. \A i \in 1 .. Len(responsePipe) : responsePipe[i] \in Replies
            BY <1>1, <2>2
      <2>4. responsePipe = [i \in 1 .. Len(responsePipe) |-> responsePipe[i]]
            BY <1>1, SeqDef
      <2> QED BY <1>1, <2>1, <2>3, <2>4
<1> QED BY <1>2, <1>3

\* The steps of the process and of its monitor.
LEMMA ProcessClient ==
    ASSUME ClientTypes, ProcessNext
    PROVE  ClientTypes'
<1>1. CASE ProcReceives
      <2>1. /\ requestPipe' \in Seq(ClientMessages) /\ Head(requestPipe) \in ClientMessages
            BY <1>1, TailSeq DEF ProcReceives, ClientTypes
      <2>2. Head(requestPipe).ids \in SUBSET Req
            BY <2>1 DEF ClientMessages
      <2>3. procTasks' \in SUBSET Req
            BY <1>1, <2>2 DEF ProcReceives, ClientTypes
      <2> QED BY <1>1, <2>1, <2>3 DEF ProcReceives, ClientTypes
<1>2. ASSUME NEW r \in Req, ProcResponds(r) \/ ProcFails(r) PROVE ClientTypes'
      <2>1. PICK kind \in {"result", "error"} : responsePipe' = Append(responsePipe, Reply(r, kind))
            BY <1>2 DEF ProcResponds, ProcFails
      <2>2. Reply(r, kind) \in Replies /\ Reply(r, kind) # Sentinel
            BY ReplyNotSentinel DEF Replies, Reply
      <2>3. proc # "dead" /\ proc' \in {"up", "failing", "dead"}
            BY <1>2 DEF ProcResponds, ProcFails, ClientTypes
      <2>4. /\ responsePipe' \in Seq(Replies \cup {Sentinel})
            /\ \A i \in 1 .. Len(responsePipe') :
                  responsePipe'[i] = Sentinel => i = Len(responsePipe') /\ proc' = "dead"
            BY <2>1, <2>2, <2>3, SendsResponse
      <2>5. /\ procTasks' = procTasks \ {r}
            /\ UNCHANGED <<requestPipe, exitcode, outputQueue, engineDead, shuttingDown>>
            BY <1>2 DEF ProcResponds, ProcFails
      <2> QED BY <2>3, <2>4, <2>5 DEF ClientTypes
<1>3. CASE ProcTearsDown
      <2>1. /\ responsePipe' \in Seq(Replies \cup {Sentinel})
            /\ \A i \in 1 .. Len(responsePipe') :
                  responsePipe'[i] = Sentinel => i = Len(responsePipe') /\ proc' = "dead"
            BY <1>3, SendsResponse DEF ProcTearsDown
      <2> QED BY <1>3, <2>1 DEF ProcTearsDown, ClientTypes
<1>4. CASE ProcKilled
      BY <1>4 DEF ProcKilled, pipeVars, ClientTypes
<1>5. CASE MonitorNotices
      BY <1>5 DEF MonitorNotices, pipeVars, procVars, ClientTypes
<1> QED BY <1>1, <1>2, <1>3, <1>4, <1>5 DEF ProcessNext

\* A poll moves what arrived into the queue, less the output it returns.
LEMMA PollReturnsClient ==
    ASSUME ClientTypes, NEW o, PollReturns(o)
    PROVE  /\ responsePipe' = <<>> /\ outputQueue' \in Seq(Replies) /\ engineDead' \in BOOLEAN
           /\ UNCHANGED <<procVars, shuttingDown>>
<1>1. Arrived \in Seq(Replies)
      BY OutputsType, ConcatProperties DEF Arrived, ClientTypes
<1>2. outputQueue' \in Seq(Replies)
      BY <1>1, TailSeq DEF PollReturns
<1> QED BY <1>2 DEF PollReturns, ClientTypes

LEMMA AbortIdsClient ==
    ASSUME ClientTypes, NEW ids \in SUBSET Req, AbortIds(ids)
    PROVE  requestPipe' \in Seq(ClientMessages)
<1> DEFINE bound == {r \in ids : affinity[1][r] \in attached}
<1>1. AbortMessage(bound) \in ClientMessages
      BY DEF AbortMessage, ClientMessages
<1>2. requestPipe' = requestPipe \/ requestPipe' = Append(requestPipe, AbortMessage(bound))
      BY DEF AbortIds
<1> QED BY <1>1, <1>2, AppendSeq DEF ClientTypes

LEMMA SubmitDiffusionClient ==
    ASSUME ClientTypes, NEW p \in Parent, NEW last, NEW early, SubmitDiffusion(p, last, early)
    PROVE  requestPipe' \in Seq(ClientMessages)
<1>1. AddMessage(p) \in ClientMessages
      BY Names DEF AddMessage, ClientMessages
<1>2. requestPipe' = requestPipe \/ requestPipe' = Append(requestPipe, AddMessage(p))
      BY DEF SubmitDiffusion
<1>3. requestPipe \in Seq(ClientMessages)
      BY DEF ClientTypes
<1>4. Append(requestPipe, AddMessage(p)) \in Seq(ClientMessages)
      BY <1>1, <1>3, AppendSeq
<1> QED BY <1>2, <1>3, <1>4

LEMMA ForwardClient ==
    ASSUME ClientTypes, NEW p \in Parent, NEW done, NEW early, Forward(p, done, early)
    PROVE  requestPipe' \in Seq(ClientMessages)
BY SubmitDiffusionClient DEF Forward, ClientTypes

LEMMA StageErrorClient ==
    ASSUME OrchInv, ClientTypes, NEW r \in Req, r \in requestStates, StageError(r)
    PROVE  requestPipe' \in Seq(ClientMessages)
<1>1. PICK p \in Parent : AbortIds(WithCompanions(p))
      BY StageErrorFamily
<1> QED BY <1>1, AbortIdsClient, FamilyTypes

LEMMA PollDiffusionClient ==
    ASSUME OrchInv, ClientTypes, PollDiffusion
    PROVE  ClientTypes'
<1>1. ASSUME NEW r \in Parent, NEW kind \in {"result", "error"},
             PollReturns(Reply(r, kind)), DiffusionOutput(Reply(r, kind))
      PROVE  ClientTypes'
      <2>1. Reply(r, kind).id = r /\ r \in Req
            BY Names DEF Reply
      <2>2. requestPipe' \in Seq(ClientMessages)
            <3>1. CASE UNCHANGED requestPipe
                  BY <3>1 DEF ClientTypes
            <3> QED BY <1>1, <2>1, <3>1, StageErrorClient DEF DiffusionOutput, Dropped
      <2>3. /\ responsePipe' = <<>> /\ outputQueue' \in Seq(Replies) /\ engineDead' \in BOOLEAN
            /\ UNCHANGED <<procVars, shuttingDown>>
            BY <1>1, PollReturnsClient
      <2>4. <<>> \in Seq(Replies \cup {Sentinel}) /\ Len(<<>>) = 0
            BY EmptySeq
      <2> QED BY <2>2, <2>3, <2>4 DEF procVars, ClientTypes
<1>2. CASE PollRaises \/ PollTakesForShutdown
      BY <1>2 DEF PollRaises, PollTakesForShutdown, pipeVars, procVars, ClientTypes
<1> QED BY <1>1, <1>2 DEF PollDiffusion

LEMMA ClientTypesStep == ASSUME OrchInv, ClientTypes, [OrchNext]_orchVars PROVE ClientTypes'
<1>1. CASE UNCHANGED clientVars
      BY <1>1 DEF clientVars, pipeVars, procVars, ClientTypes
<1>2. CASE requestPipe' \in Seq(ClientMessages) /\ UNCHANGED ClientFrame
      BY <1>2 DEF ClientFrame, procVars, ClientTypes
<1>3. CASE UNCHANGED <<pipeVars, procVars, outputQueue, engineDead>> /\ shuttingDown' \in BOOLEAN
      BY <1>3 DEF pipeVars, procVars, ClientTypes
<1>4. CASE Frontend
      BY <1>1, <1>4, FrontendFrame
<1>5. CASE Handler
      <2>1. CASE \E p \in Parent : HandleAbort(p)
            <3>1. PICK p \in Parent : HandleAbort(p)
                  BY <2>1
            <3>2. requestPipe' \in Seq(ClientMessages)
                  BY <3>1, AbortIdsClient, FamilyTypes DEF HandleAbort
            <3> QED BY <1>2, <3>1, <3>2 DEF HandleAbort, ClientFrame
      <2>2. CASE HandleShutdown
            BY <1>3, <2>2 DEF HandleShutdown, ClientTypes
      <2> QED BY <1>1, <1>5, <2>1, <2>2 DEF Handler, HandleAdd, HandleCompanion, HandlerPicks
<1>6. CASE Poller
      <2>1. CASE PollDead \/ PollerEnds
            BY <1>1, <2>1 DEF PollDead, PollerEnds
      <2>2. CASE PollerPicks
            <3>1. poller.id \in Parent
                  BY <2>2 DEF PollerPicks, OrchInv, Shapes, Tables
            <3>2. requestPipe' \in Seq(ClientMessages)
                  BY <2>2, <3>1, SubmitDiffusionClient DEF PollerPicks, ClientTypes
            <3> QED BY <1>2, <2>2, <3>2 DEF PollerPicks
      <2>3. ASSUME NEW r \in Req, PollLLM(r) PROVE ClientTypes'
            <3>1. UNCHANGED ClientFrame
                  BY <2>3 DEF PollLLM
            <3>2. CASE UNCHANGED requestPipe
                  BY <1>2, <3>1, <3>2 DEF ClientTypes
            <3>3. CASE r \in requestStates /\ StageError(r)
                  BY <1>2, <3>1, <3>3, StageErrorClient
            <3>4. ASSUME NEW early \in BOOLEAN, IsCompanion(r), CompanionDone(r, early) PROVE ClientTypes'
                  <4>1. Owner[r] \in Parent
                        BY <3>4, DoneOwner
                  <4> QED BY <1>2, <3>1, <3>2, <3>4, <4>1, ForwardClient DEF CompanionDone
            <3>5. ASSUME NEW early \in BOOLEAN, r \in requestStates, ~IsCompanion(r), ParentDone(r, early)
                  PROVE  ClientTypes'
                  <4>1. r \in Parent
                        BY <3>5, OrchAssumption DEF OrchInv, Families
                  <4> QED BY <1>2, <3>1, <3>2, <3>5, <4>1, ForwardClient DEF ParentDone, Dropped
            <3> QED BY <2>3, <3>2, <3>3, <3>4, <3>5 DEF PollLLM, Dropped
      <2> QED BY <1>6, <2>1, <2>2, <2>3, PollDiffusionClient DEF Poller
<1>7. CASE Process
      BY <1>7, ProcessClient DEF Process
<1>8. CASE Finish
      BY <1>3, <1>8 DEF Finish, ClientTypes
<1>9. ASSUME NEW replica \in Replica, ReplicaLost(replica) PROVE ClientTypes'
      <2> DEFINE s == IF replica = D THEN 1 ELSE 0
                 aborted == {r \in {q \in Req : affinity[s][q] = replica} : affinity[1 - s][r] \in attached}
      <2>1. AbortMessage(aborted) \in ClientMessages
            BY DEF AbortMessage, ClientMessages
      <2>2. requestPipe' = requestPipe \/ requestPipe' = Append(requestPipe, AbortMessage(aborted))
            BY <1>9 DEF ReplicaLost
      <2>3. requestPipe' \in Seq(ClientMessages)
            BY <2>1, <2>2, AppendSeq DEF ClientTypes
      <2>4. /\ UNCHANGED <<responsePipe, procVars, outputQueue, engineDead>>
            /\ shuttingDown' \in BOOLEAN
            BY <1>9 DEF ReplicaLost, ClientTypes
      <2> QED BY <2>3, <2>4 DEF procVars, ClientTypes
<1>10. CASE \E replica \in Replica : HubChanges(replica) \/ CoreDies(replica)
      BY <1>1, <1>10 DEF HubChanges, CoreDies
<1>11. CASE UNCHANGED orchVars
      BY <1>1, <1>11 DEF orchVars
<1> QED BY <1>4, <1>5, <1>6, <1>7, <1>8, <1>9, <1>10, <1>11 DEF OrchNext

-----------------------------------------------------------------------------
OrchTypes == TrackTypes /\ TaskTypes /\ FleetTypes /\ ClientTypes

LEMMA OrchTypesInit == OrchInit => OrchTypes
<1> SUFFICES ASSUME OrchInit PROVE OrchTypes
      OBVIOUS
<1>1. /\ <<>> \in Seq(ClientMessages) /\ <<>> \in Seq(Replies \cup {Sentinel})
      /\ <<>> \in Seq(Replies) /\ Len(<<>>) = 0
      BY EmptySeq
<1>2. TrackTypes
      BY DEF OrchInit, TrackTypes
<1>3. TaskTypes
      BY TaskPlaces DEF OrchInit, TaskTypes
<1>4. FleetTypes
      BY DEF OrchInit, FleetTypes
<1>5. ClientTypes
      <2>1. \A i \in 1 .. Len(<<>>) : FALSE
            BY <1>1
      <2>2. ClientInit
            BY DEF OrchInit
      <2> QED BY <1>1, <2>1, <2>2 DEF ClientInit, ClientTypes
<1> QED BY <1>2, <1>3, <1>4, <1>5 DEF OrchTypes

LEMMA OrchTypesStep == OrchInv /\ OrchTypes /\ [OrchNext]_orchVars => OrchTypes'
BY TrackTypesStep, TaskTypesStep, FleetTypesStep, ClientTypesStep DEF OrchTypes

\* Every variable of the orchestrator, its pools and its client keeps its shape:
\* no poll meets anything but results and errors before the sentinel.
THEOREM OrchestratorTyped == OrchSafety => []OrchTypeOK
<1>1. OrchInv /\ OrchTypes => OrchTypeOK
      BY DEF OrchInv, Shapes, Tables, Preselection, OrchTypes, TrackTypes, TaskTypes, FleetTypes, ClientTypes,
             ClientMessages, OrchTypeOK
<1> QED BY <1>1, OrchInitInv, OrchStepInv, OrchTypesInit, OrchTypesStep, PTL DEF OrchSafety

-----------------------------------------------------------------------------
(* The tracker of the CFG companions.                                         *)

\* The message was put, and was read.
Taken(m) == m \in asked /\ \A i \in 1 .. Len(inbox) : inbox[i] # m

\* Whoever is tracked, or has left a mark in the tracker, was announced.
Announced ==
    /\ \A c \in Companion :
          c \in requestStates \cup companionsDone \/ (poller.at = "pick" /\ c \in poller.last)
              => Taken(Ask("companion", c))
    /\ \A q \in Parent : companionMap[q] # {} => Taken(Ask("add", q))

\* A fatal error raises.
FatalRaises == fatalError => raised # "no"

\* The companions whose cleanup waits for their parent's submission are done.
LastIsDone ==
    poller.at = "pick" =>
        /\ \A c \in poller.last : Owner[c] = poller.id
        /\ \A q \in Parent : poller.last \cap companionMap[q] \subseteq companionsDone

\* A registered companion that is not done is tracked, and runs or is being
\* submitted, unless the watcher took it.
CompanionsRun ==
    raised # "no" \/ \A q \in Parent, c \in Companion : c \in companionMap[q] \ companionsDone =>
        /\ c \in requestStates \cup detached
        /\ c \in detached \/ core[c] # None \/ (handler.at = "pick" /\ handler.id = c)

\* A deferred parent is tracked and misses a companion.
DeferredMisses ==
    raised # "no" \/ \A q \in Parent : q \in pendingParents \ detached =>
        q \in requestStates /\ \E c \in companionMap[q] : c \notin companionsDone

\* It goes on generating, or never will: its replica was lost.
Resting(c) == core[c] # None /\ (c \in requestStates \/ core[c] \notin attached)

\* Until its parent is forwarded, the output of a companion that is done is kept,
\* or there is none yet.
OutputsKept ==
    poller.at = "done" \/ \A q \in Parent :
        \/ 1 \in stageSubmitTs[q] \/ (poller.at = "pick" /\ poller.id = q)
        \/ \A c \in (companionMap[q] \cap companionsDone) \ companionOutputs : Resting(c)

\* A companion that is being submitted is not done.
NotDoneYet == handler.at = "pick" => handler.id \notin companionsDone

TrackerInv ==
    /\ Announced /\ FatalRaises /\ LastIsDone /\ CompanionsRun /\ DeferredMisses
    /\ OutputsKept /\ NotDoneYet

\* What every step does: messages that were read stay so, nobody takes back an
\* exception, nor what the watcher did.
Onward ==
    /\ \A m \in Messages : Taken(m) => Taken(m)'
    /\ raised # "no" => raised' # "no"
    /\ fatalError' => fatalError \/ raised' # "no"
    /\ detached \subseteq detached'

LEMMA ReadsOnward ==
    ASSUME Shapes, Reads, NEW m \in Messages, Taken(m)
    PROVE  Taken(m)'
BY ReadPart DEF Taken, Reads

LEMMA RaiseOnward ==
    ASSUME NEW e \in {"EngineDead", "RuntimeError"}, Raise(e)
    PROVE  raised' # "no"
BY DEF Raise

LEMMA PutOnward ==
    ASSUME OrchInv, NEW n \in Messages, Put(n)
    PROVE  Onward
<1>1. /\ n \notin asked /\ asked' = asked \cup {n} /\ inbox' = Append(inbox, n)
      /\ UNCHANGED <<raised, fatalError, detached>>
      BY DEF Put, endVars, ghostVars
<1>2. /\ Len(inbox') = Len(inbox) + 1 /\ Len(inbox) \in Nat
      /\ \A k \in 1 .. Len(inbox) : inbox'[k] = inbox[k]
      /\ inbox'[Len(inbox) + 1] = n
      BY <1>1, AppendSeq DEF OrchInv, Shapes
<1>3. ASSUME NEW m \in Messages, Taken(m) PROVE Taken(m)'
      <2>1. m # n
            BY <1>1, <1>3 DEF Taken
      <2>2. ASSUME NEW i \in 1 .. Len(inbox') PROVE inbox'[i] # m
            <3>1. i \in 1 .. Len(inbox) \/ i = Len(inbox) + 1
                  BY <1>2
            <3> QED BY <1>2, <1>3, <2>1, <3>1 DEF Taken
      <2> QED BY <1>1, <1>3, <2>2 DEF Taken
<1> QED BY <1>1, <1>3 DEF Onward

LEMMA ThrowRaises ==
    ASSUME NEW e \in {"EngineDead", "RuntimeError"}, NEW early, Throw(e, early)
    PROVE  UNCHANGED <<raised, fatalError>> \/ \E d \in {"EngineDead", "RuntimeError"} : Raise(d)
BY DEF Throw, StageDies

LEMMA SubmitDiffusionRaises ==
    ASSUME NEW p, NEW last, NEW early, SubmitDiffusion(p, last, early)
    PROVE  UNCHANGED <<raised, fatalError>> \/ \E d \in {"EngineDead", "RuntimeError"} : Raise(d)
BY ThrowRaises DEF SubmitDiffusion

LEMMA ForwardRaises ==
    ASSUME NEW p, NEW done, NEW early, Forward(p, done, early)
    PROVE  UNCHANGED <<raised, fatalError>> \/ \E d \in {"EngineDead", "RuntimeError"} : Raise(d)
BY ThrowRaises, SubmitDiffusionRaises DEF Forward

LEMMA OnwardStep == ASSUME OrchInv, [OrchNext]_orchVars PROVE Onward
<1>1. CASE Reads /\ UNCHANGED <<raised, fatalError, detached>>
      BY <1>1, ReadsOnward DEF Onward, OrchInv
<1>2. CASE /\ Reads /\ UNCHANGED detached
           /\ \/ UNCHANGED <<raised, fatalError>>
              \/ \E e \in {"EngineDead", "RuntimeError"} : Raise(e)
      BY <1>2, ReadsOnward, RaiseOnward DEF Onward, OrchInv
<1>3. CASE Frontend
      <2>1. CASE \E m \in Messages : Put(m)
            BY <2>1, PutOnward
      <2>2. CASE UNCHANGED <<inbox, asked, raised, fatalError, detached>>
            BY <2>2 DEF Onward, Taken
      <2> QED BY <1>3, <2>1, <2>2, AskIsMessage, Names DEF Frontend, AddRequest, AddCompanion, AbortRequest, Shutdown,
                 SelectReplica, BindSelected, PreprocessingFails, endVars, ghostVars
<1>4. CASE Handler
      <2>1. Reads /\ UNCHANGED <<fatalError, detached>>
            BY <1>4 DEF Handler, HandleAdd, HandleAbort, HandleCompanion, HandlerPicks, HandleShutdown,
                        Get, Reads, endVars, ghostVars
      <2>2. UNCHANGED raised \/ \E e \in {"EngineDead", "RuntimeError"} : Raise(e)
            BY <1>4 DEF Handler, HandleAdd, HandleAbort, HandleCompanion, HandlerPicks, HandleShutdown,
                        Admit, SubmitLLM, endVars
      <2> QED BY <1>2, <2>1, <2>2
<1>5. CASE Poller
      <2>1. Reads /\ detached' = detached
            BY <1>5 DEF Poller, PollDead, PollDiffusion, PollerPicks, PollerEnds, PollLLM, PollerFrame,
                        Reads, ghostVars
      <2>2. CASE PollDead
            BY <1>2, <2>1, <2>2 DEF PollDead, StageDies
      <2>3. CASE PollDiffusion
            BY <1>2, <2>1, <2>3 DEF PollDiffusion, DiffusionOutput, Dropped, StageError
      <2>4. CASE PollerPicks
            BY <1>2, <2>1, <2>4, ThrowRaises, SubmitDiffusionRaises DEF PollerPicks
      <2>5. CASE PollerEnds
            BY <1>1, <2>1, <2>5 DEF PollerEnds, endVars
      <2>6. ASSUME NEW r \in Req, PollLLM(r) PROVE Onward
            <3>1. ASSUME NEW early \in BOOLEAN, CompanionDone(r, early) \/ ParentDone(r, early)
                  PROVE  UNCHANGED <<raised, fatalError>> \/ \E d \in {"EngineDead", "RuntimeError"} : Raise(d)
                  BY <3>1, ForwardRaises DEF CompanionDone, ParentDone, Dropped
            <3>2. UNCHANGED <<raised, fatalError>> \/ \E d \in {"EngineDead", "RuntimeError"} : Raise(d)
                  BY <2>6, <3>1 DEF PollLLM, Dropped, StageError
            <3> QED BY <1>2, <2>1, <3>2
      <2> QED BY <1>5, <2>2, <2>3, <2>4, <2>5, <2>6 DEF Poller
<1>6. CASE Finish
      <2>1. asked' = asked /\ UNCHANGED <<raised, fatalError, detached>>
            BY <1>6 DEF Finish, ghostVars
      <2>2. CASE inbox' = <<>>
            <3>1. Len(<<>>) = 0
                  BY EmptySeq
            <3> QED BY <2>1, <2>2, <3>1 DEF Onward, Taken
      <2>3. CASE inbox' = inbox
            BY <1>1, <1>6, <2>1, <2>3 DEF Finish, Reads
      <2> QED BY <1>6, <2>2, <2>3 DEF Finish
<1>7. ASSUME NEW replica \in Replica, ReplicaLost(replica) PROVE Onward
      <2>1. Reads /\ detached \subseteq detached' /\ UNCHANGED <<raised, fatalError>>
            BY <1>7 DEF ReplicaLost, Reads, endVars
      <2> QED BY <2>1, ReadsOnward DEF Onward, OrchInv
<1>8. CASE Process \/ (\E replica \in Replica : HubChanges(replica) \/ CoreDies(replica)) \/ UNCHANGED orchVars
      BY <1>1, <1>8 DEF Process, HubChanges, CoreDies, orchVars, Reads, endVars, ghostVars
<1> QED BY <1>3, <1>4, <1>5, <1>6, <1>7, <1>8 DEF OrchNext

-----------------------------------------------------------------------------
(* Where companions run.                                                      *)

\* The message that announced it was read.
Seen(r) == Taken(Ask(IF r \in Parent THEN "add" ELSE "companion", r))

\* An engine runs only what was announced, and not what is still being submitted;
\* a companion stays on stage 0 and runs where its pool has bound it.
BoundInv ==
    /\ \A r \in Req : core[r] # None => Seen(r)
    /\ handler.at = "pick" => core[handler.id] = None /\ Seen(handler.id)
    /\ \A c \in Companion : affinity[1][c] = None
    /\ \A c \in Companion : c \in requestStates /\ core[c] # None => core[c] = affinity[0][c]

LEMMA SeenStays ==
    ASSUME Onward, NEW r \in Req, Seen(r)
    PROVE  Seen(r)'
<1>1. Ask(IF r \in Parent THEN "add" ELSE "companion", r) \in Messages
      BY AskIsMessage
<1> QED BY <1>1 DEF Onward, Seen

\* A step that starts no work on stage 0.
Calm ==
    /\ \A r \in Req : core'[r] \in {core[r], None}
    /\ \A c \in Companion : affinity'[1][c] \in {affinity[1][c], None}
    /\ \A c \in Companion : c \in requestStates' => c \in requestStates /\ affinity'[0][c] = affinity[0][c]
    /\ handler' = handler \/ handler'.at # "pick"

LEMMA CalmBound == ASSUME OrchInv, BoundInv, Onward, Calm PROVE BoundInv'
<1>1. \A r \in Req : core'[r] # None => Seen(r)'
      BY SeenStays DEF BoundInv, Calm
<1>2. handler'.at = "pick" => core'[handler'.id] = None /\ Seen(handler.id)'
      <2> SUFFICES ASSUME handler'.at = "pick" PROVE core'[handler'.id] = None /\ Seen(handler.id)'
            OBVIOUS
      <2>1. handler' = handler /\ handler.id \in Req
            BY DEF Calm, OrchInv, Shapes, Tables
      <2>2. core'[handler.id] = None
            BY <2>1 DEF BoundInv, Calm
      <2>3. Seen(handler.id)
            BY <2>1 DEF BoundInv
      <2>4. PICK h \in Req : h = handler.id
            BY <2>1
      <2>5. Seen(h)'
            BY <2>3, <2>4, SeenStays
      <2> QED BY <2>1, <2>2, <2>4, <2>5 DEF Seen
<1>3. \A c \in Companion : affinity'[1][c] = None
      BY DEF BoundInv, Calm
<1>4. \A c \in Companion : c \in requestStates' /\ core'[c] # None => core'[c] = affinity'[0][c]
      BY Names DEF BoundInv, Calm
<1> QED BY <1>1, <1>2, <1>3, <1>4 DEF BoundInv

LEMMA ForgetCalm ==
    ASSUME OrchInv, NEW ids, Forget(ids), UNCHANGED handler,
           UNCHANGED core \/ AbortIds(ids) \/ \E r \in Req : core' = [core EXCEPT ![r] = None],
           FleetTypes
    PROVE  Calm
<1>1. \A r \in Req : core'[r] \in {core[r], None}
      BY DEF AbortIds, FleetTypes
<1>2. \A c \in Companion : affinity'[1][c] \in {affinity[1][c], None}
      BY Names DEF Forget
<1>3. \A c \in Companion : c \in requestStates' => c \in requestStates /\ affinity'[0][c] = affinity[0][c]
      BY Names DEF Forget
<1> QED BY <1>1, <1>2, <1>3 DEF Calm

\* The output handler only takes work away, or binds parents on stage 1.
LEMMA QuietCalm ==
    ASSUME OrchInv, requestStates' \subseteq requestStates,
           \A c \in Companion : affinity'[0][c] = affinity[0][c] /\ affinity'[1][c] = affinity[1][c],
           UNCHANGED handler \/ handler'.at # "pick",
           \A r \in Req : core'[r] \in {core[r], None}
    PROVE  Calm
BY DEF Calm

\* Where one request is bound says nothing of another.
LEMMA BoundElsewhere ==
    ASSUME OrchInv, NEW p \in Parent, NEW s \in Stage, NEW replica,
           affinity' = affinity \/ affinity' = [affinity EXCEPT ![s][p] = replica]
    PROVE  \A c \in Companion : affinity'[0][c] = affinity[0][c] /\ affinity'[1][c] = affinity[1][c]
<1> SUFFICES ASSUME NEW c \in Companion, NEW t \in Stage PROVE affinity'[t][c] = affinity[t][c]
      BY Names
<1>1. c # p /\ c \in Req /\ p \in Req
      BY Names
<1>2. DOMAIN affinity = Stage /\ \A u \in Stage : DOMAIN affinity[u] = Req
      BY DEF OrchInv, Shapes, Tables
<1> QED BY <1>1, <1>2

LEMMA ThrowCalm ==
    ASSUME OrchInv, NEW e, NEW early, Throw(e, early), NEW p \in Parent,
           UNCHANGED affinity \/ affinity' = [affinity EXCEPT ![1][p] = D], UNCHANGED handler,
           \A r \in Req : core'[r] \in {core[r], None}
    PROVE  Calm
<1>1. requestStates' \subseteq requestStates
      BY DEF Throw, StageDies
<1>2. \A c \in Companion : affinity'[0][c] = affinity[0][c] /\ affinity'[1][c] = affinity[1][c]
      BY Names, BoundElsewhere
<1> QED BY <1>1, <1>2, QuietCalm

LEMMA SubmitDiffusionCalm ==
    ASSUME OrchInv, NEW p \in Parent, NEW last, NEW early, SubmitDiffusion(p, last, early), UNCHANGED handler,
           \A r \in Req : core'[r] \in {core[r], None}
    PROVE  Calm
<1>1. CASE Throw("EngineDead", early) /\ affinity' = [affinity EXCEPT ![1][p] = D]
      BY <1>1, ThrowCalm
<1>2. CASE /\ requestStates' = requestStates \ last
           /\ affinity' = [s \in Stage |-> [r \in Req |->
                              IF r \in last THEN None ELSE IF s = 1 /\ r = p THEN D ELSE affinity[s][r]]]
      <2>1. \A c \in Companion : c # p /\ c \in Req /\ 0 \in Stage /\ 1 \in Stage
            BY Names
      <2>2. \A c \in Companion : affinity'[1][c] \in {affinity[1][c], None}
            BY <1>2, <2>1
      <2>3. \A c \in Companion : c \in requestStates' => c \in requestStates /\ affinity'[0][c] = affinity[0][c]
            BY <1>2, <2>1
      <2> QED BY <2>2, <2>3 DEF Calm
<1> QED BY <1>1, <1>2 DEF SubmitDiffusion

LEMMA ForwardCalm ==
    ASSUME OrchInv, FleetTypes, NEW p \in Parent, NEW done, NEW early, Forward(p, done, early), UNCHANGED handler,
           core' = core \/ \E r \in Req : core' = [core EXCEPT ![r] = None]
    PROVE  Calm
<1>1. \A r \in Req : core'[r] \in {core[r], None}
      BY DEF FleetTypes
<1>2. CASE \E ids : Forget(ids)
      BY <1>2, ForgetCalm
<1>3. CASE \E last : SubmitDiffusion(p, last, early)
      BY <1>1, <1>3, SubmitDiffusionCalm
<1>4. CASE Throw("RuntimeError", early) /\ UNCHANGED affinity
      BY <1>1, <1>4, ThrowCalm
<1>5. CASE UNCHANGED <<stateVars, affinity>>
      BY <1>1, <1>5, QuietCalm DEF stateVars
<1> QED BY <1>2, <1>3, <1>4, <1>5 DEF Forward

LEMMA PollerCalm == ASSUME OrchInv, FleetTypes, Poller PROVE Calm
<1>1. UNCHANGED handler
      BY DEF Poller, PollDead, PollDiffusion, PollerPicks, PollerEnds, PollLLM, PollerFrame
<1>2. CASE PollDead
      BY <1>1, <1>2, QuietCalm DEF PollDead, StageDies, poolVars
<1>3. CASE PollerEnds
      BY <1>1, <1>3, QuietCalm DEF PollerEnds, stateVars, poolVars
<1>4. CASE PollerPicks
      <2>1. poller.id \in Parent /\ UNCHANGED core
            BY <1>4 DEF PollerPicks, OrchInv, Shapes, Tables
      <2> QED BY <1>1, <1>4, <2>1, SubmitDiffusionCalm, ThrowCalm DEF PollerPicks
<1>5. ASSUME NEW r \in Req, r \in requestStates, StageError(r) PROVE Calm
      <2>1. \E p \in Parent : AbortIds(WithCompanions(p)) /\ Forget(WithCompanions(p))
            BY <1>5, StageErrorFamily
      <2> QED BY <1>1, <2>1, ForgetCalm
<1>6. CASE PollDiffusion
      <2>1. ASSUME NEW r \in Parent, NEW kind \in {"result", "error"}, DiffusionOutput(Reply(r, kind))
            PROVE  Calm
            <3>1. Reply(r, kind).id = r /\ r \in Req
                  BY Names DEF Reply
            <3>2. CASE UNCHANGED <<Dropped, core>>
                  BY <1>1, <3>2, QuietCalm DEF Dropped, stateVars
            <3>3. CASE Forget(WithCompanions(r)) /\ UNCHANGED core
                  BY <1>1, <3>3, ForgetCalm
            <3> QED BY <1>5, <2>1, <3>1, <3>2, <3>3 DEF DiffusionOutput
      <2>2. CASE UNCHANGED <<stateVars, poolVars>>
            BY <1>1, <2>2, QuietCalm DEF stateVars, poolVars
      <2> QED BY <1>6, <2>1, <2>2 DEF PollDiffusion
<1>7. ASSUME NEW r \in Req, PollLLM(r) PROVE Calm
      <2>1. CASE core' = [core EXCEPT ![r] = None] /\ UNCHANGED Dropped
            BY <1>1, <2>1, QuietCalm DEF Dropped, stateVars, FleetTypes
      <2>2. ASSUME NEW early \in BOOLEAN, r \in requestStates,
                   IF IsCompanion(r) THEN CompanionDone(r, early) ELSE ParentDone(r, early),
                   core' = core \/ core' = [core EXCEPT ![r] = None]
            PROVE  Calm
            <3>1. CASE IsCompanion(r)
                  <4>1. Owner[r] \in Parent
                        BY <3>1, DoneOwner
                  <4> QED BY <1>1, <2>2, <3>1, <4>1, ForwardCalm, ForgetCalm DEF CompanionDone
            <3>2. CASE ~IsCompanion(r)
                  <4>1. r \in Parent
                        BY <2>2, <3>2, OrchAssumption DEF OrchInv, Families
                  <4>2. CASE UNCHANGED <<stateVars, affinity>>
                        BY <1>1, <2>2, <4>2, QuietCalm DEF stateVars, FleetTypes
                  <4> QED BY <1>1, <2>2, <3>2, <4>1, <4>2, ForwardCalm DEF ParentDone, Dropped
            <3> QED BY <3>1, <3>2
      <2> QED BY <1>5, <1>7, <2>1, <2>2 DEF PollLLM
<1> QED BY <1>2, <1>3, <1>4, <1>6, <1>7 DEF Poller

\* The message that is read was not taken before, and is now.
LEMMA GetTakes ==
    ASSUME OrchInv, NEW op \in {"add", "companion"}, NEW r \in Req, Get(op, r), UNCHANGED <<asked, frontVars>>
    PROVE  ~Taken(Ask(op, r)) /\ Taken(Ask(op, r))'
<1>1. /\ inbox[1] = Ask(op, r) /\ 1 \in 1 .. Len(inbox) /\ asked' = asked
      /\ \A i \in 1 .. Len(inbox') : inbox'[i] # Ask(op, r)
      BY GetReads
<1>2. Ask(op, r) \in asked
      BY <1>1 DEF OrchInv, Unread
<1> QED BY <1>1, <1>2 DEF Taken

\* What is admitted runs where it is bound.
LEMMA AdmitBound ==
    ASSUME OrchInv, FleetTypes, BoundInv, Onward, NEW r \in Req, NEW like, Admit(r, like),
           ~Seen(r), Seen(r)'
    PROVE  BoundInv'
<1>1. core[r] = None /\ core \in [Req -> Replica0 \cup {None}] /\ 0 \in Stage /\ 1 \in Stage
      BY Names DEF BoundInv, FleetTypes
<1>2. PICK replica \in Replica \cup {None} :
         /\ affinity' = [affinity EXCEPT ![0][r] = replica]
         /\ core' = core \/ core' = [core EXCEPT ![r] = replica]
      BY Names DEF Admit, SubmitLLM, Candidates, Serviceable, OrchInv, Shapes, Tables
<1>3. /\ affinity'[0][r] = replica /\ affinity'[1] = affinity[1]
      /\ \A q \in Req \ {r} : affinity'[0][q] = affinity[0][q] /\ core'[q] = core[q]
      /\ core'[r] = None \/ core'[r] = replica
      BY <1>1, <1>2 DEF OrchInv, Shapes, Tables
<1>4. \A q \in Req : core'[q] # None => Seen(q)'
      BY <1>3, SeenStays DEF BoundInv
<1>5. handler'.at = "pick" => handler'.id = r /\ core'[r] = None
      BY <1>1 DEF Admit, SubmitLLM, Waiting, At
<1>6. requestStates' = requestStates \cup {r}
      BY DEF Admit
<1> QED BY <1>3, <1>4, <1>5, <1>6, Names DEF BoundInv, Seen

LEMMA HandlerPicksBound ==
    ASSUME OrchInv, FleetTypes, BoundInv, Onward, HandlerPicks
    PROVE  BoundInv'
<1>1. /\ handler.at = "pick" /\ handler'.at # "pick" /\ handler.id \in Req /\ requestStates' = requestStates
      /\ core[handler.id] = None /\ Seen(handler.id) /\ 0 \in Stage /\ 1 \in Stage
      /\ core \in [Req -> Replica0 \cup {None}]
      BY Names DEF HandlerPicks, SubmitLLM, At, stateVars, OrchInv, Shapes, Tables, BoundInv, FleetTypes
<1>2. CASE UNCHANGED poolVars
      <2>1. Calm
            BY <1>1, <1>2 DEF Calm, poolVars
      <2> QED BY <2>1, CalmBound
<1>3. ASSUME NEW replica, affinity' = [affinity EXCEPT ![0][handler.id] = replica],
             core' = core \/ core' = [core EXCEPT ![handler.id] = replica]
      PROVE  BoundInv'
      <2>1. /\ affinity'[0][handler.id] = replica /\ affinity'[1] = affinity[1]
            /\ \A q \in Req \ {handler.id} : affinity'[0][q] = affinity[0][q] /\ core'[q] = core[q]
            /\ core'[handler.id] = None \/ core'[handler.id] = replica
            BY <1>1, <1>3 DEF OrchInv, Shapes, Tables
      <2>2. \A q \in Req : core'[q] # None => Seen(q)'
            BY <1>1, <2>1, SeenStays DEF BoundInv
      <2> QED BY <1>1, <2>1, <2>2, Names DEF BoundInv
<1> QED BY <1>2, <1>3 DEF HandlerPicks, SubmitLLM

LEMMA BoundInit == OrchInit => BoundInv
BY Names DEF OrchInit, At, BoundInv

LEMMA BoundStep == OrchInv /\ OrchTypes /\ BoundInv /\ [OrchNext]_orchVars => BoundInv'
<1> SUFFICES ASSUME OrchInv, FleetTypes, BoundInv, [OrchNext]_orchVars PROVE BoundInv'
      BY DEF OrchTypes
<1>1. Onward
      BY OnwardStep
<1>2. CASE Calm
      BY <1>1, <1>2, CalmBound
<1>3. CASE UNCHANGED <<handler, requestStates, poolVars>>
      BY <1>2, <1>3 DEF Calm, poolVars
<1>4. CASE Frontend
      <2>1. UNCHANGED <<handler, requestStates, core>>
            BY <1>4, FrontendFrame DEF taskVars, stateVars
      <2>2. affinity' = affinity \/ \E p \in Parent : \E replica : affinity' = [affinity EXCEPT ![0][p] = replica]
            BY <1>4 DEF Frontend, AddRequest, AddCompanion, AbortRequest, Shutdown, SelectReplica, BindSelected,
                        PreprocessingFails, Put, poolVars
      <2>3. CASE affinity' = affinity
            BY <1>2, <2>1, <2>3, QuietCalm
      <2>4. ASSUME NEW p \in Parent, NEW replica, affinity' = [affinity EXCEPT ![0][p] = replica] PROVE BoundInv'
            <3>1. \A c \in Companion : affinity'[0][c] = affinity[0][c] /\ affinity'[1][c] = affinity[1][c]
                  BY <2>4, Names, BoundElsewhere
            <3> QED BY <1>2, <2>1, <3>1, QuietCalm
      <2> QED BY <2>2, <2>3, <2>4
<1>5. CASE Handler
      <2>1. ASSUME NEW p \in Parent, HandleAdd(p) PROVE BoundInv'
            <3>1. Get("add", p) /\ Admit(p, None) /\ UNCHANGED <<asked, frontVars>> /\ p \in Req
                  BY <2>1, Names DEF HandleAdd
            <3>2. ~Seen(p) /\ Seen(p)'
                  BY <3>1, GetTakes DEF Seen
            <3> QED BY <1>1, <3>1, <3>2, AdmitBound
      <2>2. ASSUME NEW c \in Companion, HandleCompanion(c) PROVE BoundInv'
            <3>1. Get("companion", c) /\ UNCHANGED <<asked, frontVars>> /\ c \in Req /\ c \notin Parent
                  BY <2>2, Names DEF HandleCompanion
            <3>2. ~Seen(c) /\ Seen(c)'
                  BY <3>1, GetTakes DEF Seen
            <3>3. CASE UNCHANGED <<handler, stateVars, poolVars>>
                  BY <1>3, <3>3 DEF stateVars
            <3>4. CASE Admit(c, Owner[c])
                  BY <1>1, <3>1, <3>2, <3>4, AdmitBound
            <3> QED BY <2>2, <3>3, <3>4 DEF HandleCompanion
      <2>3. ASSUME NEW p \in Parent, HandleAbort(p) PROVE BoundInv'
            <3>1. AbortIds(WithCompanions(p)) /\ Forget(WithCompanions(p)) /\ UNCHANGED handler
                  BY <2>3 DEF HandleAbort, taskVars
            <3> QED BY <1>2, <3>1, ForgetCalm
      <2>4. CASE HandleShutdown
            BY <1>2, <2>4, QuietCalm DEF HandleShutdown, At, stateVars, poolVars
      <2> QED BY <1>1, <1>5, <2>1, <2>2, <2>3, <2>4, HandlerPicksBound DEF Handler
<1>6. CASE Finish
      BY <1>2, <1>6, QuietCalm DEF Finish, At, poolVars
<1>7. ASSUME NEW replica \in Replica, ReplicaLost(replica) PROVE BoundInv'
      <2>1. /\ \E ids : Forget(ids)
            /\ UNCHANGED handler /\ \A r \in Req : core'[r] \in {core[r], None}
            BY <1>7 DEF ReplicaLost, taskVars
      <2>2. \A c \in Companion : affinity'[1][c] \in {affinity[1][c], None}
            BY <2>1, Names DEF Forget
      <2>3. \A c \in Companion : c \in requestStates' => c \in requestStates /\ affinity'[0][c] = affinity[0][c]
            BY <2>1, Names DEF Forget
      <2> QED BY <1>2, <2>1, <2>2, <2>3 DEF Calm
<1>8. CASE Process \/ (\E replica \in Replica : HubChanges(replica) \/ CoreDies(replica)) \/ UNCHANGED orchVars
      BY <1>3, <1>8 DEF Process, HubChanges, CoreDies, orchVars, taskVars, stateVars
<1> QED BY <1>1, <1>2, <1>4, <1>5, <1>6, <1>7, <1>8, PollerCalm DEF OrchNext

-----------------------------------------------------------------------------
(* The marks of the tracker.                                                  *)

LEMMA FamiliesApart ==
    ASSUME OrchInv, NEW p \in Parent, NEW q \in Parent, NEW c \in companionMap[p], c \in companionMap[q]
    PROVE  p = q
BY DEF OrchInv, Families

\* What an unchanged queue of marks keeps of the announcements.
LEMMA AnnouncedStays ==
    ASSUME OrchInv, Announced, Onward,
           requestStates' \cup companionsDone' \subseteq requestStates \cup companionsDone,
           poller' = poller \/ poller'.at # "pick" \/ poller'.last \subseteq requestStates,
           \A q \in Parent : companionMap'[q] \subseteq companionMap[q]
    PROVE  Announced'
<1>1. ASSUME NEW c \in Companion,
             c \in requestStates' \cup companionsDone' \/ (poller'.at = "pick" /\ c \in poller'.last)
      PROVE  Taken(Ask("companion", c))'
      <2>1. c \in Req
            BY Names
      <2>2. Taken(Ask("companion", c))
            BY <1>1 DEF Announced
      <2> QED BY <2>1, <2>2, AskIsMessage DEF Onward
<1>2. ASSUME NEW q \in Parent, companionMap'[q] # {} PROVE Taken(Ask("add", q))'
      <2>1. q \in Req
            BY Names
      <2>2. Taken(Ask("add", q))
            BY <1>2 DEF Announced
      <2> QED BY <2>1, <2>2, AskIsMessage DEF Onward
<1> QED BY <1>1, <1>2 DEF Announced

\* A step that touches no mark.
LEMMA QuietTracker ==
    ASSUME OrchInv, TrackerInv, Onward,
           UNCHANGED <<requestStates, trackerVars, stageSubmitTs>>, \A c \in Companion : core'[c] = core[c],
           attached' \subseteq attached,
           handler' = handler \/ (handler.at # "pick" /\ handler'.at # "pick"),
           poller' = poller \/ poller'.at = "done"
    PROVE  TrackerInv'
<1>1. /\ UNCHANGED <<companionMap, companionsDone, pendingParents, companionOutputs>>
      /\ \A q \in Parent : companionMap[q] \in SUBSET Companion
      BY DEF trackerVars, OrchInv, Shapes, Tables
<1>2. Announced'
      BY <1>1, AnnouncedStays DEF TrackerInv
<1>3. FatalRaises' /\ LastIsDone' /\ NotDoneYet'
      BY <1>1 DEF TrackerInv, Onward, FatalRaises, LastIsDone, NotDoneYet
<1>4. CompanionsRun'
      BY <1>1 DEF TrackerInv, Onward, CompanionsRun
<1>5. DeferredMisses'
      BY <1>1 DEF TrackerInv, Onward, DeferredMisses
<1>6. OutputsKept'
      <2>1. \A c \in Companion : Resting(c) => Resting(c)'
            BY DEF Resting
      <2> QED BY <1>1, <2>1 DEF TrackerInv, OutputsKept
<1> QED BY <1>2, <1>3, <1>4, <1>5, <1>6 DEF TrackerInv

\* The output handler is over, and a task has raised.
LEMMA EndedTracker ==
    ASSUME OrchInv, TrackerInv, Onward,
           requestStates' \cup companionsDone' \subseteq requestStates \cup companionsDone,
           \A q \in Parent : companionMap'[q] \subseteq companionMap[q],
           handler'.at = "pick" => handler'.id \notin companionsDone',
           poller'.at = "done", raised' # "no"
    PROVE  TrackerInv'
<1>1. Announced'
      BY AnnouncedStays DEF TrackerInv
<1> QED BY <1>1 DEF TrackerInv, FatalRaises, LastIsDone, CompanionsRun, DeferredMisses, OutputsKept, NotDoneYet

\* An exception ends the output handler; it raises before a shutdown.
LEMMA ThrowEnds ==
    ASSUME NEW e \in {"EngineDead", "RuntimeError"}, NEW early, Throw(e, early)
    PROVE  /\ poller'.at = "done" /\ poller'.id = None /\ requestStates' \subseteq requestStates
           /\ raised' # "no" \/ (shutdown /\ early /\ UNCHANGED requestStates)
BY RaiseOnward DEF Throw, StageDies, At

\* A family is forgotten, with the replicas' work for it.
LEMMA FamilyTracker ==
    ASSUME OrchInv, TrackerInv, Onward, NEW p \in Parent, NEW last \in SUBSET companionMap[p],
           CleanupParent(p), Forget(WithCompanions(p) \cup last),
           \A r \in Req \ WithCompanions(p) : core'[r] = core[r],
           UNCHANGED <<handler, poller, stageSubmitTs, attached>>
    PROVE  TrackerInv'
<1>1. /\ companionMap'[p] = {} /\ \A q \in Parent \ {p} : companionMap'[q] = companionMap[q]
      /\ companionsDone' = companionsDone \ companionMap[p]
      /\ pendingParents' = pendingParents \ {p}
      /\ companionOutputs' = companionOutputs \ companionMap[p]
      BY DEF CleanupParent, OrchInv, Shapes, Tables
<1>2. requestStates' = requestStates \ ({p} \cup companionMap[p])
      BY DEF Forget, WithCompanions
<1>3. \A q \in Parent : companionMap[q] \in SUBSET Companion
      BY DEF OrchInv, Shapes, Tables
<1>4. ASSUME NEW q \in Parent, NEW c \in companionMap'[q]
      PROVE  q # p /\ c \in companionMap[q] /\ c \notin companionMap[p] /\ c \in Companion
      <2>1. q # p /\ c \in companionMap[q]
            BY <1>1, <1>4
      <2> QED BY <1>3, <2>1, FamiliesApart
<1>5. Announced'
      BY <1>1, <1>2, AnnouncedStays DEF TrackerInv
<1>6. FatalRaises' /\ NotDoneYet'
      BY <1>1 DEF TrackerInv, FatalRaises, NotDoneYet, Onward
<1>7. LastIsDone'
      BY <1>1, <1>4 DEF TrackerInv, LastIsDone
<1>8. CompanionsRun'
      <2> SUFFICES ASSUME raised' = "no", NEW q \in Parent, NEW c \in Companion,
                          c \in companionMap'[q] \ companionsDone'
                   PROVE  /\ c \in requestStates' \cup detached'
                          /\ c \in detached' \/ core'[c] # None \/ (handler'.at = "pick" /\ handler'.id = c)
            BY DEF CompanionsRun
      <2>1. c \in companionMap[q] \ companionsDone /\ c \notin companionMap[p] /\ c # p /\ c \in Req
            BY <1>1, <1>4, Names
      <2>2. core'[c] = core[c]
            BY <2>1 DEF WithCompanions
      <2> QED BY <1>2, <2>1, <2>2 DEF TrackerInv, CompanionsRun, Onward
<1>9. DeferredMisses'
      <2> SUFFICES ASSUME raised' = "no", NEW q \in Parent, q \in pendingParents' \ detached'
                   PROVE  q \in requestStates' /\ \E c \in companionMap'[q] : c \notin companionsDone'
            BY DEF DeferredMisses
      <2>1. q # p /\ q \in pendingParents \ detached
            BY <1>1 DEF Onward
      <2>2. q \in requestStates /\ \E c \in companionMap[q] : c \notin companionsDone
            BY <2>1 DEF TrackerInv, DeferredMisses, Onward
      <2>3. q \notin companionMap[p]
            BY <1>3, Names
      <2> QED BY <1>1, <1>2, <2>1, <2>2, <2>3
<1>10. OutputsKept'
      <2>1. ASSUME NEW q \in Parent, NEW c \in companionMap'[q], Resting(c) PROVE Resting(c)'
            <3>1. c \in Req \ WithCompanions(p)
                  BY <1>4, <2>1, Names DEF WithCompanions
            <3> QED BY <1>2, <2>1, <3>1 DEF Resting, WithCompanions
      <2> SUFFICES ASSUME poller.at # "done", NEW q \in Parent, 1 \notin stageSubmitTs[q],
                          ~(poller.at = "pick" /\ poller.id = q),
                          NEW c \in (companionMap'[q] \cap companionsDone') \ companionOutputs'
                   PROVE  Resting(c)'
            BY DEF OutputsKept
      <2>2. c \in (companionMap[q] \cap companionsDone) \ companionOutputs
            BY <1>1, <1>4
      <2> QED BY <2>1, <2>2 DEF TrackerInv, OutputsKept
<1> QED BY <1>5, <1>6, <1>7, <1>8, <1>9, <1>10 DEF TrackerInv

\* A parent goes on with what its companions left: it is sent on, or waits.
LEMMA ForwardedTracker ==
    ASSUME OrchInv, OrchTypes, BoundInv, TrackerInv, Onward, NEW p \in Parent, p \in requestStates,
           NEW done \in SUBSET companionMap[p], NEW last \in SUBSET done, NEW early, done \subseteq requestStates,
           companionMap[p] \ companionsDone \subseteq done, \A r \in done : core[r] # None, poller.at = "poll",
           \A r \in Req \ ({p} \cup done) : core'[r] = core[r],
           companionOutputs' = (companionOutputs \cup last) \ companionMap[p],
           companionsDone' = companionsDone \cup done,
           pendingParents' = pendingParents \ {p},
           UNCHANGED <<companionMap, handler, attached>>,
           \/ ~engineDead /\ SubmitDiffusion(p, last, early)
           \/ poller' = Waiting(p, last, early) /\ UNCHANGED stateVars
    PROVE  TrackerInv'
<1>1. /\ \A q \in Parent : companionMap[q] \in SUBSET Companion
      /\ stageSubmitTs \in [Req -> SUBSET Stage] /\ p \in Req
      BY Names DEF OrchInv, Shapes, Tables, OrchTypes, TrackTypes
<1>2. /\ requestStates' \in {requestStates, requestStates \ last}
      /\ \A q \in Parent \ {p} : stageSubmitTs'[q] = stageSubmitTs[q]
      /\ \/ poller'.at # "pick" /\ 1 \in stageSubmitTs'[p]
         \/ poller'.at = "pick" /\ poller'.id = p /\ poller'.last = last
      BY <1>1, Names DEF SubmitDiffusion, At, Waiting, stateVars
<1>3. \A q \in Parent \ {p} : \A c \in companionMap[q] : c \notin companionMap[p]
      BY FamiliesApart
<1>4. Announced'
      <2>1. requestStates' \cup companionsDone' \subseteq requestStates \cup companionsDone
            BY <1>2
      <2>2. poller'.at # "pick" \/ poller'.last \subseteq requestStates
            BY <1>2
      <2> QED BY <2>1, <2>2, AnnouncedStays DEF TrackerInv
<1>5. FatalRaises' /\ NotDoneYet'
      BY DEF TrackerInv, FatalRaises, NotDoneYet, Onward, BoundInv
<1>6. LastIsDone'
      <2>1. \A c \in done : Owner[c] = p
            BY DEF OrchInv, Families
      <2> QED BY <1>2, <2>1 DEF LastIsDone
<1>7. CompanionsRun'
      <2> SUFFICES ASSUME raised' = "no", NEW q \in Parent, NEW c \in Companion,
                          c \in companionMap[q] \ companionsDone'
                   PROVE  /\ c \in requestStates' \cup detached'
                          /\ c \in detached' \/ core'[c] # None \/ (handler'.at = "pick" /\ handler'.id = c)
            BY DEF CompanionsRun
      <2>1. c \notin done /\ c # p /\ c \in Req /\ c \notin companionsDone
            BY Names
      <2>2. core'[c] = core[c]
            BY <2>1
      <2> QED BY <1>2, <2>1, <2>2 DEF TrackerInv, CompanionsRun, Onward
<1>8. DeferredMisses'
      <2> SUFFICES ASSUME raised' = "no", NEW q \in Parent, q \in pendingParents' \ detached'
                   PROVE  q \in requestStates' /\ \E c \in companionMap[q] : c \notin companionsDone'
            BY DEF DeferredMisses
      <2>1. q # p /\ q \in pendingParents \ detached /\ q \notin last
            BY <1>1, Names DEF Onward
      <2>2. q \in requestStates
            BY <2>1 DEF TrackerInv, DeferredMisses, Onward
      <2>3. PICK c \in companionMap[q] : c \notin companionsDone
            BY <2>1 DEF TrackerInv, DeferredMisses, Onward
      <2>4. c \notin companionsDone'
            BY <1>3, <2>1, <2>3
      <2> QED BY <1>2, <2>1, <2>2, <2>4
<1>9. OutputsKept'
      <2> SUFFICES ASSUME NEW q \in Parent, q # p, 1 \notin stageSubmitTs'[q],
                          NEW c \in (companionMap[q] \cap companionsDone') \ companionOutputs'
                   PROVE  Resting(c)'
            BY <1>2 DEF OutputsKept
      <2>1. c \notin companionMap[p] /\ c \in Companion /\ c \in Req /\ c # p
            BY <1>1, <1>3, Names
      <2>2. c \in (companionMap[q] \cap companionsDone) \ companionOutputs /\ c \notin last
            BY <2>1
      <2>3. Resting(c)
            BY <1>2, <2>2 DEF TrackerInv, OutputsKept
      <2>4. core'[c] = core[c]
            BY <2>1
      <2> QED BY <1>2, <2>2, <2>3, <2>4 DEF Resting
<1> QED BY <1>4, <1>5, <1>6, <1>7, <1>8, <1>9 DEF TrackerInv

\* A companion is done, and its parent is not sent on by it.
LEMMA CompanionDoneTracker ==
    ASSUME OrchInv, BoundInv, TrackerInv, Onward, NEW p \in Parent, NEW c \in companionMap[p],
           c \in requestStates, core[c] # None,
           NEW output \in {{}, {c}}, Forget(output),
           \A r \in Req \ output : core'[r] = core[r],
           companionsDone' = companionsDone \cup {c}, companionOutputs' = companionOutputs \cup output,
           pendingParents' =
               IF p \in pendingParents /\ c \notin companionsDone /\ companionMap[p] \ companionsDone \subseteq {c}
               THEN pendingParents \ {p} ELSE pendingParents,
           UNCHANGED <<poller, stageSubmitTs, companionMap, handler, attached>>
    PROVE  TrackerInv'
<1>1. /\ requestStates' = requestStates \ output
      /\ \A q \in Parent : companionMap[q] \in SUBSET Companion
      BY DEF Forget, OrchInv, Shapes, Tables
<1>2. Announced'
      <2>1. requestStates' \cup companionsDone' \subseteq requestStates \cup companionsDone
            BY <1>1
      <2> QED BY <2>1, AnnouncedStays DEF TrackerInv
<1>3. FatalRaises' /\ LastIsDone' /\ NotDoneYet'
      BY DEF TrackerInv, FatalRaises, LastIsDone, NotDoneYet, Onward, BoundInv
<1>4. CompanionsRun'
      <2> SUFFICES ASSUME raised' = "no", NEW q \in Parent, NEW e \in Companion,
                          e \in companionMap[q] \ companionsDone'
                   PROVE  /\ e \in requestStates' \cup detached'
                          /\ e \in detached' \/ core'[e] # None \/ (handler'.at = "pick" /\ handler'.id = e)
            BY DEF CompanionsRun
      <2>1. e # c /\ e \in Req /\ e \notin companionsDone
            BY Names
      <2>2. core'[e] = core[e]
            BY <2>1
      <2> QED BY <1>1, <2>1, <2>2 DEF TrackerInv, CompanionsRun, Onward
<1>5. DeferredMisses'
      <2> SUFFICES ASSUME raised' = "no", NEW q \in Parent, q \in pendingParents' \ detached'
                   PROVE  q \in requestStates' /\ \E e \in companionMap[q] : e \notin companionsDone'
            BY DEF DeferredMisses
      <2>1. q \in pendingParents \ detached /\ q # c
            <3>1. c \in Companion
                  BY <1>1
            <3> QED BY <3>1, Names DEF Onward
      <2>2. q \in requestStates
            BY <2>1 DEF TrackerInv, DeferredMisses, Onward
      <2>3. PICK e \in companionMap[q] : e \notin companionsDone
            BY <2>1 DEF TrackerInv, DeferredMisses, Onward
      <2>4. CASE q = p
            BY <1>1, <2>1, <2>2, <2>3, <2>4
      <2>5. CASE q # p
            <3>1. e # c
                  BY <2>5, FamiliesApart
            <3> QED BY <1>1, <2>1, <2>2, <2>3, <3>1
      <2> QED BY <2>4, <2>5
<1>6. OutputsKept'
      <2> SUFFICES ASSUME poller.at # "done", NEW q \in Parent, 1 \notin stageSubmitTs[q],
                          ~(poller.at = "pick" /\ poller.id = q),
                          NEW e \in (companionMap[q] \cap companionsDone') \ companionOutputs'
                   PROVE  Resting(e)'
            BY DEF OutputsKept
      <2>1. e \in Req /\ e \notin output
            BY <1>1, Names
      <2>2. core'[e] = core[e]
            BY <2>1
      <2>3. CASE e = c
            BY <1>1, <2>1, <2>2, <2>3 DEF Resting
      <2>4. CASE e # c
            <3>1. e \in (companionMap[q] \cap companionsDone) \ companionOutputs
                  BY <2>4
            <3>2. Resting(e)
                  BY <3>1 DEF TrackerInv, OutputsKept
            <3> QED BY <1>1, <2>1, <2>2, <3>2 DEF Resting
      <2> QED BY <2>3, <2>4
<1> QED BY <1>2, <1>3, <1>4, <1>5, <1>6 DEF TrackerInv

\* A parent is deferred.
LEMMA DeferredTracker ==
    ASSUME OrchInv, TrackerInv, Onward, NEW p \in Parent, p \in requestStates,
           ~(companionMap[p] \subseteq companionsDone),
           \A c \in Companion : core'[c] = core[c],
           pendingParents' = pendingParents \cup {p},
           UNCHANGED <<poller, stateVars, companionMap, companionsDone, companionOutputs, handler, attached>>
    PROVE  TrackerInv'
<1>1. /\ UNCHANGED <<requestStates, stageSubmitTs>>
      /\ \A q \in Parent : companionMap[q] \in SUBSET Companion
      BY DEF stateVars, OrchInv, Shapes, Tables
<1>2. Announced'
      BY <1>1, AnnouncedStays DEF TrackerInv
<1>3. FatalRaises' /\ LastIsDone' /\ NotDoneYet'
      BY <1>1 DEF TrackerInv, FatalRaises, LastIsDone, NotDoneYet, Onward
<1>4. CompanionsRun'
      BY <1>1 DEF TrackerInv, CompanionsRun, Onward
<1>5. DeferredMisses'
      BY <1>1 DEF TrackerInv, DeferredMisses, Onward
<1>6. OutputsKept'
      <2>1. \A c \in Companion : Resting(c) => Resting(c)'
            BY <1>1 DEF Resting
      <2> QED BY <1>1, <2>1 DEF TrackerInv, OutputsKept
<1> QED BY <1>2, <1>3, <1>4, <1>5, <1>6 DEF TrackerInv

\* A parent is forwarded.
LEMMA ForwardTracker ==
    ASSUME OrchInv, OrchTypes, BoundInv, TrackerInv, Onward, NEW p \in Parent, p \in requestStates,
           NEW done \in SUBSET companionMap[p], NEW early \in BOOLEAN, Forward(p, done, early),
           done \subseteq requestStates, companionMap[p] \ companionsDone \subseteq done,
           \A r \in done : core[r] # None, poller.at = "poll", ~shutdown,
           \A r \in Req \ ({p} \cup done) : core'[r] = core[r], UNCHANGED <<handler, attached>>
    PROVE  TrackerInv'
<1> DEFINE last == IF early THEN {} ELSE done
<1>1. last \in SUBSET done /\ last \in SUBSET companionMap[p]
      OBVIOUS
<1>2. CASE CleanupParent(p) /\ Forget(WithCompanions(p) \cup last) /\ UNCHANGED <<poller, stageSubmitTs>>
      <2>1. \A r \in Req \ WithCompanions(p) : core'[r] = core[r]
            BY DEF WithCompanions
      <2> QED BY <1>1, <1>2, <2>1, FamilyTracker
<1>3. CASE /\ companionsDone' = companionsDone \cup done /\ UNCHANGED companionMap
           /\ poller'.at = "done" /\ requestStates' \subseteq requestStates /\ raised' # "no"
      <2>1. requestStates' \cup companionsDone' \subseteq requestStates \cup companionsDone
            BY <1>3
      <2>2. handler'.at = "pick" => handler'.id \notin companionsDone'
            BY <1>3 DEF BoundInv, TrackerInv, NotDoneYet
      <2> QED BY <1>3, <2>1, <2>2, EndedTracker
<1>4. CASE /\ companionsDone' = companionsDone \cup done /\ pendingParents' = pendingParents \ {p}
           /\ companionOutputs' = (companionOutputs \cup last) \ companionMap[p] /\ UNCHANGED companionMap
           /\ \/ ~engineDead /\ SubmitDiffusion(p, last, early)
              \/ poller' = Waiting(p, last, early) /\ UNCHANGED stateVars
      BY <1>1, <1>4, ForwardedTracker
<1>5. CASE /\ companionsDone' = companionsDone \cup done /\ UNCHANGED companionMap
           /\ \E e \in {"EngineDead", "RuntimeError"} : Throw(e, early)
      BY <1>3, <1>5, ThrowEnds
<1> QED BY <1>2, <1>4, <1>5 DEF Forward, PopOutputs, SubmitDiffusion

\* The steps of the output handler.
LEMMA PollLLMTracker ==
    ASSUME OrchInv, OrchTypes, BoundInv, TrackerInv, Onward, NEW r \in Req, PollLLM(r)
    PROVE  TrackerInv'
<1>1. /\ poller.at = "poll" /\ ~shutdown /\ UNCHANGED <<handler, attached>>
      /\ core \in [Req -> Replica0 \cup {None}]
      /\ core[r] \in attached /\ core[r] # None
      <2>1. attached \subseteq Replica /\ None \notin Replica
            BY OrchAssumption DEF OrchTypes, FleetTypes
      <2> QED BY <2>1 DEF PollLLM, Polls, PollerFrame, hubVars, OrchTypes, FleetTypes
<1>2. CASE r \notin requestStates /\ core' = [core EXCEPT ![r] = None] /\ UNCHANGED Dropped
      <2>1. /\ UNCHANGED <<requestStates, stageSubmitTs, poller, raised, companionMap, companionsDone,
                           pendingParents, companionOutputs>>
            /\ \A q \in Parent : companionMap[q] \in SUBSET Companion
            BY <1>2 DEF Dropped, stateVars, trackerVars, OrchInv, Shapes, Tables
      <2>2. Announced'
            BY <2>1, AnnouncedStays DEF TrackerInv
      <2>3. \A c \in Companion : core'[c] = core[c] \/ (c = r /\ c \notin requestStates)
            BY <1>1, <1>2, Names
      <2>4. CompanionsRun'
            BY <1>1, <2>1, <2>3 DEF TrackerInv, CompanionsRun, Onward
      <2>5. FatalRaises' /\ LastIsDone' /\ DeferredMisses' /\ NotDoneYet'
            BY <1>1, <2>1 DEF TrackerInv, FatalRaises, LastIsDone, DeferredMisses, NotDoneYet, Onward
      <2>6. OutputsKept'
            <3>1. \A c \in Companion : Resting(c) => Resting(c)'
                  BY <1>1, <2>1, <2>3 DEF Resting
            <3> QED BY <2>1, <3>1 DEF TrackerInv, OutputsKept
      <2> QED BY <2>2, <2>4, <2>5, <2>6 DEF TrackerInv
<1>3. CASE r \in requestStates /\ StageError(r)
      <2>1. PICK p \in Parent : /\ CleanupParent(p) /\ AbortIds(WithCompanions(p)) /\ Forget(WithCompanions(p))
                                /\ UNCHANGED <<poller, stageSubmitTs, raised>>
            BY <1>3, StageErrorFamily
      <2>2. WithCompanions(p) \cup {} = WithCompanions(p) /\ {} \in SUBSET companionMap[p]
            OBVIOUS
      <2>3. \A e \in Req \ WithCompanions(p) : core'[e] = core[e]
            BY <2>1 DEF AbortIds
      <2> QED BY <1>1, <2>1, <2>2, <2>3, FamilyTracker
<1>4. ASSUME NEW early \in BOOLEAN, r \in requestStates, IsCompanion(r), CompanionDone(r, early),
             core' = IF early THEN core ELSE [core EXCEPT ![r] = None]
      PROVE  TrackerInv'
      <2>1. r \in Companion /\ Owner[r] \in Parent /\ r \in companionMap[Owner[r]]
            BY <1>4, DoneOwner
      <2>2. CASE /\ Forward(Owner[r], {r}, early) /\ Owner[r] \in requestStates
                 /\ companionMap[Owner[r]] \ companionsDone \subseteq {r}
            <3>1. /\ {r} \in SUBSET companionMap[Owner[r]] /\ {r} \subseteq requestStates
                  /\ \A e \in {r} : core[e] # None
                  /\ \A e \in Req \ ({Owner[r]} \cup {r}) : core'[e] = core[e]
                  BY <1>1, <1>4, <2>1
            <3> QED BY <1>1, <2>1, <2>2, <3>1, ForwardTracker
      <2>3. CASE /\ companionsDone' = companionsDone \cup {r}
                 /\ companionOutputs' = companionOutputs \cup (IF early THEN {} ELSE {r})
                 /\ pendingParents' = IF /\ Owner[r] \in pendingParents /\ r \notin companionsDone
                                         /\ companionMap[Owner[r]] \ companionsDone \subseteq {r}
                                      THEN pendingParents \ {Owner[r]} ELSE pendingParents
                 /\ Forget(IF early THEN {} ELSE {r}) /\ UNCHANGED <<poller, stageSubmitTs, companionMap>>
            <3>1. PICK output \in {{}, {r}} : output = IF early THEN {} ELSE {r}
                  BY <1>4
            <3>2. \A e \in Req \ output : core'[e] = core[e]
                  BY <1>1, <1>4, <3>1
            <3> QED BY <1>1, <1>4, <2>1, <2>3, <3>1, <3>2, CompanionDoneTracker
      <2> QED BY <1>4, <2>2, <2>3 DEF CompanionDone
<1>5. ASSUME NEW early \in BOOLEAN, r \in requestStates, ~IsCompanion(r), ParentDone(r, early),
             core' = IF early THEN core ELSE [core EXCEPT ![r] = None]
      PROVE  TrackerInv'
      <2>1. r \in Parent
            BY <1>5, OrchAssumption DEF OrchInv, Families
      <2>2. \A c \in Req \ {r} : core'[c] = core[c]
            BY <1>1, <1>5
      <2>3. \A c \in Companion : core'[c] = core[c]
            BY <2>1, <2>2, Names
      <2>4. CASE UNCHANGED Dropped
            BY <1>1, <2>3, <2>4, QuietTracker DEF Dropped, stateVars
      <2>5. CASE Forward(r, {}, early) /\ companionMap[r] \subseteq companionsDone
            <3>1. /\ {} \in SUBSET companionMap[r] /\ {} \subseteq requestStates
                  /\ companionMap[r] \ companionsDone \subseteq {} /\ \A e \in {} : core[e] # None
                  /\ \A e \in Req \ ({r} \cup {}) : core'[e] = core[e]
                  BY <2>2, <2>5
            <3> QED BY <1>1, <1>5, <2>1, <2>5, <3>1, ForwardTracker
      <2>6. CASE /\ ~(companionMap[r] \subseteq companionsDone) /\ pendingParents' = pendingParents \cup {r}
                 /\ UNCHANGED <<poller, stateVars, companionMap, companionsDone, companionOutputs>>
            BY <1>1, <1>5, <2>1, <2>3, <2>6, DeferredTracker
      <2> QED BY <1>5, <2>4, <2>5, <2>6 DEF ParentDone
<1> QED BY <1>2, <1>3, <1>4, <1>5 DEF PollLLM

LEMMA PollDiffusionTracker ==
    ASSUME OrchInv, TrackerInv, Onward, PollDiffusion
    PROVE  TrackerInv'
<1>1. UNCHANGED <<handler, attached>>
      BY DEF PollDiffusion, PollerFrame, hubVars
<1>2. ASSUME NEW r \in Parent, NEW kind \in {"result", "error"}, DiffusionOutput(Reply(r, kind))
      PROVE  TrackerInv'
      <2>1. Reply(r, kind).id = r /\ r \in Req
            BY Names DEF Reply
      <2>2. CASE UNCHANGED <<Dropped, core>>
            BY <1>1, <2>2, QuietTracker DEF Dropped, stateVars
      <2>3. ASSUME NEW p \in Parent, CleanupParent(p), Forget(WithCompanions(p)),
                   UNCHANGED <<poller, stageSubmitTs, raised>>,
                   \A e \in Req \ WithCompanions(p) : core'[e] = core[e]
            PROVE  TrackerInv'
            <3>1. WithCompanions(p) \cup {} = WithCompanions(p) /\ {} \in SUBSET companionMap[p]
                  OBVIOUS
            <3> QED BY <1>1, <2>3, <3>1, FamilyTracker
      <2>4. CASE r \in requestStates /\ StageError(r)
            <3>1. PICK p \in Parent : /\ CleanupParent(p) /\ AbortIds(WithCompanions(p))
                                      /\ Forget(WithCompanions(p))
                                      /\ UNCHANGED <<poller, stageSubmitTs, raised>>
                  BY <2>1, <2>4, StageErrorFamily
            <3>2. \A e \in Req \ WithCompanions(p) : core'[e] = core[e]
                  BY <3>1 DEF AbortIds
            <3> QED BY <2>3, <3>1, <3>2
      <2>5. CASE CleanupParent(r) /\ Forget(WithCompanions(r)) /\ UNCHANGED <<poller, stageSubmitTs, core, raised>>
            BY <2>3, <2>5
      <2> QED BY <1>2, <2>1, <2>2, <2>4, <2>5 DEF DiffusionOutput
<1>3. CASE UNCHANGED <<stateVars, trackerVars, poolVars>> /\ (poller' = At("done") \/ UNCHANGED poller)
      <2>1. UNCHANGED <<requestStates, trackerVars, core, stageSubmitTs>>
            BY <1>3 DEF stateVars, poolVars
      <2>2. poller' = poller \/ poller'.at = "done"
            BY <1>3 DEF At
      <2> QED BY <1>1, <2>1, <2>2, QuietTracker
<1> QED BY <1>2, <1>3 DEF PollDiffusion

LEMMA PollerPicksTracker ==
    ASSUME OrchInv, OrchTypes, TrackerInv, Onward, PollerPicks
    PROVE  TrackerInv'
<1>1. /\ poller.at = "pick" /\ poller.id \in Parent /\ poller.last \in SUBSET Companion
      /\ UNCHANGED <<handler, trackerVars, core, attached>>
      BY DEF PollerPicks, PollerFrame, hubVars, OrchInv, Shapes, Tables
<1>2. /\ UNCHANGED <<companionMap, companionsDone, pendingParents, companionOutputs>>
      /\ \A q \in Parent : companionMap[q] \in SUBSET Companion
      BY <1>1 DEF trackerVars, OrchInv, Shapes, Tables
<1>3. CASE UNCHANGED stageSubmitTs /\ \E e \in {"EngineDead", "RuntimeError"} : Throw(e, poller.early)
      <2>1. /\ poller'.at = "done" /\ requestStates' \subseteq requestStates
            /\ raised' # "no" \/ UNCHANGED requestStates
            BY <1>3, ThrowEnds
      <2>2. CASE raised' # "no"
            BY <1>1, <1>2, <2>1, <2>2, EndedTracker DEF TrackerInv, NotDoneYet
      <2>3. CASE UNCHANGED requestStates
            BY <1>1, <1>3, <2>1, <2>3, QuietTracker
      <2> QED BY <2>1, <2>2, <2>3
<1>4. CASE ~engineDead /\ SubmitDiffusion(poller.id, poller.last, poller.early)
      <2>1. /\ requestStates' = requestStates \ poller.last /\ poller'.at = "poll"
            /\ 1 \in stageSubmitTs'[poller.id]
            /\ \A q \in Parent \ {poller.id} : stageSubmitTs'[q] = stageSubmitTs[q]
            BY <1>1, <1>4, Names DEF SubmitDiffusion, At, OrchTypes, TrackTypes
      <2>2. Announced'
            <3>1. requestStates' \cup companionsDone' \subseteq requestStates \cup companionsDone
                  BY <1>2, <2>1
            <3> QED BY <1>2, <2>1, <3>1, AnnouncedStays DEF TrackerInv
      <2>3. FatalRaises' /\ LastIsDone' /\ NotDoneYet'
            BY <1>1, <1>2, <2>1 DEF TrackerInv, FatalRaises, LastIsDone, NotDoneYet, Onward
      <2>4. CompanionsRun'
            <3>1. \A q \in Parent : \A c \in companionMap[q] \ companionsDone : c \notin poller.last
                  BY <1>1 DEF TrackerInv, LastIsDone
            <3> QED BY <1>1, <1>2, <2>1, <3>1 DEF TrackerInv, CompanionsRun, Onward
      <2>5. DeferredMisses'
            <3>1. \A q \in Parent : q \notin poller.last
                  BY <1>1, Names
            <3> QED BY <1>2, <2>1, <3>1 DEF TrackerInv, DeferredMisses, Onward
      <2>6. OutputsKept'
            <3> SUFFICES ASSUME NEW q \in Parent, 1 \notin stageSubmitTs'[q],
                                NEW c \in (companionMap[q] \cap companionsDone) \ companionOutputs
                         PROVE  Resting(c)'
                  BY <1>2 DEF OutputsKept
            <3>1. q # poller.id /\ Resting(c)
                  BY <1>1, <2>1 DEF TrackerInv, OutputsKept
            <3>2. c \notin poller.last
                  BY <1>1, <3>1 DEF TrackerInv, LastIsDone, OrchInv, Families
            <3> QED BY <1>1, <2>1, <3>1, <3>2 DEF Resting
      <2> QED BY <2>2, <2>3, <2>4, <2>5, <2>6 DEF TrackerInv
<1> QED BY <1>3, <1>4 DEF PollerPicks, SubmitDiffusion

LEMMA PollerTracker ==
    ASSUME OrchInv, OrchTypes, BoundInv, TrackerInv, Onward, Poller
    PROVE  TrackerInv'
<1>1. CASE PollDead
      <2>1. /\ requestStates' \subseteq requestStates /\ poller'.at = "done" /\ raised' # "no"
            /\ UNCHANGED <<handler, companionMap, companionsDone>>
            BY <1>1, RaiseOnward DEF PollDead, StageDies, At, trackerVars
      <2> QED BY <2>1, EndedTracker DEF TrackerInv, NotDoneYet
<1>2. CASE PollerEnds
      <2>1. poller'.at = "done" /\ UNCHANGED <<requestStates, trackerVars, core, stageSubmitTs, handler, attached>>
            BY <1>2 DEF PollerEnds, At, stateVars, poolVars, hubVars
      <2> QED BY <2>1, QuietTracker
<1> QED BY <1>1, <1>2, PollLLMTracker, PollDiffusionTracker, PollerPicksTracker DEF Poller

\* A request is admitted: a replica runs it, its task holds it, or a task raised.
LEMMA AdmitRuns ==
    ASSUME OrchTypes, NEW r \in Req, NEW like, Admit(r, like)
    PROVE  /\ requestStates' = requestStates \cup {r}
           /\ \A e \in Req \ {r} : stageSubmitTs'[e] = stageSubmitTs[e] /\ core'[e] = core[e]
           /\ raised' # "no" \/ core'[r] # None \/ (handler'.at = "pick" /\ handler'.id = r)
           /\ handler'.at = "pick" => handler'.id = r
<1>1. core \in [Req -> Replica0 \cup {None}] /\ stageSubmitTs \in [Req -> SUBSET Stage]
      BY DEF OrchTypes, FleetTypes, TrackTypes
<1>2. \A replica \in Candidates(0, r, like) : replica # None
      <2>1. Candidates(0, r, like) \subseteq Replica0
            BY DEF Candidates, Serviceable
      <2>2. None \notin Replica0
            BY OrchAssumption DEF Replica
      <2> QED BY <2>1, <2>2
<1>3. CASE \E replica \in Candidates(0, r, like) : SubmitLLM(r, replica)
      <2>1. PICK replica \in Candidates(0, r, like) : SubmitLLM(r, replica)
            BY <1>3
      <2>2. CASE replica \in coreDead
            BY <1>1, <2>1, <2>2, RaiseOnward DEF SubmitLLM, At, Admit
      <2>3. CASE replica \notin coreDead
            BY <1>1, <1>2, <2>1, <2>3 DEF SubmitLLM, At, Admit
      <2> QED BY <2>2, <2>3
<1>4. CASE handler' = Waiting(r, {}, FALSE) /\ UNCHANGED core
      BY <1>1, <1>4 DEF Waiting, Admit
<1> QED BY <1>3, <1>4 DEF Admit

LEMMA HandleAddTracker ==
    ASSUME OrchInv, OrchTypes, TrackerInv, Onward, NEW p \in Parent, HandleAdd(p)
    PROVE  TrackerInv'
<1>1. /\ Get("add", p) /\ Admit(p, None) /\ p \in Req
      /\ UNCHANGED <<asked, frontVars, poller, companionMap, companionsDone, pendingParents, companionOutputs, detached,
                     fatalError, attached>>
      BY Names DEF HandleAdd, trackerVars, ghostVars, hubVars
<1>2. /\ requestStates' = requestStates \cup {p}
      /\ \A e \in Req \ {p} : stageSubmitTs'[e] = stageSubmitTs[e] /\ core'[e] = core[e]
      /\ handler'.at = "pick" => handler'.id = p
      BY <1>1, AdmitRuns
<1>3. companionMap[p] = {} /\ \A q \in Parent : companionMap[q] \in SUBSET Companion
      BY <1>1, GetTakes DEF TrackerInv, Announced, OrchInv, Shapes, Tables
<1>4. Announced'
      <2>1. \A c \in Companion : Taken(Ask("companion", c)) => Taken(Ask("companion", c))'
            BY Names, AskIsMessage DEF Onward
      <2>2. \A q \in Parent : Taken(Ask("add", q)) => Taken(Ask("add", q))'
            BY Names, AskIsMessage DEF Onward
      <2> QED BY <1>1, <1>2, <2>1, <2>2, Names DEF TrackerInv, Announced
<1>5. FatalRaises' /\ LastIsDone'
      BY <1>1 DEF TrackerInv, FatalRaises, LastIsDone, Onward
<1>6. NotDoneYet'
      <2>1. p \notin companionsDone
            BY Names DEF OrchTypes, TrackTypes
      <2> QED BY <1>1, <1>2, <2>1 DEF NotDoneYet
<1>7. CompanionsRun'
      <2>1. handler.at # "pick"
            BY <1>1 DEF Get
      <2>2. \A c \in Companion : core'[c] = core[c]
            BY <1>2, Names
      <2> QED BY <1>1, <1>2, <2>1, <2>2 DEF TrackerInv, CompanionsRun, Onward
<1>8. DeferredMisses'
      BY <1>1, <1>2 DEF TrackerInv, DeferredMisses, Onward
<1>9. OutputsKept'
      <2>1. \A q \in Parent \ {p} : stageSubmitTs'[q] = stageSubmitTs[q]
            BY <1>2, Names
      <2>2. \A c \in Companion : Resting(c) => Resting(c)'
            BY <1>1, <1>2, Names DEF Resting
      <2> QED BY <1>1, <1>3, <2>1, <2>2 DEF TrackerInv, OutputsKept
<1> QED BY <1>4, <1>5, <1>6, <1>7, <1>8, <1>9 DEF TrackerInv

LEMMA HandleCompanionTracker ==
    ASSUME OrchInv, OrchTypes, TrackerInv, Onward, NEW c \in Companion, HandleCompanion(c)
    PROVE  TrackerInv'
<1>1. /\ Get("companion", c) /\ c \in Req /\ Owner[c] \in Parent /\ Owner[c] \in Req
      /\ UNCHANGED <<asked, frontVars, poller, companionsDone, pendingParents, companionOutputs, bundled, detached,
                     fatalError, attached>>
      BY Names DEF HandleCompanion, ghostVars, hubVars
<1>2. handler.at = "get"
      BY <1>1 DEF Get
<1>3. CASE Owner[c] \notin requestStates
      <2>1. UNCHANGED <<requestStates, trackerVars, core, stageSubmitTs, handler>>
            BY <1>1, <1>3 DEF HandleCompanion, stateVars, poolVars, trackerVars
      <2> QED BY <1>1, <2>1, QuietTracker
<1>4. CASE Owner[c] \in requestStates
      <2>1. /\ companionMap' = [companionMap EXCEPT ![Owner[c]] = @ \cup {c}]
            /\ Admit(c, Owner[c])
            BY <1>4 DEF HandleCompanion
      <2>2. /\ requestStates' = requestStates \cup {c}
            /\ \A e \in Req \ {c} : stageSubmitTs'[e] = stageSubmitTs[e] /\ core'[e] = core[e]
            /\ raised' # "no" \/ core'[c] # None \/ (handler'.at = "pick" /\ handler'.id = c)
            /\ handler'.at = "pick" => handler'.id = c
            BY <1>1, <2>1, AdmitRuns
      <2>3. \A q \in Parent : companionMap'[q] = IF q = Owner[c] THEN companionMap[q] \cup {c} ELSE companionMap[q]
            BY <1>1, <2>1 DEF OrchInv, Shapes, Tables
      <2>4. ~Taken(Ask("companion", c)) /\ Taken(Ask("companion", c))'
            BY <1>1, GetTakes
      <2>5. c \notin companionsDone /\ ~(poller.at = "pick" /\ c \in poller.last)
            BY <2>4 DEF TrackerInv, Announced
      <2>6. Announced'
            <3>1. \A e \in Companion : Taken(Ask("companion", e)) => Taken(Ask("companion", e))'
                  BY Names, AskIsMessage DEF Onward
            <3>2. \A q \in Parent : Taken(Ask("add", q)) => Taken(Ask("add", q))'
                  BY Names, AskIsMessage DEF Onward
            <3>3. Taken(Ask("add", Owner[c]))
                  BY <1>1, <1>4 DEF OrchInv, Unread, Taken
            <3>4. ASSUME NEW e \in Companion,
                         e \in requestStates' \cup companionsDone' \/ (poller'.at = "pick" /\ e \in poller'.last)
                  PROVE  Taken(Ask("companion", e))'
                  BY <1>1, <2>2, <2>4, <3>1, <3>4 DEF TrackerInv, Announced
            <3>5. ASSUME NEW q \in Parent, companionMap'[q] # {} PROVE Taken(Ask("add", q))'
                  BY <1>1, <2>3, <3>2, <3>3, <3>5 DEF TrackerInv, Announced
            <3> QED BY <3>4, <3>5 DEF Announced
      <2>7. FatalRaises' /\ LastIsDone' /\ NotDoneYet'
            <3>1. FatalRaises' /\ NotDoneYet'
                  BY <1>1, <2>2, <2>5 DEF TrackerInv, FatalRaises, NotDoneYet, Onward
            <3>2. LastIsDone'
                  <4> SUFFICES ASSUME poller.at = "pick", NEW q \in Parent
                               PROVE  poller.last \cap companionMap'[q] \subseteq companionsDone
                        BY <1>1 DEF TrackerInv, LastIsDone
                  <4>1. poller.last \cap companionMap[q] \subseteq companionsDone
                        BY DEF TrackerInv, LastIsDone
                  <4>2. companionMap'[q] \subseteq companionMap[q] \cup {c}
                        BY <2>3
                  <4> QED BY <2>5, <4>1, <4>2
            <3> QED BY <3>1, <3>2
      <2>8. CompanionsRun'
            <3> SUFFICES ASSUME raised' = "no", NEW q \in Parent, NEW e \in Companion,
                                e \in companionMap'[q] \ companionsDone'
                         PROVE  /\ e \in requestStates' \cup detached'
                                /\ e \in detached' \/ core'[e] # None \/ (handler'.at = "pick" /\ handler'.id = e)
                  BY DEF CompanionsRun
            <3>1. CASE e = c
                  BY <2>2, <3>1
            <3>2. CASE e # c
                  <4>1. e \in companionMap[q] \ companionsDone /\ core'[e] = core[e]
                        <5>1. e \in companionMap[q] \ companionsDone
                              BY <1>1, <2>3, <3>2
                        <5>2. e \in Req \ {c}
                              BY <3>2, Names
                        <5> QED BY <2>2, <5>1, <5>2
                  <4> QED BY <1>1, <1>2, <2>2, <4>1 DEF TrackerInv, CompanionsRun, Onward
            <3> QED BY <3>1, <3>2
      <2>9. DeferredMisses'
            BY <1>1, <2>2, <2>3 DEF TrackerInv, DeferredMisses, Onward
      <2>10. OutputsKept'
            <3>1. \A q \in Parent : stageSubmitTs'[q] = stageSubmitTs[q]
                  BY <2>2, Names
            <3>2. \A q \in Parent : companionMap'[q] \cap companionsDone = companionMap[q] \cap companionsDone
                  BY <2>3, <2>5
            <3>3. \A q \in Parent : \A e \in companionMap[q] \cap companionsDone : Resting(e) => Resting(e)'
                  <4>1. \A q \in Parent : \A e \in companionMap[q] \cap companionsDone : e \in Req \ {c}
                        BY <2>5, Names DEF OrchInv, Shapes, Tables
                  <4> QED BY <1>1, <2>2, <4>1 DEF Resting
            <3> QED BY <1>1, <3>1, <3>2, <3>3 DEF TrackerInv, OutputsKept
      <2> QED BY <2>6, <2>7, <2>8, <2>9, <2>10 DEF TrackerInv
<1> QED BY <1>3, <1>4

LEMMA HandlerPicksTracker ==
    ASSUME OrchInv, OrchTypes, BoundInv, TrackerInv, Onward, HandlerPicks
    PROVE  TrackerInv'
<1>1. /\ UNCHANGED <<requestStates, stageSubmitTs, poller, companionMap, companionsDone, pendingParents,
                     companionOutputs, detached, fatalError, attached>>
      /\ handler.at = "pick" /\ handler'.at # "pick" /\ handler.id \in Req
      /\ \A q \in Parent : companionMap[q] \in SUBSET Companion
      BY DEF HandlerPicks, SubmitLLM, At, stateVars, trackerVars, ghostVars, hubVars, OrchInv, Shapes, Tables
<1>2. /\ \A e \in Req : core'[e] # core[e] => core'[e] # None /\ e = handler.id
      /\ raised' # "no" \/ core'[handler.id] # None
      <2>1. core \in [Req -> Replica0 \cup {None}]
            BY DEF OrchTypes, FleetTypes
      <2>2. ASSUME NEW replica \in Serviceable(0), SubmitLLM(handler.id, replica)
            PROVE  /\ \A e \in Req : core'[e] # core[e] => core'[e] # None /\ e = handler.id
                   /\ raised' # "no" \/ core'[handler.id] # None
            <3>1. replica # None
                  <4>1. replica \in Replica0
                        BY DEF Serviceable
                  <4> QED BY <4>1, OrchAssumption DEF Replica
            <3>2. CASE replica \in coreDead
                  BY <2>2, <3>2, RaiseOnward DEF SubmitLLM
            <3>3. CASE replica \notin coreDead
                  BY <1>1, <2>1, <2>2, <3>1, <3>3 DEF SubmitLLM
            <3> QED BY <3>2, <3>3
      <2>3. CASE Raise("RuntimeError") /\ UNCHANGED poolVars
            BY <2>3, RaiseOnward DEF poolVars
      <2> QED BY <2>2, <2>3 DEF HandlerPicks
<1>3. Announced'
      BY <1>1, AnnouncedStays DEF TrackerInv
<1>4. CompanionsRun'
      <2> SUFFICES ASSUME raised' = "no", NEW q \in Parent, NEW e \in Companion,
                          e \in companionMap[q] \ companionsDone
                   PROVE  e \in requestStates \cup detached /\ (e \in detached \/ core'[e] # None)
            BY <1>1 DEF CompanionsRun
      <2>1. /\ e \in requestStates \cup detached
            /\ e \in detached \/ core[e] # None \/ handler.id = e
            BY DEF TrackerInv, CompanionsRun, Onward
      <2> QED BY <1>2, <2>1, Names
<1>5. FatalRaises' /\ LastIsDone' /\ DeferredMisses' /\ NotDoneYet'
      BY <1>1 DEF TrackerInv, FatalRaises, LastIsDone, DeferredMisses, NotDoneYet, Onward
<1>6. OutputsKept'
      <2>1. ASSUME NEW c \in Companion, Resting(c) PROVE Resting(c)'
            <3>1. c # handler.id /\ c \in Req
                  BY <1>1, <2>1, Names DEF BoundInv, Resting
            <3> QED BY <1>1, <1>2, <2>1, <3>1 DEF Resting
      <2> QED BY <1>1, <2>1 DEF TrackerInv, OutputsKept
<1> QED BY <1>3, <1>4, <1>5, <1>6 DEF TrackerInv

LEMMA HandlerTracker ==
    ASSUME OrchInv, OrchTypes, BoundInv, TrackerInv, Onward, Handler
    PROVE  TrackerInv'
<1>1. ASSUME NEW p \in Parent, HandleAbort(p) PROVE TrackerInv'
      <2>1. WithCompanions(p) \cup {} = WithCompanions(p) /\ {} \in SUBSET companionMap[p]
            OBVIOUS
      <2>2. \A e \in Req \ WithCompanions(p) : core'[e] = core[e]
            BY <1>1 DEF HandleAbort, AbortIds
      <2> QED BY <1>1, <2>1, <2>2, FamilyTracker DEF HandleAbort, taskVars, hubVars
<1>2. CASE HandleShutdown
      <2>1. /\ handler.at # "pick" /\ handler'.at # "pick"
            /\ UNCHANGED <<requestStates, trackerVars, core, stageSubmitTs, poller, attached>>
            BY <1>2 DEF HandleShutdown, Get, At, stateVars, poolVars, hubVars
      <2> QED BY <2>1, QuietTracker
<1> QED BY <1>1, <1>2, HandleAddTracker, HandleCompanionTracker, HandlerPicksTracker DEF Handler

\* Whoever is taken by the watcher is so from now on.
LEMMA ReplicaLostTracker ==
    ASSUME OrchInv, OrchTypes, BoundInv, TrackerInv, Onward, NEW replica \in Replica, ReplicaLost(replica)
    PROVE  TrackerInv'
<1> DEFINE s == IF replica = D THEN 1 ELSE 0
           affected == {r \in Req : affinity[s][r] = replica}
<1>1. /\ detached' = detached \cup affected /\ requestStates' = requestStates \ affected
      /\ \A r \in Req \ affected : core'[r] = core[r]
      /\ \A r \in Req : s = 0 => core'[r] = core[r]
      /\ attached' = attached \ {replica}
      /\ UNCHANGED <<handler, poller, stageSubmitTs, companionMap, companionsDone, pendingParents,
                     companionOutputs, raised, fatalError>>
      BY DEF ReplicaLost, Forget, taskVars, trackerVars, endVars
<1>2. \A c \in Companion : c \in affected => s = 0 /\ affinity[0][c] = replica
      BY Names, OrchAssumption DEF BoundInv
<1>3. \A q \in Parent : companionMap[q] \in SUBSET Companion
      BY DEF OrchInv, Shapes, Tables
<1> HIDE DEF affected, s
<1>4. Announced'
      <2>1. requestStates' \cup companionsDone' \subseteq requestStates \cup companionsDone
            BY <1>1
      <2> QED BY <1>1, <2>1, AnnouncedStays DEF TrackerInv
<1>5. FatalRaises' /\ LastIsDone' /\ NotDoneYet'
      BY <1>1 DEF TrackerInv, FatalRaises, LastIsDone, NotDoneYet
<1>6. CompanionsRun'
      BY <1>1, Names DEF TrackerInv, CompanionsRun
<1>7. DeferredMisses'
      BY <1>1 DEF TrackerInv, DeferredMisses
<1>8. OutputsKept'
      <2>1. ASSUME NEW c \in Companion, Resting(c) PROVE Resting(c)'
            <3>1. core'[c] = core[c]
                  BY <1>1, <1>2, Names
            <3>2. CASE c \in affected /\ c \in requestStates
                  <4>1. core[c] = replica
                        BY <1>2, <2>1, <3>2 DEF BoundInv, Resting
                  <4> QED BY <1>1, <2>1, <3>1, <4>1 DEF Resting
            <3>3. CASE ~(c \in affected /\ c \in requestStates)
                  BY <1>1, <2>1, <3>1, <3>3 DEF Resting
            <3> QED BY <3>2, <3>3
      <2> QED BY <1>1, <1>3, <2>1 DEF TrackerInv, OutputsKept
<1> QED BY <1>4, <1>5, <1>6, <1>7, <1>8 DEF TrackerInv

LEMMA FinishTracker ==
    ASSUME OrchInv, TrackerInv, Onward, Finish
    PROVE  TrackerInv'
<1>1. /\ poller'.at = "done" /\ handler'.at = "done" /\ requestStates' \subseteq requestStates
      /\ UNCHANGED <<trackerVars, core, stageSubmitTs, raised, attached, companionMap, companionsDone>>
      BY DEF Finish, At, poolVars, hubVars, trackerVars
<1>2. CASE raised # "no"
      BY <1>1, <1>2, EndedTracker
<1>3. CASE raised = "no"
      <2>1. handler.at # "pick" /\ requestStates' = requestStates
            BY <1>3 DEF Finish, TrackerInv, FatalRaises
      <2> QED BY <1>1, <2>1, QuietTracker
<1> QED BY <1>2, <1>3

LEMMA TrackerInit == OrchInit => TrackerInv
BY DEF OrchInit, At, TrackerInv, Announced, FatalRaises, LastIsDone, CompanionsRun, DeferredMisses, OutputsKept,
   NotDoneYet

LEMMA TrackerStep == OrchInv /\ OrchTypes /\ BoundInv /\ TrackerInv /\ [OrchNext]_orchVars => TrackerInv'
<1> SUFFICES ASSUME OrchInv, OrchTypes, BoundInv, TrackerInv, [OrchNext]_orchVars PROVE TrackerInv'
      OBVIOUS
<1>1. Onward
      BY OnwardStep
<1>2. CASE UNCHANGED <<requestStates, trackerVars, core, stageSubmitTs, handler, poller, attached>>
      BY <1>1, <1>2, QuietTracker
<1>3. CASE Frontend
      BY <1>2, <1>3, FrontendFrame DEF taskVars, stateVars, hubVars
<1>4. CASE Process \/ (\E replica \in Replica : HubChanges(replica) \/ CoreDies(replica)) \/ UNCHANGED orchVars
      BY <1>2, <1>4 DEF Process, HubChanges, CoreDies, orchVars, taskVars, stateVars, poolVars, hubVars
<1> QED BY <1>1, <1>3, <1>4, HandlerTracker, PollerTracker, ReplicaLostTracker, FinishTracker DEF OrchNext

\* A deferred parent is tracked and waits for a companion that is still to come:
\* whatever order the companions, the aborts, the replicas' deaths and the
\* replica choices come in, no release is lost (CfgCompanionTracker).
THEOREM DeferredParentsAwaited == OrchSafety => []DeferredIsAwaited
<1>1. OrchInv /\ OrchTypes /\ TrackerInv => DeferredIsAwaited
      <2> SUFFICES ASSUME OrchInv, OrchTypes, TrackerInv, raised = "no", NEW p \in pendingParents \ detached
                   PROVE  /\ p \in requestStates
                          /\ \E c \in companionMap[p] \ companionsDone :
                                c \in detached \/ core[c] # None \/ (handler.at = "pick" /\ handler.id = c)
            BY DEF DeferredIsAwaited
      <2>1. p \in Parent
            BY DEF OrchTypes, TrackTypes
      <2>2. p \in requestStates
            BY <2>1 DEF TrackerInv, DeferredMisses
      <2>3. PICK c \in companionMap[p] : c \notin companionsDone
            BY <2>1 DEF TrackerInv, DeferredMisses
      <2>4. c \in Companion
            BY <2>1 DEF OrchInv, Shapes, Tables
      <2>5. c \in detached \/ core[c] # None \/ (handler.at = "pick" /\ handler.id = c)
            BY <2>1, <2>3, <2>4 DEF TrackerInv, CompanionsRun
      <2> QED BY <2>2, <2>3, <2>5
<1> QED BY <1>1, OrchInitInv, OrchStepInv, OrchTypesInit, OrchTypesStep, BoundInit, BoundStep,
           TrackerInit, TrackerStep, PTL
        DEF OrchSafety

-----------------------------------------------------------------------------
(* What a parent goes on with.                                                *)

GoesOn(p) == poller.id # p /\ (poller'.id = p \/ 1 \in stageSubmitTs'[p] \ stageSubmitTs[p])

Bundled(p) == \A c \in companionMap[p] \ bundled'[p] : c \in companionsDone' /\ core'[c] # None

\* The companions whose outputs are not kept go on generating.
LEMMA ForwardBundled ==
    ASSUME OrchInv, OrchTypes, TrackerInv, NEW p \in Parent, NEW done \in SUBSET Companion, NEW early \in BOOLEAN,
           Forward(p, done, early), poller.at = "poll", 1 \notin stageSubmitTs[p],
           companionMap[p] \ companionsDone \subseteq done,
           \A c \in done : core[c] # None,
           NEW r \in {p} \cup done, core' = IF early THEN core ELSE [core EXCEPT ![r] = None],
           NEW q \in Parent, GoesOn(q)
    PROVE  Bundled(q)
<1> DEFINE last == IF early THEN {} ELSE done
<1>1. p \in Req /\ q \in Req /\ q # None /\ stageSubmitTs \in [Req -> SUBSET Stage]
      BY Names DEF OrchTypes, TrackTypes
<1>2. CASE UNCHANGED <<poller, stageSubmitTs>>
      BY <1>2 DEF GoesOn
<1>3. CASE UNCHANGED stageSubmitTs /\ \E e \in {"EngineDead", "RuntimeError"} : Throw(e, early)
      BY <1>1, <1>3, ThrowEnds DEF GoesOn
<1>4. CASE /\ companionsDone' = companionsDone \cup done /\ PopOutputs(p, last)
           /\ \/ ~engineDead /\ SubmitDiffusion(p, last, early)
              \/ poller' = Waiting(p, last, early) /\ UNCHANGED stateVars
      <2>1. q = p
            <3>1. poller'.id \in {p, None}
                  BY <1>4 DEF SubmitDiffusion, At, Waiting
            <3>2. \A e \in Req \ {p} : stageSubmitTs'[e] = stageSubmitTs[e]
                  BY <1>1, <1>4 DEF SubmitDiffusion, stateVars
            <3> QED BY <1>1, <3>1, <3>2 DEF GoesOn
      <2>2. bundled'[p] = (companionOutputs \cup last) \cap companionMap[p]
            BY <1>4 DEF PopOutputs, OrchTypes, TrackTypes
      <2> SUFFICES ASSUME NEW c \in companionMap[p], c \notin companionOutputs, c \notin last
                   PROVE  c \in companionsDone' /\ core'[c] # None
            BY <2>1, <2>2 DEF Bundled
      <2>3. c \in companionsDone'
            BY <1>4
      <2>4. core[c] # None
            <3>1. CASE c \in companionsDone
                  BY <3>1 DEF TrackerInv, OutputsKept, Resting
            <3> QED BY <3>1
      <2>5. core'[c] = core[c]
            <3>1. CASE ~early
                  <4>1. c # r /\ c \in Req /\ r \in Req
                        BY <3>1, Names DEF OrchInv, Shapes, Tables
                  <4> QED BY <3>1, <4>1 DEF OrchTypes, FleetTypes
            <3> QED BY <3>1
      <2> QED BY <2>3, <2>4, <2>5
<1> QED BY <1>2, <1>3, <1>4 DEF Forward, SubmitDiffusion

LEMMA StepBundled ==
    ASSUME OrchInv, OrchTypes, TrackerInv, [OrchNext]_orchVars, NEW q \in Parent, GoesOn(q)
    PROVE  Bundled(q)
<1>1. q \in Req /\ q # None /\ stageSubmitTs \in [Req -> SUBSET Stage]
      BY Names DEF OrchTypes, TrackTypes
<1>2. ~(UNCHANGED stageSubmitTs /\ (poller' = poller \/ poller' = At("done")))
      BY <1>1 DEF GoesOn, At
<1>3. CASE Frontend
      BY <1>2, <1>3, FrontendFrame DEF taskVars, stateVars
<1>4. CASE Handler
      <2>1. poller' = poller
            BY <1>4 DEF Handler, HandleAdd, HandleAbort, HandleCompanion, HandlerPicks, HandleShutdown, taskVars
      <2>2. UNCHANGED stageSubmitTs \/ \E r \in Req : stageSubmitTs' = [stageSubmitTs EXCEPT ![r] = {0}]
            BY <1>4, Names DEF Handler, HandleAdd, HandleAbort, HandleCompanion, HandlerPicks, HandleShutdown,
                               Admit, stateVars
      <2> QED BY <1>1, <2>1, <2>2 DEF GoesOn
<1>5. CASE PollDead \/ PollerEnds
      BY <1>2, <1>5 DEF PollDead, StageDies, PollerEnds, stateVars
<1>6. CASE PollDiffusion
      BY <1>2, <1>6 DEF PollDiffusion, DiffusionOutput, Dropped, StageError, stateVars
<1>7. CASE PollerPicks
      <2>1. poller.id \in Parent /\ poller.id \in Req
            BY <1>7, Names DEF PollerPicks, OrchInv, Shapes, Tables
      <2>2. CASE ~engineDead /\ SubmitDiffusion(poller.id, poller.last, poller.early)
            <3>1. \A e \in Req \ {poller.id} : stageSubmitTs'[e] = stageSubmitTs[e]
                  BY <1>1, <2>1, <2>2 DEF SubmitDiffusion
            <3>2. poller'.id = None
                  BY <2>2 DEF SubmitDiffusion, At
            <3> QED BY <1>1, <3>1, <3>2 DEF GoesOn
      <2>3. CASE UNCHANGED stageSubmitTs /\ \E e \in {"EngineDead", "RuntimeError"} : Throw(e, poller.early)
            BY <1>1, <2>3, ThrowEnds DEF GoesOn
      <2> QED BY <1>7, <2>2, <2>3 DEF PollerPicks, SubmitDiffusion
<1>8. ASSUME NEW r \in Req, PollLLM(r) PROVE Bundled(q)
      <2>1. poller.at = "poll" /\ core[r] # None
            <3>1. attached \subseteq Replica /\ None \notin Replica
                  BY OrchAssumption DEF OrchTypes, FleetTypes
            <3> QED BY <1>8, <3>1 DEF PollLLM, Polls
      <2>2. CASE UNCHANGED <<poller, stageSubmitTs>>
            BY <1>2, <2>2
      <2>3. ASSUME NEW early \in BOOLEAN, IsCompanion(r), CompanionDone(r, early),
                   core' = IF early THEN core ELSE [core EXCEPT ![r] = None]
            PROVE  Bundled(q)
            <3>1. Owner[r] \in Parent /\ {r} \in SUBSET Companion /\ r \in {Owner[r]} \cup {r}
                  BY <2>3, DoneOwner
            <3>2. CASE /\ companionMap[Owner[r]] \ companionsDone \subseteq {r}
                       /\ 1 \notin stageSubmitTs[Owner[r]] /\ Forward(Owner[r], {r}, early)
                  <4>1. \A c \in {r} : core[c] # None
                        BY <2>1
                  <4> QED BY <2>1, <2>3, <3>1, <3>2, <4>1, ForwardBundled
            <3> QED BY <2>2, <2>3, <3>2 DEF CompanionDone
      <2>4. ASSUME NEW early \in BOOLEAN, r \in requestStates, ~IsCompanion(r), ParentDone(r, early),
                   core' = IF early THEN core ELSE [core EXCEPT ![r] = None]
            PROVE  Bundled(q)
            <3>1. r \in Parent /\ {} \in SUBSET Companion /\ r \in {r} \cup {}
                  BY <2>4, OrchAssumption DEF OrchInv, Families
            <3>2. CASE companionMap[r] \subseteq companionsDone /\ 1 \notin stageSubmitTs[r] /\ Forward(r, {}, early)
                  <4>1. companionMap[r] \ companionsDone \subseteq {} /\ \A c \in {} : core[c] # None
                        BY <3>2
                  <4> QED BY <2>1, <2>4, <3>1, <3>2, <4>1, ForwardBundled
            <3> QED BY <2>2, <2>4, <3>2 DEF ParentDone, stateVars, Dropped
      <2> QED BY <1>8, <2>2, <2>3, <2>4 DEF PollLLM, Dropped, StageError, stateVars
<1>9. CASE Finish
      BY <1>2, <1>9 DEF Finish
<1>10. CASE \/ Process \/ UNCHANGED orchVars
            \/ \E replica \in Replica : HubChanges(replica) \/ CoreDies(replica) \/ ReplicaLost(replica)
      BY <1>2, <1>10 DEF Process, HubChanges, CoreDies, ReplicaLost, orchVars, taskVars, stateVars
<1> QED BY <1>3, <1>4, <1>5, <1>6, <1>7, <1>8, <1>9, <1>10 DEF OrchNext, Poller

\* A parent goes on when its companions registered by then are done, with the
\* output of every one that has finished: the warning of _forward_to_next_stage
\* about a missing companion is due only for one that is still generating.
THEOREM ParentsForwardedBundled == OrchSafety => ForwardBundles
<1>1. OrchInv /\ OrchTypes /\ TrackerInv /\ [OrchNext]_orchVars =>
         [\A p \in Parent :
             (poller.id # p /\ (poller'.id = p \/ 1 \in stageSubmitTs'[p] \ stageSubmitTs[p]))
                 => \A c \in companionMap[p] \ bundled'[p] : c \in companionsDone' /\ core'[c] # None]_orchVars
      BY StepBundled DEF GoesOn, Bundled
<1> QED BY <1>1, OrchInitInv, OrchStepInv, OrchTypesInit, OrchTypesStep, BoundInit, BoundStep,
           TrackerInit, TrackerStep, PTL
        DEF OrchSafety, ForwardBundles
-----------------------------------------------------------------------------
(* Where a tracked request is.                                                *)

\* A request has left a mark with a task, a pool or an engine.
Marked(r) ==
    \/ r \in requestStates \/ core[r] # None \/ affinity[1][r] # None
    \/ handler.at = "pick" /\ handler.id = r
    \/ poller.at = "pick" /\ poller.id = r

\* An LLM engine runs a tracked request where its pool has bound it, so that
\* whoever loses the replica finds the request.
RunsWhereBound ==
    \A r \in requestStates : core[r] # None => core[r] = affinity[0][r] /\ core[r] \in attached

\* A deferred parent was not submitted, nor is being submitted.
DeferredNotSent ==
    /\ \A q \in pendingParents : 1 \notin stageSubmitTs[q]
    /\ poller.at = "pick" => poller.id \notin pendingParents

\* An abort on its way to the diffusion process names nobody who is tracked, or
\* who can still be admitted.
AbortsAreOver ==
    \A i \in 1 .. Len(requestPipe) : requestPipe[i].type = "abort" =>
        \A r \in requestPipe[i].ids : r \notin requestStates /\ Seen(r)

\* What was submitted to the diffusion stage is there, though an engine of
\* stage 0 may still run it.
SentArrived == \A r \in requestStates : 1 \in stageSubmitTs[r] => AtDiffusion(r)

Served(r) == AtLLM(r) \/ InPick(r) \/ r \in pendingParents \/ AtDiffusion(r)

ServedInv ==
    raised # "no" \/
        /\ \A r \in Req : Marked(r) => Seen(r)
        /\ RunsWhereBound /\ DeferredNotSent /\ AbortsAreOver /\ SentArrived
        /\ poller.at = "done" \/ \A r \in requestStates : Served(r)

\* The diffusion process has the request, or its reply is on its way.
Held(r) ==
    \/ r \in procTasks \/ proc = "dead"
    \/ \E kind \in {"result", "error"} : Reply(r, kind) \in ToSet(responsePipe) \cup ToSet(outputQueue)

\* Whoever is tracked, X aside, is where it was.
Stays(X) ==
    \A r \in requestStates' \ X :
        /\ r \in requestStates /\ core'[r] = core[r]
        /\ affinity'[0][r] = affinity[0][r] /\ affinity'[1][r] = affinity[1][r]
        /\ stageSubmitTs'[r] = stageSubmitTs[r]
        /\ InPick(r) => InPick(r)' \/ poller'.at = "done"
        /\ r \in pendingParents => r \in pendingParents'
        /\ Held(r) => Held(r)'

\* It is newly submitted, or is where it was submitted.
Arrives(r) ==
    1 \in stageSubmitTs'[r] =>
        \/ AtDiffusion(r)'
        \/ /\ r \in requestStates /\ 1 \in stageSubmitTs[r] /\ affinity'[1][r] = affinity[1][r]
           /\ Held(r) => Held(r)'

\* Those of X that are tracked have their place, and run where they are bound.
Lands(X) ==
    \A r \in X \cap requestStates' :
        /\ Served(r)' \/ poller'.at = "done"
        /\ Arrives(r)
        /\ core'[r] # None => core'[r] = affinity'[0][r] /\ core'[r] \in attached'

\* The process is sent at most one more message, an abort only of the forgotten.
PipeGrows ==
    \/ requestPipe' = requestPipe
    \/ \E m \in ClientMessages :
          /\ requestPipe' = Append(requestPipe, m)
          /\ m.type = "abort" => \A r \in m.ids : r \notin requestStates' /\ Marked(r)

\* A request that gets its first mark has just been announced.
MarksNew ==
    /\ \A r \in Req : Marked(r)' => Marked(r) \/ Seen(r)'
    /\ \A r \in requestStates' \ requestStates : ~Seen(r)

Moves(X) ==
    /\ Stays(X) /\ Lands(X) /\ PipeGrows /\ MarksNew /\ DeferredNotSent' /\ attached' = attached
    /\ poller.at = "done" => poller'.at = "done"

LEMMA HeldStays ==
    ASSUME UNCHANGED <<responsePipe, procVars, outputQueue>>, NEW r, Held(r)
    PROVE  Held(r)'
BY DEF Held, procVars

LEMMA ToSetAppend ==
    ASSUME NEW S, NEW s \in Seq(S), NEW e \in S
    PROVE  ToSet(Append(s, e)) = ToSet(s) \cup {e}
<1>1. /\ Append(s, e) \in Seq(S) /\ Len(Append(s, e)) = Len(s) + 1 /\ Len(s) \in Nat
      /\ \A k \in 1 .. Len(s) : Append(s, e)[k] = s[k]
      /\ Append(s, e)[Len(s) + 1] = e
      BY AppendSeq
<1>2. DOMAIN s = 1 .. Len(s) /\ DOMAIN Append(s, e) = 1 .. Len(s) + 1
      BY <1>1, LenProperties
<1>3. 1 .. Len(s) + 1 = (1 .. Len(s)) \cup {Len(s) + 1}
      BY <1>1
<1> QED BY <1>1, <1>2, <1>3 DEF ToSet

LEMMA DiffusionHolds ==
    ASSUME NEW r
    PROVE  AtDiffusion(r) <=> /\ D \in attached /\ affinity[1][r] = D
                              /\ (AddMessage(r) \in ToSet(requestPipe) \/ Held(r))
BY DEF AtDiffusion, Held

\* The messages to the process stay, and what they abort is over.
LEMMA PipeAborts ==
    ASSUME OrchTypes, Onward, PipeGrows, AbortsAreOver, \A r \in Req : Marked(r) => Seen(r),
           \A r \in requestStates' \ requestStates : ~Seen(r)
    PROVE  AbortsAreOver' /\ ToSet(requestPipe) \subseteq ToSet(requestPipe')
<1>1. requestPipe \in Seq(ClientMessages)
      BY DEF OrchTypes, ClientTypes
<1>2. ASSUME NEW m \in ClientMessages, requestPipe' = Append(requestPipe, m)
      PROVE  /\ \A k \in 1 .. Len(requestPipe') :
                    requestPipe'[k] = m \/ (k \in 1 .. Len(requestPipe) /\ requestPipe'[k] = requestPipe[k])
             /\ ToSet(requestPipe') = ToSet(requestPipe) \cup {m}
      <2>1. /\ Len(requestPipe') = Len(requestPipe) + 1 /\ Len(requestPipe) \in Nat
            /\ \A k \in 1 .. Len(requestPipe) : requestPipe'[k] = requestPipe[k]
            /\ requestPipe'[Len(requestPipe) + 1] = m
            BY <1>1, <1>2, AppendSeq
      <2>2. \A k \in 1 .. Len(requestPipe') : k \in 1 .. Len(requestPipe) \/ k = Len(requestPipe) + 1
            BY <2>1
      <2>3. ASSUME NEW k \in 1 .. Len(requestPipe')
            PROVE  requestPipe'[k] = m \/ (k \in 1 .. Len(requestPipe) /\ requestPipe'[k] = requestPipe[k])
            <3>1. CASE k \in 1 .. Len(requestPipe)
                  BY <2>1, <3>1
            <3>2. CASE k = Len(requestPipe) + 1
                  BY <2>1, <3>2
            <3> QED BY <2>2, <3>1, <3>2
      <2>4. ToSet(requestPipe') = ToSet(requestPipe) \cup {m}
            BY <1>1, <1>2, ToSetAppend
      <2> QED BY <2>3, <2>4
<1>3. AbortsAreOver'
      <2> SUFFICES ASSUME NEW i \in 1 .. Len(requestPipe'), requestPipe'[i].type = "abort",
                          NEW r \in requestPipe'[i].ids
                   PROVE  r \notin requestStates' /\ Seen(r)'
            BY DEF AbortsAreOver
      <2>1. CASE i \in 1 .. Len(requestPipe) /\ requestPipe'[i] = requestPipe[i]
            <3>1. r \notin requestStates /\ Seen(r)
                  BY <2>1 DEF AbortsAreOver
            <3>2. r \in Req
                  <4>1. requestPipe[i] \in ClientMessages
                        BY <1>1, <2>1, ElementOfSeq
                  <4> QED BY <2>1, <4>1 DEF ClientMessages
            <3> QED BY <3>1, <3>2, SeenStays
      <2>2. ASSUME NEW m \in ClientMessages, requestPipe' = Append(requestPipe, m), requestPipe'[i] = m,
                   m.type = "abort" => \A e \in m.ids : e \notin requestStates' /\ Marked(e)
            PROVE  r \notin requestStates' /\ Seen(r)'
            <3>1. r \in m.ids /\ r \in Req
                  BY <2>2 DEF ClientMessages
            <3> QED BY <2>2, <3>1, SeenStays
      <2> QED BY <1>2, <2>1, <2>2 DEF PipeGrows
<1>4. ToSet(requestPipe) \subseteq ToSet(requestPipe')
      BY <1>2 DEF PipeGrows
<1> QED BY <1>3, <1>4

\* Such a step keeps every tracked request at work.
LEMMA MovesServed ==
    ASSUME OrchTypes, ServedInv, Onward, raised = "no", NEW X, Moves(X), requestStates' \in SUBSET Req
    PROVE  ServedInv'
<1>1. \A r \in Req : Marked(r)' => Seen(r)'
      BY SeenStays DEF Moves, MarksNew, ServedInv
<1>2. RunsWhereBound'
      BY DEF Moves, Stays, Lands, ServedInv, RunsWhereBound
<1>3. AbortsAreOver' /\ ToSet(requestPipe) \subseteq ToSet(requestPipe')
      BY PipeAborts DEF Moves, MarksNew, ServedInv
<1>4. ASSUME NEW r \in requestStates', r \in requestStates, AtDiffusion(r),
             affinity'[1][r] = affinity[1][r], Held(r) => Held(r)'
      PROVE  AtDiffusion(r)'
      <2>1. AddMessage(r) \in ToSet(requestPipe) => AddMessage(r) \in ToSet(requestPipe')
            BY <1>3
      <2> QED BY <1>4, <2>1, DiffusionHolds DEF AtDiffusion, Held, Moves
<1>5. ASSUME NEW r \in requestStates', r \notin X
      PROVE  /\ r \in requestStates /\ core'[r] = core[r] /\ affinity'[1][r] = affinity[1][r]
             /\ stageSubmitTs'[r] = stageSubmitTs[r]
             /\ InPick(r) => InPick(r)' \/ poller'.at = "done"
             /\ r \in pendingParents => r \in pendingParents'
             /\ Held(r) => Held(r)'
             /\ attached' = attached
      BY <1>5 DEF Moves, Stays
<1>6. SentArrived'
      <2> SUFFICES ASSUME NEW r \in requestStates', 1 \in stageSubmitTs'[r] PROVE AtDiffusion(r)'
            BY DEF SentArrived
      <2>1. CASE r \in X
            <3>1. CASE AtDiffusion(r)'
                  BY <3>1
            <3>2. CASE /\ r \in requestStates /\ 1 \in stageSubmitTs[r] /\ affinity'[1][r] = affinity[1][r]
                       /\ Held(r) => Held(r)'
                  BY <1>4, <3>2 DEF ServedInv, SentArrived
            <3> QED BY <2>1, <3>1, <3>2 DEF Moves, Lands, Arrives
      <2>2. CASE r \notin X
            BY <1>4, <1>5, <2>2 DEF ServedInv, SentArrived
      <2> QED BY <2>1, <2>2
<1>7. poller'.at = "done" \/ \A r \in requestStates' : Served(r)'
      <2> SUFFICES ASSUME poller'.at # "done", NEW r \in requestStates', r \notin X PROVE Served(r)'
            BY DEF Moves, Lands
      <2>1. AtLLM(r) => AtLLM(r)'
            BY <1>5 DEF AtLLM
      <2>2. AtDiffusion(r) => AtDiffusion(r)'
            BY <1>4, <1>5
      <2>3. Served(r)
            BY <1>5 DEF ServedInv, Moves
      <2> QED BY <1>5, <2>1, <2>2, <2>3 DEF Served
<1> QED BY <1>1, <1>2, <1>3, <1>6, <1>7 DEF Moves, ServedInv

\* Whoever was not announced has no mark.
LEMMA UnseenUnmarked ==
    ASSUME ServedInv, raised = "no", NEW r \in Req, ~Seen(r)
    PROVE  r \notin requestStates /\ core[r] = None /\ affinity[1][r] = None
BY DEF ServedInv, Marked

\* Requests are forgotten, and what the replicas do for them is aborted.
LEMMA ForgottenMoves ==
    ASSUME OrchInv, OrchTypes, ServedInv, raised = "no", NEW ids \in SUBSET Req, Forget(ids),
           \A r \in Req : core'[r] = core[r] \/ (r \in ids /\ core'[r] = None),
           pendingParents' \subseteq pendingParents,
           pendingParents \cap requestStates' \subseteq pendingParents',
           requestPipe' = requestPipe \/ AbortIds(ids),
           UNCHANGED <<handler, poller, stageSubmitTs, attached>>,
           \A r \in requestStates' : Held(r) => Held(r)'
    PROVE  Moves({})
<1>1. /\ requestStates' = requestStates \ ids /\ requestStates \in SUBSET Req
      /\ affinity' = [s \in Stage |-> [r \in Req |-> IF r \in ids THEN None ELSE affinity[s][r]]]
      /\ attached \in SUBSET Replica
      BY DEF Forget, OrchInv, Shapes, Tables, OrchTypes, FleetTypes
<1>2. \A s \in Stage, r \in Req : affinity'[s][r] = IF r \in ids THEN None ELSE affinity[s][r]
      BY <1>1
<1>3. Stays({})
      <2> SUFFICES ASSUME NEW r \in requestStates'
                   PROVE  /\ r \in requestStates /\ core'[r] = core[r]
                          /\ affinity'[0][r] = affinity[0][r] /\ affinity'[1][r] = affinity[1][r]
                          /\ stageSubmitTs'[r] = stageSubmitTs[r]
                          /\ InPick(r) => InPick(r)' \/ poller'.at = "done"
                          /\ r \in pendingParents => r \in pendingParents'
                          /\ Held(r) => Held(r)'
            BY DEF Stays
      <2>1. r \in requestStates /\ r \in Req /\ r \notin ids
            BY <1>1
      <2>2. affinity'[0][r] = affinity[0][r] /\ affinity'[1][r] = affinity[1][r]
            BY <1>2, <2>1, Names
      <2>3. InPick(r) => InPick(r)'
            BY DEF InPick
      <2> QED BY <2>1, <2>2, <2>3
<1>4. PipeGrows
      <2> DEFINE bound == {r \in ids : affinity[1][r] \in attached}
      <2>1. CASE requestPipe' = Append(requestPipe, AbortMessage(bound))
            <3>1. AbortMessage(bound) \in ClientMessages /\ AbortMessage(bound).ids = bound
                  BY DEF AbortMessage, ClientMessages
            <3>2. ASSUME NEW r \in bound PROVE r \notin requestStates' /\ Marked(r)
                  BY <1>1, <3>2, OrchAssumption DEF Marked
            <3> QED BY <2>1, <3>1, <3>2 DEF PipeGrows
      <2>2. CASE requestPipe' = requestPipe
            BY <2>2 DEF PipeGrows
      <2> QED BY <2>1, <2>2 DEF AbortIds
<1>5. MarksNew
      <2>1. ASSUME NEW r \in Req, Marked(r)' PROVE Marked(r)
            <3>1. affinity'[1][r] # None => affinity[1][r] # None
                  BY <1>2, Names
            <3> QED BY <1>1, <2>1, <3>1 DEF Marked
      <2> QED BY <1>1, <2>1 DEF MarksNew
<1>6. DeferredNotSent'
      BY DEF ServedInv, DeferredNotSent
<1>7. Lands({})
      BY DEF Lands
<1> QED BY <1>3, <1>4, <1>5, <1>6, <1>7 DEF Moves

\* A request is admitted.
LEMMA AdmittedMoves ==
    ASSUME OrchInv, OrchTypes, ServedInv, raised' = "no", raised = "no", NEW r \in Req, NEW like,
           Admit(r, like), handler.at = "get", ~Seen(r), Seen(r)',
           UNCHANGED <<poller, pendingParents, attached, clientVars>>
    PROVE  Moves({r})
<1>1. /\ requestStates' = requestStates \cup {r} /\ requestStates \in SUBSET Req
      /\ stageSubmitTs' = [stageSubmitTs EXCEPT ![r] = {0}]
      /\ stageSubmitTs \in [Req -> SUBSET Stage] /\ pendingParents \in SUBSET Parent
      /\ core \in [Req -> Replica0 \cup {None}]
      /\ affinity \in [Stage -> [Req -> Replica \cup {None}]] /\ 0 \in Stage /\ 1 \in Stage
      BY Names DEF Admit, OrchInv, Shapes, Tables, OrchTypes, TrackTypes, FleetTypes
<1>2. r \notin requestStates /\ core[r] = None /\ affinity[1][r] = None
      BY UnseenUnmarked
<1>3. /\ affinity'[1] = affinity[1]
      /\ \A e \in Req \ {r} : core'[e] = core[e] /\ affinity'[0][e] = affinity[0][e]
      /\ \/ core'[r] \in attached /\ core'[r] = affinity'[0][r] /\ handler'.at = "get"
         \/ handler' = Waiting(r, {}, FALSE) /\ core'[r] = None
      <2>1. CASE \E replica \in Candidates(0, r, like) : SubmitLLM(r, replica)
            <3>1. PICK replica \in Candidates(0, r, like) : SubmitLLM(r, replica)
                  BY <2>1
            <3>2. replica \in attached
                  BY DEF Candidates, Serviceable
            <3>3. replica \notin coreDead
                  BY <3>1, RaiseOnward DEF SubmitLLM
            <3>4. /\ affinity' = [affinity EXCEPT ![0][r] = replica]
                  /\ core' = [core EXCEPT ![r] = replica] /\ handler' = At("get")
                  BY <3>1, <3>3 DEF SubmitLLM
            <3>5. /\ affinity'[1] = affinity[1] /\ affinity'[0][r] = replica
                  /\ \A e \in Req \ {r} : affinity'[0][e] = affinity[0][e]
                  BY <1>1, <3>4
            <3> QED BY <1>1, <3>2, <3>4, <3>5 DEF At
      <2>2. CASE /\ handler' = Waiting(r, {}, FALSE) /\ UNCHANGED core
                 /\ affinity' = [affinity EXCEPT ![0][r] = None]
            <3>1. affinity'[1] = affinity[1] /\ \A e \in Req \ {r} : affinity'[0][e] = affinity[0][e]
                  BY <1>1, <2>2
            <3> QED BY <1>2, <2>2, <3>1
      <2> QED BY <2>1, <2>2 DEF Admit
<1>4. Stays({r})
      <2> SUFFICES ASSUME NEW e \in requestStates' \ {r}
                   PROVE  /\ e \in requestStates /\ core'[e] = core[e]
                          /\ affinity'[0][e] = affinity[0][e] /\ affinity'[1][e] = affinity[1][e]
                          /\ stageSubmitTs'[e] = stageSubmitTs[e]
                          /\ InPick(e) => InPick(e)' \/ poller'.at = "done"
                          /\ e \in pendingParents => e \in pendingParents'
                          /\ Held(e) => Held(e)'
            BY DEF Stays
      <2>1. e \in requestStates /\ e \in Req \ {r}
            BY <1>1
      <2>2. InPick(e) => InPick(e)'
            BY DEF InPick
      <2>3. Held(e) => Held(e)'
            BY DEF Held, clientVars, pipeVars, procVars
      <2> QED BY <1>1, <1>3, <2>1, <2>2, <2>3
<1>5. Lands({r})
      <2>1. Arrives(r)
            BY <1>1 DEF Arrives
      <2> QED BY <1>3, <2>1 DEF Lands, Served, AtLLM, InPick, Waiting
<1>6. PipeGrows
      BY DEF PipeGrows, clientVars, pipeVars
<1>7. MarksNew
      <2>1. ASSUME NEW e \in Req, Marked(e)', e # r PROVE Marked(e)
            BY <1>1, <1>3, <2>1 DEF Marked, Waiting
      <2> QED BY <1>1, <2>1 DEF MarksNew
<1>8. DeferredNotSent'
      <2>1. \A q \in pendingParents : 1 \notin stageSubmitTs'[q]
            BY <1>1, Names DEF ServedInv, DeferredNotSent
      <2> QED BY <2>1 DEF ServedInv, DeferredNotSent
<1> QED BY <1>4, <1>5, <1>6, <1>7, <1>8 DEF Moves

\* A parent is handed to the diffusion stage.
LEMMA SubmittedMoves ==
    ASSUME OrchInv, OrchTypes, ServedInv, raised = "no", raised' = "no",
           NEW p \in Parent, NEW last \in SUBSET Companion, NEW early, ~engineDead,
           SubmitDiffusion(p, last, early), D \in attached,
           \/ poller.at = "poll" /\ p \in requestStates
           \/ poller.at = "pick" /\ poller.id = p /\ poller.last = last,
           \A r \in Req : core'[r] = core[r] \/ (r \in {p} \cup last /\ core'[r] = None),
           pendingParents' = pendingParents \ {p},
           UNCHANGED <<handler, attached, responsePipe, procVars, outputQueue>>
    PROVE  Moves({p})
<1>1. /\ requestStates \in SUBSET Req /\ p \in Req /\ p \notin last /\ 0 \in Stage /\ 1 \in Stage
      /\ stageSubmitTs \in [Req -> SUBSET Stage] /\ pendingParents \in SUBSET Parent
      /\ requestPipe \in Seq(ClientMessages) /\ last \in SUBSET Req
      BY Names DEF OrchInv, Shapes, Tables, OrchTypes, TrackTypes, ClientTypes
<1>2. /\ requestPipe' = Append(requestPipe, AddMessage(p))
      /\ stageSubmitTs' = [stageSubmitTs EXCEPT ![p] = @ \cup {1}]
      /\ requestStates' = requestStates \ last
      /\ affinity' = [s \in Stage |-> [r \in Req |->
                         IF r \in last THEN None ELSE IF s = 1 /\ r = p THEN D ELSE affinity[s][r]]]
      /\ poller' = At("poll")
      BY DEF SubmitDiffusion
<1>3. /\ \A r \in Req \ ({p} \cup last) : affinity'[0][r] = affinity[0][r] /\ affinity'[1][r] = affinity[1][r]
      /\ affinity'[0][p] = affinity[0][p] /\ affinity'[1][p] = D
      /\ \A r \in last : affinity'[1][r] = None
      BY <1>1, <1>2
<1>4. poller'.at = "poll"
      BY <1>2 DEF At
<1>5. Stays({p})
      <2> SUFFICES ASSUME NEW e \in requestStates' \ {p}
                   PROVE  /\ e \in requestStates /\ core'[e] = core[e]
                          /\ affinity'[0][e] = affinity[0][e] /\ affinity'[1][e] = affinity[1][e]
                          /\ stageSubmitTs'[e] = stageSubmitTs[e]
                          /\ InPick(e) => InPick(e)' \/ poller'.at = "done"
                          /\ e \in pendingParents => e \in pendingParents'
                          /\ Held(e) => Held(e)'
            BY DEF Stays
      <2>1. e \in requestStates /\ e \in Req \ ({p} \cup last)
            BY <1>1, <1>2
      <2>2. InPick(e) => InPick(e)'
            BY <2>1 DEF InPick
      <2>3. Held(e) => Held(e)'
            BY DEF Held, procVars
      <2> QED BY <1>1, <1>2, <1>3, <2>1, <2>2, <2>3
<1>6. AddMessage(p) \in ClientMessages /\ AddMessage(p).type = "add"
      BY <1>1 DEF AddMessage, ClientMessages
<1>7. Lands({p})
      <2>1. AddMessage(p) \in ToSet(requestPipe')
            BY <1>1, <1>2, <1>6, ToSetAppend
      <2>2. AtDiffusion(p)'
            BY <1>3, <2>1 DEF AtDiffusion
      <2>3. ASSUME p \in requestStates', core'[p] # None
            PROVE  core'[p] = affinity'[0][p] /\ core'[p] \in attached'
            BY <1>1, <1>2, <1>3, <2>3 DEF ServedInv, RunsWhereBound
      <2> QED BY <2>2, <2>3 DEF Lands, Served, Arrives
<1>8. PipeGrows
      BY <1>2, <1>6 DEF PipeGrows
<1>9. MarksNew
      <2>1. ASSUME NEW e \in Req, Marked(e)', e # p PROVE Marked(e)
            <3>1. CASE e \in last
                  BY <1>2, <1>3, <1>4, <2>1, <3>1 DEF Marked
            <3>2. CASE e \notin last
                  BY <1>2, <1>3, <1>4, <2>1, <3>2 DEF Marked
            <3> QED BY <3>1, <3>2
      <2>2. Marked(p)
            BY DEF Marked
      <2> QED BY <1>2, <2>1, <2>2 DEF MarksNew
<1>10. DeferredNotSent'
      <2>1. \A q \in pendingParents' : 1 \notin stageSubmitTs'[q]
            BY <1>1, <1>2, Names DEF ServedInv, DeferredNotSent
      <2> QED BY <1>4, <2>1 DEF DeferredNotSent
<1> QED BY <1>4, <1>5, <1>7, <1>8, <1>9, <1>10 DEF Moves

\* The output handler waits for a replica of the diffusion stage.
LEMMA AwaitingMoves ==
    ASSUME OrchInv, OrchTypes, ServedInv, raised = "no",
           NEW p \in Parent, NEW last \in SUBSET Companion, NEW early, poller.at = "poll", p \in requestStates,
           poller' = Waiting(p, last, early),
           \A r \in Req : core'[r] = core[r] \/ (r \in {p} \cup last /\ core'[r] = None),
           pendingParents' = pendingParents \ {p},
           UNCHANGED <<handler, attached, stateVars, affinity, clientVars>>
    PROVE  Moves({p} \cup last)
<1>1. /\ requestStates \in SUBSET Req /\ UNCHANGED <<requestStates, stageSubmitTs, requestPipe>>
      /\ poller'.at = "pick" /\ poller'.id = p /\ poller'.last = last
      BY DEF stateVars, clientVars, pipeVars, Waiting, OrchInv, Shapes, Tables
<1>2. Stays({p} \cup last)
      <2> SUFFICES ASSUME NEW e \in requestStates' \ ({p} \cup last)
                   PROVE  /\ e \in requestStates /\ core'[e] = core[e]
                          /\ affinity'[0][e] = affinity[0][e] /\ affinity'[1][e] = affinity[1][e]
                          /\ stageSubmitTs'[e] = stageSubmitTs[e]
                          /\ InPick(e) => InPick(e)' \/ poller'.at = "done"
                          /\ e \in pendingParents => e \in pendingParents'
                          /\ Held(e) => Held(e)'
            BY DEF Stays
      <2>1. InPick(e) => InPick(e)'
            BY DEF InPick
      <2>2. Held(e) => Held(e)'
            BY DEF Held, clientVars, pipeVars, procVars
      <2> QED BY <1>1, <2>1, <2>2
<1>3. Lands({p} \cup last)
      <2>1. \A e \in {p} \cup last : InPick(e)'
            BY <1>1 DEF InPick
      <2>2. ASSUME NEW e \in requestStates, core'[e] # None
            PROVE  core'[e] = affinity[0][e] /\ core'[e] \in attached
            BY <1>1, <2>2 DEF ServedInv, RunsWhereBound
      <2>3. \A e \in requestStates : Arrives(e)
            BY <1>1, HeldStays DEF Arrives, clientVars, pipeVars
      <2> QED BY <1>1, <2>1, <2>2, <2>3 DEF Lands, Served
<1>4. PipeGrows
      BY <1>1 DEF PipeGrows
<1>5. MarksNew
      <2>1. ASSUME NEW e \in Req, Marked(e)' PROVE Marked(e)
            BY <1>1, <2>1 DEF Marked
      <2> QED BY <1>1, <2>1 DEF MarksNew
<1>6. DeferredNotSent'
      BY <1>1 DEF ServedInv, DeferredNotSent
<1> QED BY <1>2, <1>3, <1>4, <1>5, <1>6 DEF Moves

\* No engine core starts a request, and only some of ids end.
CoresRest(ids) == \A e \in Req : core'[e] = core[e] \/ (e \in ids /\ core'[e] = None)

\* A parent goes on, and the request whose output led here is done, or generates on.
LEMMA ForwardMoves ==
    ASSUME OrchInv, OrchTypes, ServedInv, raised = "no", raised' = "no", poller.at = "poll", ~shutdown,
           NEW p \in Parent, NEW done \in SUBSET Companion, NEW early \in BOOLEAN, p \in requestStates,
           Forward(p, done, early),
           CoresRest({p} \cup IF early THEN {} ELSE done),
           UNCHANGED PollerFrame, UNCHANGED ClientFrame
    PROVE  \E X \in SUBSET Req : Moves(X)
<1> DEFINE last == IF early THEN {} ELSE done
<1>1. /\ p \in Req /\ last \in SUBSET Req /\ WithCompanions(p) \in SUBSET Req /\ last \in SUBSET Companion
      /\ core \in [Req -> Replica0 \cup {None}] /\ pendingParents \in SUBSET Parent
      BY Names, FamilyTypes DEF OrchTypes, FleetTypes, TrackTypes
<1>2. UNCHANGED <<handler, attached, responsePipe, procVars, outputQueue>>
      BY DEF PollerFrame, ClientFrame, hubVars
<1>3. \A e \in Req : core'[e] = core[e] \/ (e \in {p} \cup last /\ core'[e] = None)
      BY DEF CoresRest
<1>4. CASE /\ CleanupParent(p) /\ Forget(WithCompanions(p) \cup last)
           /\ UNCHANGED <<poller, stageSubmitTs, requestPipe>>
      <2> DEFINE ids == WithCompanions(p) \cup last
      <2>1. /\ ids \in SUBSET Req /\ {p} \cup last \subseteq ids
            /\ pendingParents' = pendingParents \ {p} /\ requestStates' = requestStates \ ids
            BY <1>1, <1>4 DEF WithCompanions, CleanupParent, Forget
      <2>2. \A e \in requestStates' : Held(e) => Held(e)'
            BY <1>2 DEF Held, procVars
      <2>3. \A e \in Req : core'[e] = core[e] \/ (e \in ids /\ core'[e] = None)
            BY <1>3, <2>1
      <2>4. pendingParents' \subseteq pendingParents /\ pendingParents \cap requestStates' \subseteq pendingParents'
            BY <2>1
      <2> HIDE DEF ids
      <2>5. Forget(ids)
            BY <1>4 DEF ids
      <2>6. Moves({})
            BY <1>2, <1>4, <2>1, <2>2, <2>3, <2>4, <2>5, ForgottenMoves
      <2> QED BY <2>6
<1>5. CASE ~engineDead /\ D \in attached /\ SubmitDiffusion(p, last, early) /\ pendingParents' = pendingParents \ {p}
      <2>1. D \in attached
            BY <1>5
      <2>2. Moves({p})
            BY <1>2, <1>3, <1>5, <2>1, SubmittedMoves
      <2> QED BY <1>1, <2>2
<1>6. CASE /\ poller' = Waiting(p, last, early) /\ pendingParents' = pendingParents \ {p}
           /\ UNCHANGED <<stateVars, affinity, requestPipe>>
      <2>1. UNCHANGED clientVars
            BY <1>6 DEF ClientFrame, clientVars, pipeVars
      <2>2. Moves({p} \cup last)
            BY <1>2, <1>3, <1>6, <2>1, AwaitingMoves
      <2> QED BY <1>1, <2>2
<1>7. ASSUME NEW e \in {"EngineDead", "RuntimeError"}, Throw(e, early) PROVE FALSE
      BY <1>7, ThrowEnds
<1> QED BY <1>4, <1>5, <1>6, <1>7 DEF Forward, SubmitDiffusion

\* Nobody who is tracked moves.
LEMMA QuietMoves ==
    ASSUME ServedInv, raised = "no",
           \A r \in Req : core'[r] = core[r] \/ (r \notin requestStates /\ core'[r] = None),
           requestStates \in SUBSET Req,
           UNCHANGED <<requestStates, pendingParents, stageSubmitTs, requestPipe, attached>>,
           \A r \in requestStates : affinity'[0][r] = affinity[0][r],
           \A r \in Req : affinity'[1][r] = affinity[1][r],
           handler' = handler \/ (handler.at # "pick" /\ handler'.at # "pick"),
           poller' = poller \/ poller'.at = "done",
           \A r \in requestStates : Held(r) => Held(r)'
    PROVE  Moves({})
<1>1. Stays({})
      <2> SUFFICES ASSUME NEW r \in requestStates'
                   PROVE  /\ r \in requestStates /\ core'[r] = core[r]
                          /\ affinity'[0][r] = affinity[0][r] /\ affinity'[1][r] = affinity[1][r]
                          /\ stageSubmitTs'[r] = stageSubmitTs[r]
                          /\ InPick(r) => InPick(r)' \/ poller'.at = "done"
                          /\ r \in pendingParents => r \in pendingParents'
                          /\ Held(r) => Held(r)'
            BY DEF Stays
      <2>1. InPick(r) => InPick(r)' \/ poller'.at = "done"
            BY DEF InPick
      <2>2. r \in requestStates /\ core'[r] = core[r]
            OBVIOUS
      <2> QED BY <2>1, <2>2
<1>2. MarksNew
      <2>1. ASSUME NEW r \in Req, Marked(r)' PROVE Marked(r)
            BY <2>1 DEF Marked
      <2> QED BY <2>1 DEF MarksNew
<1>3. Lands({}) /\ PipeGrows
      BY DEF Lands, PipeGrows
<1>4. DeferredNotSent'
      BY DEF ServedInv, DeferredNotSent
<1> QED BY <1>1, <1>2, <1>3, <1>4 DEF Moves

\* A request fails.
LEMMA StageErrorMoves ==
    ASSUME OrchInv, OrchTypes, ServedInv, raised = "no", NEW r \in Req, r \in requestStates, StageError(r),
           UNCHANGED <<handler, attached>>, \A e \in requestStates' : Held(e) => Held(e)'
    PROVE  Moves({}) /\ r \notin requestStates'
<1>1. PICK p \in Parent : /\ CleanupParent(p) /\ AbortIds(WithCompanions(p)) /\ Forget(WithCompanions(p))
                          /\ r \in WithCompanions(p) /\ UNCHANGED <<poller, stageSubmitTs>>
      BY StageErrorFamily
<1>2. /\ WithCompanions(p) \in SUBSET Req /\ p \in WithCompanions(p)
      /\ requestStates' = requestStates \ WithCompanions(p) /\ pendingParents' = pendingParents \ {p}
      BY <1>1, FamilyTypes DEF Forget, CleanupParent, WithCompanions
<1>3. \A e \in Req : core'[e] = core[e] \/ (e \in WithCompanions(p) /\ core'[e] = None)
      BY <1>1 DEF AbortIds
<1>4. pendingParents' \subseteq pendingParents /\ pendingParents \cap requestStates' \subseteq pendingParents'
      BY <1>2
<1> QED BY <1>1, <1>2, <1>3, <1>4, ForgottenMoves

LEMMA PollLLMMoves ==
    ASSUME OrchInv, OrchTypes, ServedInv, raised = "no", raised' = "no", NEW r \in Req, PollLLM(r)
    PROVE  \E X \in SUBSET Req : Moves(X)
<1>1. /\ poller.at = "poll" /\ ~shutdown /\ UNCHANGED <<PollerFrame, ClientFrame>>
      /\ UNCHANGED <<handler, attached, responsePipe, procVars, outputQueue>>
      /\ core \in [Req -> Replica0 \cup {None}] /\ requestStates \in SUBSET Req
      BY DEF PollLLM, Polls, PollerFrame, ClientFrame, hubVars, OrchInv, Shapes, Tables, OrchTypes, FleetTypes
<1>2. \A e : Held(e) => Held(e)'
      BY <1>1, HeldStays
<1>3. CASE r \notin requestStates /\ core' = [core EXCEPT ![r] = None] /\ UNCHANGED Dropped
      <2>1. \A e \in Req : core'[e] = core[e] \/ (e \notin requestStates /\ core'[e] = None)
            BY <1>1, <1>3
      <2>2. UNCHANGED <<requestStates, affinity, pendingParents, stageSubmitTs, requestPipe, poller>>
            BY <1>3 DEF Dropped, stateVars, trackerVars
      <2>3. Moves({})
            BY <1>1, <1>2, <2>1, <2>2, QuietMoves
      <2> QED BY <2>3
<1>4. CASE r \in requestStates /\ StageError(r)
      BY <1>1, <1>2, <1>4, StageErrorMoves
<1>5. ASSUME NEW early \in BOOLEAN, r \in requestStates, IsCompanion(r), CompanionDone(r, early),
             core' = IF early THEN core ELSE [core EXCEPT ![r] = None]
      PROVE  \E X \in SUBSET Req : Moves(X)
      <2> DEFINE p == Owner[r]
                 output == IF early THEN {} ELSE {r}
      <2>1. r \in Companion /\ p \in Parent /\ {r} \in SUBSET Companion /\ output \in SUBSET Req /\ r \in {p} \cup {r}
            BY <1>5, DoneOwner
      <2>2. CASE p \in requestStates /\ Forward(p, {r}, early)
            <3>1. CoresRest({p} \cup IF early THEN {} ELSE {r})
                  BY <1>1, <1>5, <2>1 DEF CoresRest
            <3> HIDE DEF p
            <3> QED BY <1>1, <2>1, <2>2, <3>1, ForwardMoves
      <2>3. CASE /\ ~(/\ p \in pendingParents /\ r \notin companionsDone /\ companionMap[p] \ companionsDone \subseteq {r}
                      /\ p \in requestStates /\ 1 \notin stageSubmitTs[p])
                 /\ pendingParents' =
                       IF p \in pendingParents /\ r \notin companionsDone /\ companionMap[p] \ companionsDone \subseteq {r}
                       THEN pendingParents \ {p} ELSE pendingParents
                 /\ Forget(output) /\ UNCHANGED <<poller, stageSubmitTs, requestPipe>>
            <3>1. p \in pendingParents => 1 \notin stageSubmitTs[p]
                  BY DEF ServedInv, DeferredNotSent
            <3>2. requestStates' = requestStates \ output
                  BY <2>3 DEF Forget
            <3>3. pendingParents' \subseteq pendingParents /\ pendingParents \cap requestStates' \subseteq pendingParents'
                  BY <2>3, <3>1, <3>2
            <3>4. \A e \in Req : core'[e] = core[e] \/ (e \in output /\ core'[e] = None)
                  BY <1>1, <1>5
            <3>5. Moves({})
                  <4> HIDE DEF output
                  <4> QED BY <1>1, <1>2, <2>1, <2>3, <3>3, <3>4, ForgottenMoves
            <3> QED BY <3>5
      <2> QED BY <1>5, <2>2, <2>3 DEF CompanionDone
<1>6. ASSUME NEW early \in BOOLEAN, r \in requestStates, ~IsCompanion(r), ParentDone(r, early),
             core' = IF early THEN core ELSE [core EXCEPT ![r] = None]
      PROVE  \E X \in SUBSET Req : Moves(X)
      <2>1. r \in Parent /\ {} \in SUBSET Companion /\ r \in {r} \cup {}
            BY <1>6, OrchAssumption DEF OrchInv, Families
      <2>2. CASE Forward(r, {}, early)
            <3>1. CoresRest({r} \cup IF early THEN {} ELSE {})
                  BY <1>1, <1>6, <2>1 DEF CoresRest
            <3> QED BY <1>1, <1>6, <2>1, <2>2, <3>1, ForwardMoves
      <2>3. ASSUME \/ pendingParents' = pendingParents \cup {r} /\ 1 \notin stageSubmitTs[r]
                   \/ pendingParents' = pendingParents /\ 1 \in stageSubmitTs[r],
                   UNCHANGED <<poller, requestStates, stageSubmitTs, affinity, requestPipe>>
            PROVE  Moves({r})
            <3>1. /\ \A e \in Req \ {r} : core'[e] = core[e]
                  /\ core'[r] \in {core[r], None}
                  BY <1>1, <1>6
            <3>2. Stays({r})
                  <4> SUFFICES ASSUME NEW e \in requestStates' \ {r}
                               PROVE  /\ e \in requestStates /\ core'[e] = core[e]
                                      /\ affinity'[0][e] = affinity[0][e] /\ affinity'[1][e] = affinity[1][e]
                                      /\ stageSubmitTs'[e] = stageSubmitTs[e]
                                      /\ InPick(e) => InPick(e)' \/ poller'.at = "done"
                                      /\ e \in pendingParents => e \in pendingParents'
                                      /\ Held(e) => Held(e)'
                        BY DEF Stays
                  <4>1. InPick(e) => InPick(e)'
                        BY <1>1, <2>3 DEF InPick
                  <4> QED BY <1>1, <1>2, <2>3, <3>1, <4>1
            <3>3. Lands({r})
                  <4>1. Arrives(r)
                        BY <1>2, <1>6, <2>3 DEF Arrives
                  <4>2. Served(r)'
                        <5>1. CASE 1 \in stageSubmitTs[r]
                              <6>1. AtDiffusion(r)
                                    BY <1>6, <5>1 DEF ServedInv, SentArrived
                              <6>2. AtDiffusion(r)'
                                    BY <1>1, <2>3, <6>1 DEF AtDiffusion, procVars
                              <6> QED BY <6>2 DEF Served
                        <5> QED BY <2>3, <5>1 DEF Served
                  <4>3. core'[r] # None => core'[r] = affinity'[0][r] /\ core'[r] \in attached'
                        BY <1>1, <1>6, <2>3, <3>1 DEF ServedInv, RunsWhereBound
                  <4> QED BY <4>1, <4>2, <4>3 DEF Lands
            <3>4. PipeGrows
                  BY <2>3 DEF PipeGrows
            <3>5. MarksNew
                  <4>1. ASSUME NEW e \in Req, Marked(e)' PROVE Marked(e)
                        BY <1>1, <2>3, <3>1, <4>1 DEF Marked
                  <4> QED BY <2>3, <4>1 DEF MarksNew
            <3>6. DeferredNotSent'
                  BY <1>1, <2>3 DEF ServedInv, DeferredNotSent
            <3> QED BY <1>1, <2>3, <3>2, <3>3, <3>4, <3>5, <3>6 DEF Moves
      <2>4. r \in Req /\ {r} \in SUBSET Req
            OBVIOUS
      <2> QED BY <1>6, <2>2, <2>3, <2>4 DEF ParentDone, Dropped, stateVars, trackerVars
<1> QED BY <1>3, <1>4, <1>5, <1>6 DEF PollLLM

\* A poll returns the oldest reply and keeps the others.
LEMMA RepliesKept ==
    ASSUME ClientTypes, NEW o, PollReturns(o), NEW m \in Replies, m # o, m # Sentinel,
           m \in ToSet(responsePipe) \cup ToSet(outputQueue)
    PROVE  m \in ToSet(outputQueue')
<1>1. /\ responsePipe \in Seq(Replies \cup {Sentinel}) /\ Len(responsePipe) \in Nat
      /\ DOMAIN responsePipe = 1 .. Len(responsePipe)
      /\ outputQueue \in Seq(Replies) /\ Len(outputQueue) \in Nat
      /\ DOMAIN outputQueue = 1 .. Len(outputQueue)
      /\ Outputs(responsePipe) \in Seq(Replies) /\ Len(Outputs(responsePipe)) \in Nat
      BY OutputsType, LenProperties DEF ClientTypes
<1>2. m \in ToSet(responsePipe) => \E i \in 1 .. Len(Outputs(responsePipe)) : Outputs(responsePipe)[i] = m
      <2> SUFFICES ASSUME m \in ToSet(responsePipe)
                   PROVE  \E i \in 1 .. Len(Outputs(responsePipe)) : Outputs(responsePipe)[i] = m
            OBVIOUS
      <2>1. PICK i \in 1 .. Len(responsePipe) : responsePipe[i] = m
            BY <1>1 DEF ToSet
      <2>2. CASE responsePipe # <<>> /\ Last(responsePipe) = Sentinel
            <3>1. Outputs(responsePipe) = SubSeq(responsePipe, 1, Len(responsePipe) - 1)
                  BY <2>2 DEF Outputs, Front
            <3>2. i # Len(responsePipe)
                  BY <2>1, <2>2 DEF Last
            <3>3. Len(responsePipe) >= 1 /\ i \in 1 .. Len(responsePipe) - 1
                  <4>1. Len(responsePipe) \in Nat /\ i \in 1 .. Len(responsePipe)
                        BY <1>1, <2>1
                  <4> QED BY <3>2, <4>1
            <3>4. SubSeq(responsePipe, 1, Len(responsePipe) - 1) = [k \in 1 .. Len(responsePipe) - 1 |-> responsePipe[k]]
                  BY <1>1, <3>3
            <3>5. Len(Outputs(responsePipe)) = Len(responsePipe) - 1
                  BY <1>1, <3>1, <3>3, <3>4
            <3> QED BY <2>1, <3>1, <3>3, <3>4, <3>5
      <2>3. CASE ~(responsePipe # <<>> /\ Last(responsePipe) = Sentinel)
            BY <2>1, <2>3 DEF Outputs
      <2> QED BY <2>2, <2>3
<1>3. /\ Arrived \in Seq(Replies) /\ Len(Arrived) = Len(outputQueue) + Len(Outputs(responsePipe))
      /\ \A i \in 1 .. Len(outputQueue) : Arrived[i] = outputQueue[i]
      /\ \A i \in 1 .. Len(Outputs(responsePipe)) : Arrived[Len(outputQueue) + i] = Outputs(responsePipe)[i]
      <2> DEFINE out == Outputs(responsePipe)
      <2>1. out \in Seq(Replies)
            BY <1>1
      <2> HIDE DEF out
      <2>2. /\ outputQueue \o out \in Seq(Replies) /\ Len(outputQueue \o out) = Len(outputQueue) + Len(out)
            /\ \A i \in 1 .. Len(outputQueue) + Len(out) : (outputQueue \o out)[i] =
                  IF i <= Len(outputQueue) THEN outputQueue[i] ELSE out[i - Len(outputQueue)]
            BY <1>1, <2>1, ConcatProperties
      <2>3. Len(out) \in Nat
            BY <1>1 DEF out
      <2>4. \A i \in 1 .. Len(outputQueue) : (outputQueue \o out)[i] = outputQueue[i]
            BY <1>1, <2>2, <2>3
      <2>5. ASSUME NEW i \in 1 .. Len(out) PROVE (outputQueue \o out)[Len(outputQueue) + i] = out[i]
            <3>1. /\ Len(outputQueue) + i \in 1 .. Len(outputQueue) + Len(out)
                  /\ ~(Len(outputQueue) + i <= Len(outputQueue)) /\ Len(outputQueue) + i - Len(outputQueue) = i
                  BY <1>1, <2>3
            <3> QED BY <2>2, <3>1
      <2> QED BY <2>2, <2>4, <2>5 DEF out, Arrived
<1>4. PICK i \in 1 .. Len(Arrived) : Arrived[i] = m
      <2>1. CASE m \in ToSet(outputQueue)
            <3>1. PICK k \in 1 .. Len(outputQueue) : outputQueue[k] = m
                  BY <1>1, <2>1 DEF ToSet
            <3>2. k \in 1 .. Len(Arrived)
                  BY <1>1, <1>3
            <3> QED BY <1>3, <3>1, <3>2
      <2>2. CASE m \in ToSet(responsePipe)
            <3>1. PICK k \in 1 .. Len(Outputs(responsePipe)) : Outputs(responsePipe)[k] = m
                  BY <1>2, <2>2
            <3>2. Len(outputQueue) + k \in 1 .. Len(Arrived)
                  BY <1>1, <1>3
            <3> QED BY <1>3, <3>1, <3>2
      <2> QED BY <2>1, <2>2
<1>5. /\ Arrived # <<>> /\ o = Arrived[1] /\ outputQueue' = Tail(Arrived)
      /\ Len(Arrived) \in Nat /\ Len(Tail(Arrived)) = Len(Arrived) - 1 /\ Tail(Arrived) \in Seq(Replies)
      /\ \A k \in 1 .. Len(Tail(Arrived)) : Tail(Arrived)[k] = Arrived[k + 1]
      BY <1>3, TailSeq DEF PollReturns
<1>6. i - 1 \in 1 .. Len(Tail(Arrived)) /\ (i - 1) + 1 = i
      <2>1. i # 1
            BY <1>4, <1>5
      <2> QED BY <1>5, <2>1
<1>7. Tail(Arrived)[i - 1] = m
      BY <1>4, <1>5, <1>6
<1>8. DOMAIN Tail(Arrived) = 1 .. Len(Tail(Arrived))
      BY <1>5, LenProperties
<1> QED BY <1>5, <1>6, <1>7, <1>8 DEF ToSet

LEMMA PollKeepsHeld ==
    ASSUME ClientTypes, NEW r, NEW kind, PollReturns(Reply(r, kind)),
           NEW e \in Req, e # r, Held(e)
    PROVE  Held(e)'
<1>1. UNCHANGED procVars
      BY DEF PollReturns
<1>2. CASE e \in procTasks \/ proc = "dead"
      BY <1>1, <1>2 DEF Held, procVars
<1>3. ASSUME NEW k \in {"result", "error"}, Reply(e, k) \in ToSet(responsePipe) \cup ToSet(outputQueue)
      PROVE  Held(e)'
      <2>1. Reply(e, k) \in Replies /\ Reply(e, k) # Sentinel
            BY ReplyNotSentinel DEF Replies, Reply
      <2>2. Reply(e, k) # Reply(r, kind)
            <3>1. Reply(e, k).id = e /\ Reply(r, kind).id = r
                  BY DEF Reply
            <3> QED BY <3>1
      <2>3. Reply(e, k) \in ToSet(outputQueue')
            BY <1>3, <2>1, <2>2, RepliesKept
      <2> QED BY <2>3 DEF Held
<1> QED BY <1>2, <1>3 DEF Held

LEMMA PollDiffusionMoves ==
    ASSUME OrchInv, OrchTypes, ServedInv, raised = "no", raised' = "no", PollDiffusion
    PROVE  Moves({})
<1>1. /\ poller.at = "poll" /\ UNCHANGED <<handler, attached>> /\ requestStates \in SUBSET Req
      BY DEF PollDiffusion, Polls, PollerFrame, hubVars, OrchInv, Shapes, Tables
<1>2. ASSUME NEW r \in Parent, NEW kind \in {"result", "error"},
             PollReturns(Reply(r, kind)), DiffusionOutput(Reply(r, kind))
      PROVE  Moves({})
      <2>1. Reply(r, kind).id = r /\ r \in Req
            BY Names DEF Reply
      <2>2. \A e \in Req : e # r /\ Held(e) => Held(e)'
            BY <1>2, PollKeepsHeld DEF OrchTypes
      <2>3. CASE r \notin requestStates /\ UNCHANGED <<Dropped, core>>
            <3>1. \A e \in requestStates : Held(e) => Held(e)'
                  BY <1>1, <2>2, <2>3
            <3>2. UNCHANGED <<requestStates, affinity, pendingParents, stageSubmitTs, requestPipe, poller>>
                  BY <2>3 DEF Dropped, stateVars, trackerVars
            <3> QED BY <1>1, <2>3, <3>1, <3>2, QuietMoves
      <2>4. CASE r \in requestStates /\ StageError(r)
            <3>1. requestStates' \in SUBSET Req /\ r \notin requestStates'
                  <4>1. PICK p \in Parent : Forget(WithCompanions(p)) /\ r \in WithCompanions(p)
                        BY <2>1, <2>4, StageErrorFamily
                  <4> QED BY <1>1, <4>1 DEF Forget
            <3>2. \A e \in requestStates' : Held(e) => Held(e)'
                  BY <2>2, <3>1
            <3> QED BY <1>1, <2>1, <2>4, <3>2, StageErrorMoves
      <2>5. CASE /\ CleanupParent(r) /\ Forget(WithCompanions(r))
                 /\ UNCHANGED <<poller, stageSubmitTs, core, requestPipe>>
            <3>1. /\ WithCompanions(r) \in SUBSET Req /\ r \in WithCompanions(r)
                  /\ requestStates' = requestStates \ WithCompanions(r) /\ pendingParents' = pendingParents \ {r}
                  BY <2>5, FamilyTypes DEF Forget, CleanupParent, WithCompanions
            <3>2. \A e \in requestStates' : Held(e) => Held(e)'
                  BY <1>1, <2>2, <3>1
            <3>3. pendingParents' \subseteq pendingParents /\ pendingParents \cap requestStates' \subseteq pendingParents'
                  BY <3>1
            <3> QED BY <1>1, <2>5, <3>1, <3>2, <3>3, ForgottenMoves
      <2> QED BY <1>2, <2>1, <2>3, <2>4, <2>5 DEF DiffusionOutput
<1>3. CASE PollTakesForShutdown /\ UNCHANGED <<poller, stateVars, trackerVars, poolVars>>
      <2>1. UNCHANGED <<requestStates, affinity, core, pendingParents, stageSubmitTs, requestPipe, responsePipe,
                        procVars, outputQueue>>
            BY <1>3 DEF stateVars, trackerVars, poolVars, PollTakesForShutdown, pipeVars
      <2>2. \A e : Held(e) => Held(e)'
            BY <2>1, HeldStays
      <2> QED BY <1>1, <1>3, <2>1, <2>2, QuietMoves
<1>4. ASSUME Raise("EngineDead") PROVE FALSE
      BY <1>4, RaiseOnward
<1> QED BY <1>2, <1>3, <1>4 DEF PollDiffusion

LEMMA HandlerPicksMoves ==
    ASSUME OrchInv, OrchTypes, ServedInv, raised = "no", raised' = "no", HandlerPicks
    PROVE  Moves({handler.id})
<1>0. PICK h \in Req : h = handler.id
      BY DEF HandlerPicks, OrchInv, Shapes, Tables
<1>1. /\ handler.at = "pick" /\ h \in Req /\ requestStates \in SUBSET Req
      /\ core \in [Req -> Replica0 \cup {None}]
      /\ affinity \in [Stage -> [Req -> Replica \cup {None}]] /\ 0 \in Stage /\ 1 \in Stage
      /\ UNCHANGED <<poller, requestStates, stageSubmitTs, pendingParents, attached, clientVars>>
      BY Names DEF HandlerPicks, stateVars, trackerVars, hubVars, OrchInv, Shapes, Tables, OrchTypes, FleetTypes
<1>2. PICK replica \in Serviceable(0) : SubmitLLM(h, replica)
      BY <1>0, RaiseOnward DEF HandlerPicks
<1>3. replica \in attached /\ replica \notin coreDead
      BY <1>2, RaiseOnward DEF Serviceable, SubmitLLM
<1>4. /\ affinity' = [affinity EXCEPT ![0][h] = replica] /\ core' = [core EXCEPT ![h] = replica]
      /\ handler' = At("get")
      BY <1>2, <1>3 DEF SubmitLLM
<1>5. /\ affinity'[1] = affinity[1] /\ affinity'[0][h] = replica /\ core'[h] = replica /\ handler'.at = "get"
      /\ \A e \in Req \ {h} : affinity'[0][e] = affinity[0][e] /\ core'[e] = core[e]
      BY <1>1, <1>4 DEF At
<1>6. Stays({h})
      <2> SUFFICES ASSUME NEW e \in requestStates' \ {h}
                   PROVE  /\ e \in requestStates /\ core'[e] = core[e]
                          /\ affinity'[0][e] = affinity[0][e] /\ affinity'[1][e] = affinity[1][e]
                          /\ stageSubmitTs'[e] = stageSubmitTs[e]
                          /\ InPick(e) => InPick(e)' \/ poller'.at = "done"
                          /\ e \in pendingParents => e \in pendingParents'
                          /\ Held(e) => Held(e)'
            BY DEF Stays
      <2>1. e \in requestStates /\ e \in Req \ {h}
            BY <1>1
      <2>2. InPick(e) => InPick(e)'
            BY <1>0, <1>1, <2>1 DEF InPick
      <2>3. Held(e) => Held(e)'
            BY <1>1 DEF Held, clientVars, pipeVars, procVars
      <2> QED BY <1>1, <1>5, <2>1, <2>2, <2>3
<1>7. Lands({h})
      <2>1. Held(h) => Held(h)'
            BY <1>1, HeldStays DEF clientVars, pipeVars
      <2>2. affinity'[1][h] = affinity[1][h] /\ stageSubmitTs' = stageSubmitTs /\ requestStates' = requestStates
            BY <1>1, <1>5
      <2>3. h \in requestStates' => Arrives(h)
            BY <2>1, <2>2 DEF Arrives
      <2> QED BY <1>1, <1>3, <1>5, <2>3 DEF Lands, Served, AtLLM
<1>8. PipeGrows
      BY <1>1 DEF PipeGrows, clientVars, pipeVars
<1>9. MarksNew
      <2>1. ASSUME NEW e \in Req, Marked(e)' PROVE Marked(e)
            <3>1. CASE e = h
                  BY <1>0, <1>1, <3>1 DEF Marked
            <3>2. CASE e # h
                  BY <1>1, <1>5, <2>1, <3>2 DEF Marked
            <3> QED BY <3>1, <3>2
      <2> QED BY <1>1, <2>1 DEF MarksNew
<1>10. DeferredNotSent'
      BY <1>1 DEF ServedInv, DeferredNotSent
<1>11. Moves({h})
      BY <1>1, <1>6, <1>7, <1>8, <1>9, <1>10 DEF Moves
<1> QED BY <1>0, <1>11

LEMMA HandlerMoves ==
    ASSUME OrchInv, OrchTypes, ServedInv, raised = "no", raised' = "no", Handler
    PROVE  \E X : Moves(X)
<1>1. ASSUME NEW p \in Parent, HandleAdd(p) PROVE Moves({p})
      <2>1. /\ Get("add", p) /\ Admit(p, None) /\ handler.at = "get" /\ p \in Req
            /\ UNCHANGED <<asked, frontVars, poller, pendingParents, attached, clientVars>>
            BY <1>1, Names DEF HandleAdd, Get, trackerVars, hubVars
      <2>2. ~Seen(p) /\ Seen(p)'
            BY <2>1, GetTakes DEF Seen
      <2> QED BY <2>1, <2>2, AdmittedMoves
<1>2. ASSUME NEW c \in Companion, HandleCompanion(c) PROVE \E X : Moves(X)
      <2>1. /\ Get("companion", c) /\ handler.at = "get" /\ c \in Req /\ c \notin Parent
            /\ UNCHANGED <<asked, frontVars, poller, pendingParents, attached, clientVars>>
            BY <1>2, Names DEF HandleCompanion, Get, hubVars
      <2>2. ~Seen(c) /\ Seen(c)'
            BY <2>1, GetTakes DEF Seen
      <2>3. CASE Admit(c, Owner[c])
            BY <2>1, <2>2, <2>3, AdmittedMoves
      <2>4. CASE UNCHANGED <<handler, stateVars, poolVars>>
            <3>1. \A e : Held(e) => Held(e)'
                  BY <2>1 DEF Held, clientVars, pipeVars, procVars
            <3>2. UNCHANGED <<requestStates, affinity, core, stageSubmitTs, requestPipe>>
                  BY <2>1, <2>4 DEF stateVars, poolVars, clientVars, pipeVars
            <3>3. requestStates \in SUBSET Req
                  BY DEF OrchInv, Shapes, Tables
            <3> QED BY <2>1, <2>4, <3>1, <3>2, <3>3, QuietMoves
      <2> QED BY <1>2, <2>3, <2>4 DEF HandleCompanion
<1>3. ASSUME NEW p \in Parent, HandleAbort(p) PROVE Moves({})
      <2>1. /\ CleanupParent(p) /\ AbortIds(WithCompanions(p)) /\ Forget(WithCompanions(p))
            /\ UNCHANGED <<handler, poller, stageSubmitTs, attached, responsePipe, procVars, outputQueue>>
            /\ WithCompanions(p) \in SUBSET Req /\ p \in WithCompanions(p)
            BY <1>3, FamilyTypes DEF HandleAbort, taskVars, hubVars, WithCompanions
      <2>2. \A e : Held(e) => Held(e)'
            BY <2>1, HeldStays
      <2>3. requestStates' = requestStates \ WithCompanions(p) /\ pendingParents' = pendingParents \ {p}
            BY <2>1 DEF Forget, CleanupParent
      <2>4. pendingParents' \subseteq pendingParents /\ pendingParents \cap requestStates' \subseteq pendingParents'
            BY <2>1, <2>3
      <2>5. \A e \in Req : core'[e] = core[e] \/ (e \in WithCompanions(p) /\ core'[e] = None)
            BY <2>1 DEF AbortIds
      <2> QED BY <2>1, <2>2, <2>4, <2>5, ForgottenMoves
<1>4. CASE HandleShutdown
      <2>1. /\ UNCHANGED <<requestStates, affinity, core, pendingParents, stageSubmitTs, requestPipe, attached,
                           poller, responsePipe, procVars, outputQueue>>
            /\ handler.at # "pick" /\ handler'.at # "pick" /\ requestStates \in SUBSET Req
            BY <1>4 DEF HandleShutdown, Get, At, stateVars, poolVars, trackerVars, hubVars, pipeVars,
                        OrchInv, Shapes, Tables
      <2>2. \A e : Held(e) => Held(e)'
            BY <2>1, HeldStays
      <2>3. Moves({})
            BY <2>1, <2>2, QuietMoves
      <2> QED BY <2>3
<1> QED BY <1>1, <1>2, <1>3, <1>4, HandlerPicksMoves DEF Handler

\* An early submission fails after the shutdown has begun: the output handler ends,
\* and the binding may stay.
LEMMA GivenUpMoves ==
    ASSUME OrchInv, OrchTypes, ServedInv, raised = "no", raised' = "no", poller.at = "pick",
           NEW e \in {"EngineDead", "RuntimeError"}, Throw(e, poller.early),
           affinity' = affinity \/ affinity' = [affinity EXCEPT ![1][poller.id] = D],
           UNCHANGED <<handler, attached, core, pendingParents, stageSubmitTs, requestPipe, responsePipe, procVars,
                       outputQueue>>
    PROVE  Moves({poller.id})
<1>0. PICK p \in Req : p = poller.id
      BY Names DEF OrchInv, Shapes, Tables
<1>1. /\ p \in Req /\ requestStates \in SUBSET Req /\ 0 \in Stage /\ 1 \in Stage
      /\ affinity \in [Stage -> [Req -> Replica \cup {None}]]
      BY Names DEF OrchInv, Shapes, Tables
<1>2. poller'.at = "done" /\ requestStates' = requestStates
      BY ThrowEnds
<1>3. /\ affinity'[0] = affinity[0] /\ affinity'[1][p] \in {affinity[1][p], D}
      /\ \A r \in Req \ {p} : affinity'[1][r] = affinity[1][r]
      BY <1>0, <1>1
<1>4. \A r : Held(r) => Held(r)'
      BY HeldStays
<1>5. Stays({p})
      BY <1>1, <1>2, <1>3, <1>4 DEF Stays
<1>6. Lands({p})
      <2> SUFFICES ASSUME p \in requestStates
                   PROVE  Arrives(p) /\ (core'[p] # None => core'[p] = affinity'[0][p] /\ core'[p] \in attached')
            BY <1>2 DEF Lands
      <2>1. ASSUME 1 \in stageSubmitTs[p] PROVE affinity'[1][p] = affinity[1][p]
            BY <1>3, <2>1 DEF ServedInv, SentArrived, AtDiffusion
      <2>2. stageSubmitTs' = stageSubmitTs /\ (Held(p) => Held(p)')
            BY <1>4
      <2>3. Arrives(p)
            BY <2>1, <2>2 DEF Arrives
      <2> QED BY <1>3, <2>3 DEF ServedInv, RunsWhereBound
<1>7. MarksNew
      <2>1. ASSUME NEW r \in Req, Marked(r)' PROVE Marked(r)
            BY <1>0, <1>2, <1>3, <2>1 DEF Marked
      <2> QED BY <1>2, <2>1 DEF MarksNew
<1>8. PipeGrows /\ DeferredNotSent'
      BY <1>2 DEF PipeGrows, ServedInv, DeferredNotSent
<1>9. Moves({p})
      BY <1>2, <1>5, <1>6, <1>7, <1>8 DEF Moves
<1> QED BY <1>0, <1>9

LEMMA PollerMoves ==
    ASSUME OrchInv, OrchTypes, ServedInv, raised = "no", raised' = "no", Poller
    PROVE  \E X : Moves(X)
<1>1. CASE PollDead
      BY <1>1, RaiseOnward DEF PollDead, StageDies
<1>2. CASE PollerPicks
      <2>1. /\ poller.at = "pick" /\ poller.id \in Parent /\ poller.last \in SUBSET Companion /\ poller.id \in Req
            /\ UNCHANGED <<handler, attached, responsePipe, procVars, outputQueue, core, pendingParents>>
            /\ requestStates \in SUBSET Req /\ affinity \in [Stage -> [Req -> Replica \cup {None}]]
            BY <1>2, Names DEF PollerPicks, PollerFrame, ClientFrame, hubVars, trackerVars, OrchInv, Shapes, Tables
      <2>2. CASE Serviceable(1) # {} /\ ~engineDead /\ SubmitDiffusion(poller.id, poller.last, poller.early)
            <3>1. D \in attached
                  BY <2>2 DEF Serviceable
            <3>2. pendingParents' = pendingParents \ {poller.id}
                  BY <2>1 DEF ServedInv, DeferredNotSent
            <3>3. Moves({poller.id})
                  BY <2>1, <2>2, <3>1, <3>2, SubmittedMoves
            <3> QED BY <3>3
      <2>3. CASE /\ \E e \in {"EngineDead", "RuntimeError"} : Throw(e, poller.early)
                 /\ UNCHANGED <<stageSubmitTs, requestPipe>>
                 /\ affinity' = affinity \/ affinity' = [affinity EXCEPT ![1][poller.id] = D]
            BY <2>1, <2>3, GivenUpMoves
      <2> QED BY <1>2, <2>2, <2>3 DEF PollerPicks, SubmitDiffusion
<1>3. CASE PollerEnds
      <2>1. /\ UNCHANGED <<requestStates, affinity, core, pendingParents, stageSubmitTs, requestPipe, attached,
                           handler, responsePipe, procVars, outputQueue>>
            /\ poller.at # "pick" /\ poller'.at = "done" /\ requestStates \in SUBSET Req
            BY <1>3 DEF PollerEnds, At, stateVars, poolVars, trackerVars, hubVars, clientVars, pipeVars,
                        OrchInv, Shapes, Tables
      <2>2. \A e : Held(e) => Held(e)'
            BY <2>1, HeldStays
      <2>3. /\ \A r \in requestStates : affinity'[0][r] = affinity[0][r]
            /\ \A r \in Req : affinity'[1][r] = affinity[1][r]
            /\ \A r \in Req : core'[r] = core[r] \/ (r \notin requestStates /\ core'[r] = None)
            BY <2>1
      <2>4. Moves({})
            BY <2>1, <2>2, <2>3, QuietMoves
      <2> QED BY <2>4
<1> QED BY <1>1, <1>2, <1>3, PollLLMMoves, PollDiffusionMoves DEF Poller

\* The watcher finds who is bound to the replica that is lost, and with them who
\* runs there.
LEMMA ReplicaLostServed ==
    ASSUME OrchInv, OrchTypes, Onward, ServedInv, raised = "no", NEW replica \in Replica, ReplicaLost(replica)
    PROVE  ServedInv'
<1> DEFINE s == IF replica = D THEN 1 ELSE 0
           affected == {r \in Req : affinity[s][r] = replica}
           aborted == {r \in affected : affinity[1 - s][r] \in attached}
<1>1. /\ attached' = attached \ {replica} /\ Forget(affected)
      /\ core' = [r \in Req |-> IF s = 1 /\ r \in aborted THEN None ELSE core[r]]
      /\ requestPipe' = IF s = 1 \/ aborted = {} THEN requestPipe ELSE Append(requestPipe, AbortMessage(aborted))
      /\ UNCHANGED <<handler, poller, stageSubmitTs, pendingParents, responsePipe, procVars, outputQueue>>
      BY DEF ReplicaLost, taskVars, trackerVars
<1>2. /\ requestStates' = requestStates \ affected /\ requestStates \in SUBSET Req
      /\ affinity' = [t \in Stage |-> [r \in Req |-> IF r \in affected THEN None ELSE affinity[t][r]]]
      /\ core \in [Req -> Replica0 \cup {None}] /\ requestPipe \in Seq(ClientMessages)
      /\ attached \in SUBSET Replica /\ None \notin Replica /\ D \notin Replica0
      BY <1>1, OrchAssumption DEF Forget, OrchInv, Shapes, Tables, OrchTypes, FleetTypes, ClientTypes
<1>3. \A r \in Req : /\ affinity'[0][r] = IF r \in affected THEN None ELSE affinity[0][r]
                     /\ affinity'[1][r] = IF r \in affected THEN None ELSE affinity[1][r]
                     /\ core'[r] \in {core[r], None}
      BY <1>1, <1>2, Names
<1>4. \A r \in requestStates' : r \in requestStates /\ r \in Req /\ r \notin affected /\ core'[r] = core[r]
      BY <1>1, <1>2
<1>5. \A r \in aborted : r \in Req /\ r \notin requestStates' /\ (s = 0 => affinity[1][r] # None)
      <2>1. \A r \in aborted : r \in affected /\ affinity[1 - s][r] \in attached
            OBVIOUS
      <2>2. s = 0 => 1 - s = 1
            OBVIOUS
      <2> QED BY <1>2, <2>1, <2>2
<1>6. \A r \in Req : Marked(r)' => Marked(r)
      BY <1>1, <1>2, <1>3 DEF Marked
<1>7. \A r \in Req : Marked(r)' => Seen(r)'
      BY <1>6, SeenStays DEF ServedInv
<1>8. ASSUME NEW r \in requestStates', core[r] # None
      PROVE  core[r] = affinity'[0][r] /\ core[r] \in attached'
      <2>1. core[r] = affinity[0][r] /\ core[r] \in attached /\ r \notin affected /\ r \in Req
            BY <1>4, <1>8 DEF ServedInv, RunsWhereBound
      <2>2. core[r] # replica
            <3>1. CASE replica = D
                  BY <1>2, <1>8, <2>1, <3>1
            <3>2. CASE replica # D
                  BY <2>1, <3>2
            <3> QED BY <3>1, <3>2
      <2> QED BY <1>1, <1>3, <2>1, <2>2
<1>9. RunsWhereBound'
      BY <1>4, <1>8 DEF RunsWhereBound
<1>10. DeferredNotSent'
      BY <1>1 DEF ServedInv, DeferredNotSent
<1>11. PipeGrows
      <2>1. CASE requestPipe' = requestPipe
            BY <2>1 DEF PipeGrows
      <2>2. CASE s = 0 /\ requestPipe' = Append(requestPipe, AbortMessage(aborted))
            <3>1. AbortMessage(aborted) \in ClientMessages /\ AbortMessage(aborted).ids = aborted
                  BY DEF AbortMessage, ClientMessages
            <3>2. \A r \in aborted : r \notin requestStates' /\ Marked(r)
                  BY <1>5, <2>2 DEF Marked
            <3> QED BY <2>2, <3>1, <3>2 DEF PipeGrows
      <2> QED BY <1>1, <2>1, <2>2
<1>12. AbortsAreOver' /\ ToSet(requestPipe) \subseteq ToSet(requestPipe')
      <2>1. \A r \in requestStates' \ requestStates : ~Seen(r)
            BY <1>2
      <2> QED BY <1>11, <2>1, PipeAborts DEF ServedInv
<1>13. ASSUME NEW r \in requestStates', AtDiffusion(r) PROVE AtDiffusion(r)'
      <2>1. r \in Req /\ r \notin affected /\ D \in attached /\ affinity[1][r] = D
            BY <1>4, <1>13 DEF AtDiffusion
      <2>2. replica # D
            BY <2>1
      <2>3. D \in attached' /\ affinity'[1][r] = D
            BY <1>1, <1>3, <2>1, <2>2
      <2>4. AddMessage(r) \in ToSet(requestPipe) => AddMessage(r) \in ToSet(requestPipe')
            BY <1>12
      <2>5. Held(r) => Held(r)'
            BY <1>1, HeldStays
      <2> QED BY <1>13, <2>3, <2>4, <2>5 DEF AtDiffusion, Held
<1>14. SentArrived'
      BY <1>1, <1>4, <1>13 DEF ServedInv, SentArrived
<1>15. ASSUME poller.at # "done", NEW r \in requestStates' PROVE Served(r)'
      <2>1. r \in requestStates /\ core'[r] = core[r] /\ Served(r)
            BY <1>4, <1>15 DEF ServedInv
      <2>2. CASE AtLLM(r)
            <3>1. core[r] # None
                  BY <1>2, <2>2 DEF AtLLM
            <3> QED BY <1>8, <2>1, <3>1 DEF Served, AtLLM
      <2>3. CASE InPick(r) \/ r \in pendingParents
            BY <1>1, <2>3 DEF Served, InPick
      <2>4. CASE AtDiffusion(r)
            BY <1>13, <2>4 DEF Served
      <2> QED BY <2>1, <2>2, <2>3, <2>4 DEF Served
<1> QED BY <1>1, <1>7, <1>9, <1>10, <1>12, <1>14, <1>15 DEF ServedInv

\* What the process has been sent it has, until it has answered or is dead.
LEMMA ReceivedServed ==
    ASSUME OrchInv, OrchTypes, Onward, ServedInv, raised = "no", ProcReceives,
           UNCHANGED <<requestStates, stageSubmitTs, core, affinity, handler, poller, pendingParents, attached>>
    PROVE  ServedInv'
<1>1. /\ requestPipe \in Seq(ClientMessages) /\ requestPipe # <<>> /\ requestPipe' = Tail(requestPipe)
      /\ procTasks' = IF Head(requestPipe).type = "add" THEN procTasks \cup Head(requestPipe).ids
                      ELSE procTasks \ Head(requestPipe).ids
      /\ UNCHANGED <<responsePipe, proc, outputQueue>> /\ requestStates \in SUBSET Req
      BY DEF ProcReceives, OrchTypes, ClientTypes, OrchInv, Shapes, Tables
<1>2. /\ Head(requestPipe) \in ClientMessages /\ Head(requestPipe) = requestPipe[1]
      /\ Len(requestPipe) \in Nat /\ Len(requestPipe) >= 1 /\ Len(requestPipe') = Len(requestPipe) - 1
      /\ requestPipe' \in Seq(ClientMessages)
      /\ \A k \in 1 .. Len(requestPipe') : requestPipe'[k] = requestPipe[k + 1]
      BY <1>1, TailSeq
<1>3. DOMAIN requestPipe = 1 .. Len(requestPipe) /\ DOMAIN requestPipe' = 1 .. Len(requestPipe')
      BY <1>1, <1>2, LenProperties
<1>4. AbortsAreOver'
      <2> SUFFICES ASSUME NEW i \in 1 .. Len(requestPipe'), requestPipe'[i].type = "abort",
                          NEW r \in requestPipe'[i].ids
                   PROVE  r \notin requestStates /\ Seen(r)'
            BY DEF AbortsAreOver
      <2>1. i + 1 \in 1 .. Len(requestPipe) /\ requestPipe'[i] = requestPipe[i + 1]
            BY <1>2
      <2>2. r \notin requestStates /\ Seen(r)
            BY <2>1 DEF ServedInv, AbortsAreOver
      <2>3. r \in Req
            <3>1. requestPipe[i + 1] \in ClientMessages
                  BY <1>1, <2>1, ElementOfSeq
            <3> QED BY <2>1, <3>1 DEF ClientMessages
      <2> QED BY <2>2, <2>3, SeenStays
<1>5. ASSUME NEW r \in requestStates, AtDiffusion(r) PROVE AtDiffusion(r)'
      <2>1. CASE AddMessage(r) \in ToSet(requestPipe)
            <3>1. PICK k \in 1 .. Len(requestPipe) : requestPipe[k] = AddMessage(r)
                  BY <1>3, <2>1 DEF ToSet
            <3>2. CASE k = 1
                  <4>1. Head(requestPipe).type = "add" /\ r \in Head(requestPipe).ids
                        BY <1>2, <3>1, <3>2 DEF AddMessage
                  <4>2. r \in procTasks'
                        BY <1>1, <4>1
                  <4> QED BY <1>5, <4>2 DEF AtDiffusion
            <3>3. CASE k # 1
                  <4>1. k - 1 \in 1 .. Len(requestPipe') /\ (k - 1) + 1 = k
                        BY <1>2, <3>3
                  <4>2. requestPipe'[k - 1] = AddMessage(r)
                        BY <1>2, <3>1, <4>1
                  <4>3. AddMessage(r) \in ToSet(requestPipe')
                        BY <1>3, <4>1, <4>2 DEF ToSet
                  <4> QED BY <1>5, <4>3 DEF AtDiffusion
            <3> QED BY <3>2, <3>3
      <2>2. CASE r \in procTasks
            <3>1. CASE Head(requestPipe).type = "add"
                  BY <1>1, <1>5, <2>2, <3>1 DEF AtDiffusion
            <3>2. CASE Head(requestPipe).type # "add"
                  <4>1. Head(requestPipe).type = "abort" /\ 1 \in 1 .. Len(requestPipe)
                        BY <1>2, <3>2 DEF ClientMessages
                  <4>2. r \notin Head(requestPipe).ids
                        BY <1>2, <4>1 DEF ServedInv, AbortsAreOver
                  <4> QED BY <1>1, <1>5, <2>2, <3>2, <4>2 DEF AtDiffusion
            <3> QED BY <3>1, <3>2
      <2> QED BY <1>1, <1>5, <2>1, <2>2 DEF AtDiffusion
<1>6. SentArrived' /\ (poller.at = "done" \/ \A r \in requestStates : Served(r)')
      BY <1>5 DEF ServedInv, SentArrived, Served, AtLLM, InPick
<1>7. \A r \in Req : Marked(r)' => Seen(r)'
      BY SeenStays DEF ServedInv, Marked
<1>8. RunsWhereBound' /\ DeferredNotSent'
      BY DEF ServedInv, RunsWhereBound, DeferredNotSent
<1> QED BY <1>4, <1>6, <1>7, <1>8 DEF ServedInv

LEMMA ProcessKeepsHeld ==
    ASSUME ClientTypes, ProcessNext, ~ProcReceives, NEW e \in Req, Held(e)
    PROVE  Held(e)' /\ requestPipe' = requestPipe
<1>1. ASSUME NEW r \in Req, ProcResponds(r) \/ ProcFails(r) PROVE Held(e)' /\ requestPipe' = requestPipe
      <2>1. PICK kind \in {"result", "error"} : responsePipe' = Append(responsePipe, Reply(r, kind))
            BY <1>1 DEF ProcResponds, ProcFails
      <2>2. /\ responsePipe \in Seq(Replies \cup {Sentinel}) /\ Reply(r, kind) \in Replies \cup {Sentinel}
            /\ procTasks' = procTasks \ {r} /\ proc # "dead" /\ UNCHANGED <<requestPipe, outputQueue>>
            BY <1>1 DEF ProcResponds, ProcFails, ClientTypes, Replies, Reply
      <2>3. ToSet(responsePipe') = ToSet(responsePipe) \cup {Reply(r, kind)}
            BY <2>1, <2>2, ToSetAppend
      <2> QED BY <2>2, <2>3 DEF Held
<1>2. CASE ProcTearsDown \/ ProcKilled
      BY <1>2 DEF ProcTearsDown, ProcKilled, pipeVars, Held
<1>3. CASE MonitorNotices
      BY <1>3, HeldStays DEF MonitorNotices, pipeVars
<1> QED BY <1>1, <1>2, <1>3 DEF ProcessNext

LEMMA QuietServed ==
    ASSUME OrchInv, OrchTypes, Onward, ServedInv, raised = "no",
           UNCHANGED <<requestStates, stageSubmitTs, core, affinity, handler, poller, pendingParents, attached,
                       requestPipe>>,
           \A r \in Req : Held(r) => Held(r)'
    PROVE  ServedInv'
<1>1. requestStates \in SUBSET Req
      BY DEF OrchInv, Shapes, Tables
<1>2. Moves({})
      BY <1>1, QuietMoves
<1> QED BY <1>1, <1>2, MovesServed

LEMMA ProcessServed ==
    ASSUME OrchInv, OrchTypes, Onward, ServedInv, raised = "no", Process
    PROVE  ServedInv'
<1>1. /\ UNCHANGED <<requestStates, stageSubmitTs, core, affinity, handler, poller, pendingParents, attached>>
      /\ ProcessNext
      BY DEF Process, stateVars, poolVars, taskVars, trackerVars, hubVars
<1>2. CASE ProcReceives
      BY <1>1, <1>2, ReceivedServed
<1>3. CASE ~ProcReceives
      <2>1. \A r \in Req : Held(r) => Held(r)'
            BY <1>1, <1>3, ProcessKeepsHeld DEF OrchTypes
      <2>2. requestPipe' = requestPipe
            BY <1>1, <1>3 DEF ProcessNext, ProcResponds, ProcFails, ProcTearsDown, ProcKilled, MonitorNotices, pipeVars
      <2> QED BY <1>1, <2>1, <2>2, QuietServed
<1> QED BY <1>2, <1>3

LEMMA ServedStep == OrchInv /\ OrchTypes /\ TrackerInv /\ ServedInv /\ OrchInv' /\ [OrchNext]_orchVars => ServedInv'
<1> SUFFICES ASSUME OrchInv, OrchTypes, TrackerInv, ServedInv, OrchInv', [OrchNext]_orchVars,
                    raised' = "no"
             PROVE  ServedInv'
      BY DEF ServedInv
<1>1. Onward /\ raised = "no" /\ requestStates' \in SUBSET Req
      BY OnwardStep DEF Onward, OrchInv, Shapes, Tables
<1>2. CASE \E X : Moves(X)
      BY <1>1, <1>2, MovesServed
<1>3. CASE UNCHANGED <<stateVars, poolVars, trackerVars, taskVars, attached, clientVars>>
      <2>1. UNCHANGED <<requestStates, stageSubmitTs, core, affinity, handler, poller, pendingParents, attached,
                        requestPipe, responsePipe, procVars, outputQueue>>
            BY <1>3 DEF stateVars, poolVars, trackerVars, taskVars, clientVars, pipeVars
      <2>2. \A r : Held(r) => Held(r)'
            BY <2>1, HeldStays
      <2> QED BY <1>1, <2>1, <2>2, QuietServed
<1>4. CASE Frontend
      <2>1. /\ UNCHANGED <<requestStates, stageSubmitTs, core, handler, poller, pendingParents, attached,
                           requestPipe, responsePipe, procVars, outputQueue>>
            /\ requestStates \in SUBSET Req
            BY <1>4, FrontendFrame DEF stateVars, trackerVars, taskVars, hubVars, clientVars, pipeVars,
                                       OrchInv, Shapes, Tables
      <2>2. \A r : Held(r) => Held(r)'
            BY <2>1, HeldStays
      <2>3. /\ \A r \in requestStates : affinity'[0][r] = affinity[0][r]
            /\ \A r \in Req : affinity'[1][r] = affinity[1][r]
            <3>1. \/ affinity' = affinity
                  \/ \E q \in Parent : \E replica :
                        /\ affinity' = [affinity EXCEPT ![0][q] = replica]
                        /\ selecting[q] # None \/ q \in preselected
                  BY <1>4 DEF Frontend, AddRequest, AddCompanion, AbortRequest, Shutdown, SelectReplica, BindSelected,
                              PreprocessingFails, Put, poolVars
            <3>2. ASSUME NEW q \in Parent, NEW replica, affinity' = [affinity EXCEPT ![0][q] = replica],
                         selecting[q] # None \/ q \in preselected
                  PROVE  /\ \A r \in requestStates : affinity'[0][r] = affinity[0][r]
                         /\ \A r \in Req : affinity'[1][r] = affinity[1][r]
                  <4>1. q \notin requestStates
                        BY <3>2 DEF OrchInv, Preselection, Unread
                  <4> QED BY <2>1, <3>2, <4>1, Names DEF OrchInv, Shapes, Tables
            <3> QED BY <3>1, <3>2
      <2>4. Moves({})
            BY <1>1, <2>1, <2>2, <2>3, QuietMoves
      <2> QED BY <1>2, <2>4
<1>5. CASE (\E replica \in Replica : HubChanges(replica) \/ CoreDies(replica)) \/ UNCHANGED orchVars
      BY <1>3, <1>5 DEF HubChanges, CoreDies, orchVars, hubVars
<1>6. CASE Finish
      <2>1. /\ handler.at = "done" /\ poller.at = "done" /\ ~fatalError
            /\ UNCHANGED <<stageSubmitTs, core, affinity, pendingParents, attached, requestPipe, responsePipe,
                           procVars, outputQueue>>
            /\ handler' = At("done") /\ poller' = At("done") /\ requestStates \in SUBSET Req
            BY <1>1, <1>6 DEF Finish, TrackerInv, FatalRaises, poolVars, trackerVars, hubVars, pipeVars,
                              OrchInv, Shapes, Tables
      <2>2. requestStates' = requestStates
            BY <1>6, <2>1 DEF Finish
      <2>3. handler'.at # "pick" /\ poller'.at = "done" /\ handler.at # "pick"
            BY <2>1 DEF At
      <2>4. \A r : Held(r) => Held(r)'
            BY <2>1, HeldStays
      <2>5. /\ \A r \in requestStates : affinity'[0][r] = affinity[0][r]
            /\ \A r \in Req : affinity'[1][r] = affinity[1][r]
            /\ \A r \in Req : core'[r] = core[r] \/ (r \notin requestStates /\ core'[r] = None)
            BY <2>1
      <2>6. Moves({})
            BY <1>1, <2>1, <2>2, <2>3, <2>4, <2>5, QuietMoves
      <2> QED BY <1>2, <2>6
<1> QED BY <1>1, <1>2, <1>4, <1>5, <1>6, HandlerMoves, PollerMoves, ProcessServed, ReplicaLostServed DEF OrchNext

LEMMA ServedInit == OrchInit => ServedInv
<1> SUFFICES ASSUME OrchInit PROVE ServedInv
      OBVIOUS
<1>1. requestStates = {} /\ pendingParents = {} /\ requestPipe = <<>> /\ handler.at = "get" /\ poller.at = "poll"
      BY DEF OrchInit, ClientInit, At
<1>2. \A r \in Req : core[r] = None /\ affinity[1][r] = None
      BY Names DEF OrchInit
<1>3. Len(requestPipe) = 0
      BY <1>1, EmptySeq
<1> QED BY <1>1, <1>2, <1>3 DEF ServedInv, Marked, RunsWhereBound, DeferredNotSent, AbortsAreOver,
                              SentArrived

\* No request is lost on its way from its admission to its answer: while it is
\* tracked, an engine of an attached replica runs it, a task waits with it for a
\* replica, its companions' deferral holds it, or the diffusion process has it,
\* for any number of requests and replicas (orchestrator.py's _route_output,
\* _forward_to_next_stage and _handle_abort, handle_unregister).
THEOREM TrackedRequestsServed == OrchSafety => []TrackedIsServed
<1>1. ServedInv => TrackedIsServed
      BY DEF ServedInv, TrackedIsServed, Served
<1> QED BY <1>1, OrchInitInv, OrchStepInv, OrchTypesInit, OrchTypesStep, BoundInit, BoundStep,
           TrackerInit, TrackerStep, ServedInit, ServedStep, PTL DEF OrchSafety
================================================================================
