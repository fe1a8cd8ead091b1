------------------------------ MODULE ARRollout ------------------------------
(* The worker that rolls DreamZero sessions out chunk by chunk: the runner's *)
(* LRU of KV states (experimental/ar_diffusion/runner.py), the page pool     *)
(* with a window per CFG branch, the cross-attention pool all sessions share *)
(* (kv_cache/), and the pipeline's own LRU of model states with the phases   *)
(* of forward().  max_num_seqs is 1: one forward at a time, which can raise  *)
(* at any point and then loses its session.  One block holds one frame.      *)
EXTENDS Integers, SequencesExt

CONSTANTS
    Session,         \* session ids
    DefaultSession,  \* "default", whose model state the constructor creates
    Prompt, NoPrompt,
    Clip, NoClip,    \* image conditions: the CLIP features of an observation
    NegPrompt,       \* the negative prompt, a constant of the model
    Torn,            \* K/V of which only some layers were written
    Branch,          \* CFG branches of a forward: "pos" and, under CFG, "neg"
    LocalBranch,     \* those this rank executes
    NFrames,         \* num_frame_per_block
    Chunks,          \* max_chunk_size: causal blocks in the attention window
    NumBlocks,       \* managed_num_blocks, the null block included
    MaxSessions      \* MAX_DREAMZERO_SESSIONS

Window == Chunks * NFrames + 1   \* local_attn_size and window_chunks, in frames

ASSUME SessionAssumption == DefaultSession \in Session /\ MaxSessions \in Nat \ {0}
ASSUME ContentAssumption ==
    NoPrompt \notin Prompt /\ NoClip \notin Clip /\ Torn \notin Prompt \cup {NegPrompt} \cup Clip
ASSUME BranchAssumption ==
    /\ "pos" \in Branch /\ Branch \subseteq {"pos", "neg"}
    /\ LocalBranch \subseteq Branch /\ LocalBranch # {}
ASSUME WindowAssumption == NFrames \in Nat \ {0} /\ Chunks \in Nat \ {0}
\* The floor ARDiffusionKVCache raises its pool to.
ASSUME PoolAssumption ==
    /\ NumBlocks \in Nat
    /\ NumBlocks >= Cardinality(LocalBranch) * (Window + NFrames) + 2

VARIABLES
    sessions,  \* keys of _ar_diffusion_states, least recently used first
    kv,        \* the ARDiffusionKVState of each session
    free,      \* free blocks of the pool
    cross,     \* the cross-attention pool: per branch, whose K/V and of what
    states,    \* keys of DreamZeroPipeline._states, least recently used first
    dz,        \* the DreamZeroState of each session
    run        \* the forward in progress

rolloutVars == <<sessions, kv, free, cross, states, dz, run>>

-----------------------------------------------------------------------------
Held(order) == {order[i] : i \in DOMAIN order}
MoveToEnd(order, s) == Append(RemoveFirst(order, s), s)

\* What the eviction loop removes from an LRU map just used.
Evicted(order) == IF Len(order) > MaxSessions THEN {order[1]} ELSE {}
Kept(order) == IF Len(order) > MaxSessions THEN Tail(order) ELSE order

\* frames: chunks committed; blocks: resident blocks; pending: branches whose
\* current blocks are allocated and not committed; text, img: populated flags.
FreshKv == [frames |-> [b \in Branch |-> 0], blocks |-> [b \in Branch |-> 0],
            pending |-> {}, text |-> {}, img |-> {}]
FreshModel == [csf |-> 0, lang |-> NoPrompt, clip |-> NoClip]
Idle == [phase |-> "idle", sess |-> DefaultSession, carrier |-> FreshModel, todo |-> {}]

\* The blocks the sessions in S hold, each named by its place in a block table.
Resident(S) == UNION {{<<s, b>>} \X (1..kv[s].blocks[b]) : s \in S, b \in Branch}

\* The positive branch runs before the negative one.
First(todo) == IF "pos" \in todo THEN "pos" ELSE "neg"

TextOf(b) == IF b = "pos" THEN run.carrier.lang ELSE NegPrompt

RolloutInit ==
    /\ sessions = <<>>
    /\ kv = [s \in Session |-> FreshKv]
    /\ free = NumBlocks - 1
    /\ cross = [b \in Branch |-> [textBy |-> {}, text |-> Torn, imgBy |-> {}, img |-> Torn]]
    /\ states = <<DefaultSession>>
    /\ dz = [s \in Session |-> FreshModel]
    /\ run = Idle

-----------------------------------------------------------------------------
(* The runner: ARDiffusionModelRunner.execute_model up to the forward.       *)

\* Free the blocks of the sessions in S (ARDiffusionKVState.close).
Close(S) ==
    /\ kv' = [s \in Session |-> IF s \in S THEN FreshKv ELSE kv[s]]
    /\ free' = free + Cardinality(Resident(S))

\* Mutants, here and below, are faulty variants of the definition that follows
\* them; nothing in the specification uses them.
\* Mutant: an evicted state is dropped without close().
Attach_Unclosed(s) ==
    LET used == MoveToEnd(sessions, s)
    IN  /\ run.phase = "idle"
        /\ sessions' = Kept(used)
        /\ run' = [Idle EXCEPT !.phase = "attached", !.sess = s]
        /\ UNCHANGED <<kv, free, cross, states, dz>>

\* Mutant: a hit does not refresh the recency.
Attach_HitKeepsPlace(s) ==
    LET used == IF s \in Held(sessions) THEN sessions ELSE Append(sessions, s)
    IN  /\ run.phase = "idle"
        /\ sessions' = Kept(used)
        /\ Close(Evicted(used))
        /\ run' = [Idle EXCEPT !.phase = "attached", !.sess = s]
        /\ UNCHANGED <<cross, states, dz>>

\* The session's KV state is found or created, the least recent one evicted.
Attach(s) ==
    LET used == MoveToEnd(sessions, s)
    IN  /\ run.phase = "idle"
        /\ sessions' = Kept(used)
        /\ Close(Evicted(used))
        /\ run' = [Idle EXCEPT !.phase = "attached", !.sess = s]
        /\ UNCHANGED <<cross, states, dz>>

-----------------------------------------------------------------------------
(* The encode phase of forward().                                            *)

\* Mutant: the window is reset one chunk late.
ResetReason_Late(model, prompt, explicit) ==
    CASE explicit \/ model.lang # prompt -> "session"
      [] ~explicit /\ model.lang = prompt /\ model.csf > Window -> "inference"
      [] OTHER -> "none"

\* DreamZeroState.reset_reason; forward() passes no frame count to it.
ResetReason(model, prompt, explicit) ==
    CASE explicit \/ model.lang # prompt -> "session"
      [] ~explicit /\ model.lang = prompt /\ model.csf >= Window -> "inference"
      [] OTHER -> "none"

\* DreamZeroState.reset: a window reset keeps the prompt.
ResetModel(model, reason) ==
    CASE reason = "session" -> FreshModel
      [] reason = "inference" -> [model EXCEPT !.csf = 0, !.clip = NoClip]
      [] reason = "none" -> model

\* Mutant: the text K/V are kept whatever the reason.
ResetKv_KeepsText(s, reason) ==
    IF reason = "none" THEN UNCHANGED <<kv, free>>
    ELSE /\ kv' = [kv EXCEPT ![s] = [FreshKv EXCEPT !.text = kv[s].text]]
         /\ free' = free + Cardinality(Resident({s}))

\* Mutant: the adapters are replaced and their blocks not freed.
ResetKv_Leaks(s, reason) ==
    IF reason = "none" THEN UNCHANGED <<kv, free>>
    ELSE /\ kv' = [kv EXCEPT ![s] =
                     [FreshKv EXCEPT !.text = IF reason = "inference" THEN kv[s].text ELSE {}]]
         /\ UNCHANGED free

\* ARDiffusionKVState.reset: a window reset keeps the text K/V.
ResetKv(s, reason) ==
    IF reason = "none" THEN UNCHANGED <<kv, free>>
    ELSE /\ kv' = [kv EXCEPT ![s] =
                     [FreshKv EXCEPT !.text = IF reason = "inference" THEN kv[s].text ELSE {}]]
         /\ free' = free + Cardinality(Resident({s}))

\* _get_or_create_state, and the model state the phase leaves.
UseState(s, model) ==
    LET used == MoveToEnd(states, s)
    IN  /\ states' = Kept(used)
        /\ dz' = [t \in Session |-> IF t = s THEN model
                                    ELSE IF t \in Evicted(used) THEN FreshModel ELSE dz[t]]

\* The cross-attention K/V are populated at the start of a window only.
StartForward(s, carrier) ==
    run' = [phase |-> IF carrier.csf = 0 THEN "populate" ELSE "prefill", sess |-> s,
            carrier |-> carrier, todo |-> IF carrier.csf = 0 THEN Branch ELSE LocalBranch]

Encode(prompt, explicit, clip) ==
    LET s == run.sess
        reason == ResetReason(dz[s], prompt, explicit)
        model == ResetModel(dz[s], reason)
        encoded == [model EXCEPT !.lang = prompt, !.clip = IF model.csf = 0 THEN clip ELSE @]
    IN  /\ run.phase = "attached"
        /\ UseState(s, encoded)
        /\ ResetKv(s, reason)
        /\ StartForward(s, encoded)
        /\ UNCHANGED <<sessions, cross>>

-----------------------------------------------------------------------------
(* The denoise phase.                                                        *)

\* One branch of the cross pool after the running session wrote the halves it
\* has not populated yet.
CrossWritten(b, text, img) ==
    LET s == run.sess
        withText == IF b \in kv[s].text THEN cross[b]
                    ELSE [cross[b] EXCEPT !.textBy = {s}, !.text = text]
    IN  IF b \in kv[s].img THEN withText
        ELSE [withText EXCEPT !.imgBy = {s}, !.img = img]

\* Mutant: the image half is written and not marked.
Populate_TextFlagOnly(b) ==
    LET s == run.sess
        rest == run.todo \ {b}
    IN  /\ run.phase = "populate" /\ b = First(run.todo)
        /\ cross' = [cross EXCEPT ![b] = CrossWritten(b, TextOf(b), run.carrier.clip)]
        /\ kv' = [kv EXCEPT ![s] = [kv[s] EXCEPT !.text = @ \cup {b}]]
        /\ run' = IF rest = {} THEN [run EXCEPT !.phase = "prefill", !.todo = LocalBranch]
                  ELSE [run EXCEPT !.todo = rest]
        /\ UNCHANGED <<sessions, free, states, dz>>

\* _kv_populate_cross of one branch.
Populate(b) ==
    LET s == run.sess
        rest == run.todo \ {b}
    IN  /\ run.phase = "populate" /\ b = First(run.todo)
        /\ cross' = [cross EXCEPT ![b] = CrossWritten(b, TextOf(b), run.carrier.clip)]
        /\ kv' = [kv EXCEPT ![s] = [kv[s] EXCEPT !.text = @ \cup {b}, !.img = @ \cup {b}]]
        /\ run' = IF rest = {} THEN [run EXCEPT !.phase = "prefill", !.todo = LocalBranch]
                  ELSE [run EXCEPT !.todo = rest]
        /\ UNCHANGED <<sessions, free, states, dz>>

\* get_cross_kv_caches raises otherwise.
CrossReady(s) == Branch \subseteq kv[s].text \cap kv[s].img

\* The first forward of a window commits one frame, a later one a whole chunk.
FramesToCommit == IF dz[run.sess].csf = 0 THEN 1 ELSE NFrames

\* allocate_slots gives the blocks the window has left behind back first.
InWindow(s, b) == Min({kv[s].frames[b], Window})
FreeFor(s, b) == free + kv[s].blocks[b] - InWindow(s, b)
HasRoom(s, b) == FreeFor(s, b) >= FramesToCommit

\* The forward of one branch that writes its K/V: prepare_paged_context, whose
\* guard refuses an uncommitted chunk, then ensure_video_slots.
Prefill(b) ==
    LET s == run.sess
    IN  /\ run.phase = "prefill" /\ b = First(run.todo)
        /\ CrossReady(s) /\ b \notin kv[s].pending /\ HasRoom(s, b)
        /\ free' = FreeFor(s, b) - FramesToCommit
        /\ kv' = [kv EXCEPT ![s] = [kv[s] EXCEPT !.blocks[b] = InWindow(s, b) + FramesToCommit,
                                             !.pending = @ \cup {b}]]
        /\ run' = [run EXCEPT !.phase = "written"]
        /\ UNCHANGED <<sessions, cross, states, dz>>

\* commit_paged_context; after the last branch the first frame of a window
\* moves current_start_frame to 1.
Commit(b) ==
    LET s == run.sess
        rest == run.todo \ {b}
    IN  /\ run.phase = "written" /\ b = First(run.todo)
        /\ kv' = [kv EXCEPT ![s] = [kv[s] EXCEPT !.frames[b] = @ + FramesToCommit,
                                             !.pending = @ \ {b}]]
        /\ run' = [run EXCEPT !.phase = IF rest = {} THEN "dit" ELSE "prefill", !.todo = rest]
        /\ dz' = IF rest = {} /\ dz[s].csf = 0 THEN [dz EXCEPT ![s].csf = 1] ELSE dz
        /\ UNCHANGED <<sessions, free, cross, states>>

\* The DiT loop reads window and cross pool, on scratch blocks of its own.
Denoise ==
    /\ run.phase = "dit"
    /\ dz' = [dz EXCEPT ![run.sess].csf = @ + NFrames]
    /\ run' = Idle
    /\ UNCHANGED <<sessions, kv, free, cross, states>>

\* Mutant: only the model state is torn down.
Fail_KeepsKv ==
    /\ run.phase # "idle"
    /\ states' = RemoveFirst(states, run.sess)
    /\ dz' = [dz EXCEPT ![run.sess] = FreshModel]
    /\ run' = Idle
    /\ UNCHANGED <<sessions, kv, free, cross>>

\* Any exception of the forward, a refused read or an exhausted pool among
\* them: execute_model tears the session down on both sides.  An interrupted
\* _kv_populate_cross has written some layers.
Fail ==
    LET s == run.sess
        b == First(run.todo)
        torn == [cross EXCEPT ![b] = CrossWritten(b, Torn, Torn)]
    IN  /\ run.phase # "idle"
        /\ cross' \in IF run.phase = "populate" THEN {cross, torn} ELSE {cross}
        /\ sessions' = RemoveFirst(sessions, s)
        /\ Close({s})
        /\ states' = RemoveFirst(states, s)
        /\ dz' = [dz EXCEPT ![s] = FreshModel]
        /\ run' = Idle

Step ==
    \/ \E b \in Branch : Populate(b) \/ Prefill(b) \/ Commit(b)
    \/ Denoise
    \/ Fail

RolloutNext ==
    \/ \E s \in Session : Attach(s)
    \/ \E prompt \in Prompt, explicit \in BOOLEAN, clip \in Clip : Encode(prompt, explicit, clip)
    \/ Step

RolloutSpec == RolloutInit /\ [][RolloutNext]_rolloutVars

-----------------------------------------------------------------------------
Phase == {"idle", "attached", "populate", "prefill", "written", "dit"}
Carrier == [csf : Nat, lang : Prompt \cup {NoPrompt}, clip : Clip \cup {NoClip}]

\* Every variable keeps its shape.
RolloutTypeOK ==
    /\ sessions \in Seq(Session) /\ states \in Seq(Session)
    /\ Len(sessions) <= MaxSessions /\ Len(states) <= MaxSessions
    /\ kv \in [Session -> [frames : [Branch -> Nat], blocks : [Branch -> Nat], pending : SUBSET Branch,
                           text : SUBSET Branch, img : SUBSET Branch]]
    /\ free \in 0..(NumBlocks - 1)
    /\ cross \in [Branch -> [textBy : SUBSET Session, text : Prompt \cup {NegPrompt, Torn},
                             imgBy : SUBSET Session, img : Clip \cup {Torn}]]
    /\ dz \in [Session -> Carrier]
    /\ run \in [phase : Phase, sess : Session, carrier : Carrier, todo : SUBSET Branch]

\* The pool loses no block: what is not free is resident in a session the runner
\* still holds, over evictions, resets and forwards that die in between.
PoolAccounted ==
    /\ free + Cardinality(Resident(Session)) = NumBlocks - 1
    /\ Resident(Session \ Held(sessions)) = {}

\* Between forwards the KV state of a session never outlives its model state:
\* the two LRU maps are kept by two objects that evict at different moments.
PoolNeverOutlivesModel == run.phase = "idle" => Held(sessions) \subseteq Held(states)

\* No forward finds K/V of an earlier one written and not committed: the guard of
\* prepare_paged_context never fires, whatever died before.
NothingHalfWritten ==
    run.phase # "written" => \A s \in Session : kv[s].pending = {}

\* When the DiT loop reads, each branch holds exactly the frames before
\* current_start_frame, and with the current chunk they fit the window.
WindowAligned ==
    run.phase = "dit" => \A b \in LocalBranch :
        /\ kv[run.sess].frames[b] = dz[run.sess].csf
        /\ kv[run.sess].frames[b] + NFrames <= Window

\* The text a session was the last to write into the cross pool is that of its
\* present prompt when the DiT loop reads it.
OwnTextIsCurrent ==
    run.phase = "dit" => \A b \in Branch :
        run.sess \in cross[b].textBy => cross[b].text = TextOf(b)

\* What a session was the last to write into the cross pool is the text of its
\* present prompt and the image of its present window: no reset leaves a flag
\* set that should have made it write again.
OwnCrossIsCurrent ==
    /\ OwnTextIsCurrent
    /\ run.phase = "dit" => \A b \in Branch :
          run.sess \in cross[b].imgBy => cross[b].img = run.carrier.clip

\* The pool's floor is enough for one session: a forward that finds the pool
\* exhausted finds blocks in the hands of another session.
ExhaustedByOthers ==
    run.phase = "prefill" /\ ~HasRoom(run.sess, First(run.todo))
        => Resident(Session \ {run.sess}) # {}

\* get_cross_kv_caches: "this must never be reached unpopulated".
CrossReadAfterPopulate == run.phase = "prefill" => CrossReady(run.sess)

\* "the text K/V depend only on the session prompt" and are "populated once ...
\* then read every denoising step": what the DiT loop reads is the session's own.
CrossIsOwn ==
    run.phase = "dit" => \A b \in Branch :
        cross[b].text = TextOf(b) /\ cross[b].img = run.carrier.clip
=============================================================================
