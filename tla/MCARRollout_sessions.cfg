SPECIFICATION RolloutSpec
CONSTANTS
    s0 = s0
    s1 = s1
    s2 = s2
    Session = {s0, s1, s2}
    DefaultSession = s0
    Prompt = {p1, p2}
    NoPrompt = NoPrompt
    Clip = {c1, c2}
    NoClip = NoClip
    NegPrompt = NegPrompt
    Torn = Torn
    Branch = {"pos", "neg"}
    LocalBranch = {"pos", "neg"}
    NFrames = 2
    Chunks = 4
    NumBlocks = 24
    MaxSessions = 2
SYMMETRY Alike
INVARIANTS
    PoolAccounted
    PoolNeverOutlivesModel
    NothingHalfWritten
    WindowAligned
    OwnCrossIsCurrent
    ExhaustedByOthers
