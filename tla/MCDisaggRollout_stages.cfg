SPECIFICATION DisaggSpec
CONSTANTS
    s0 = s0
    s1 = s1
    Session = {s0, s1}
    DefaultSession = s0
    Prompt = {p1, p2}
    NoPrompt = NoPrompt
    Clip = {c1}
    NoClip = NoClip
    NegPrompt = NegPrompt
    Torn = Torn
    Branch = {"pos", "neg"}
    LocalBranch = {"pos"}
    NFrames = 2
    Chunks = 1
    NumBlocks = 7
    MaxSessions = 1
    MaxRequests = 5
SYMMETRY Alike
CHECK_DEADLOCK FALSE
INVARIANTS
    TextStaleOnlyAfterLoss
    CrossReadAfterPopulate
