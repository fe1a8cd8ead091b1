SPECIFICATION RpcSpec
CHECK_DEADLOCK FALSE
CONSTANTS
    c1 = c1
    c2 = c2
    e1 = e1
    e2 = e2
    None = None
    Call = {c1, c2}
    Exec = {e1, e2}
    Timed = {c1}
INVARIANTS
    LoopSurvives
