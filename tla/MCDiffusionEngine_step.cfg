SPECIFICATION EngineSpec
CONSTANTS
    r1 = r1
    r2 = r2
    r3 = r3
    kA = kA
    kB = kB
    NoKey = NoKey
    Request = {r1, r2}
    SamplingKey = {kA, kB}
    KeyOf <- MCKeyOf
    MaxRunning = 2
    StepExecution = TRUE
    TotalSteps = 2
    RequestBatch = FALSE
INVARIANTS
    LoopNeverCrashes
    PendingHasOneOwner
    AnsweredIsForgotten
    CloseIsComplete
PROPERTIES
    UsesScheduler
    CallersAreAnswered
    BatchAbortIsReleased
    CloseAnswersEveryone
