SPECIFICATION EngineSafety
CONSTANTS
    r1 = r1
    r2 = r2
    r3 = r3
    kA = kA
    kB = kB
    NoKey = NoKey
    Request = {r1, r2}
    SamplingKey = {kA, kB}
    KeyOf <- MCKeyOf
    MaxRunning = 1
    StepExecution = FALSE
    TotalSteps = 1
    RequestBatch = FALSE
INVARIANT FinishedIsDelivered
