SPECIFICATION RunnerSpec
CONSTANTS
    r1 = r1
    r2 = r2
    r3 = r3
    kA = kA
    kB = kB
    NoKey = NoKey
    Request = {r1, r2, r3}
    SamplingKey = {kA, kB}
    KeyOf <- MCKeyOf
    MaxRunning = 2
    StepExecution = TRUE
    TotalSteps = 2
    StartAt <- MCStartAt
INVARIANTS
    RunnerTypeOK
    QueuesMatchStates
    CacheAccounted
    NothingRefused
    StepsAgree
PROPERTIES
    RunsScheduler
    TerminalIsFinal
    NoOvertaking
    EveryRequestEnds
