SPECIFICATION OrchSpec
CHECK_DEADLOCK FALSE
CONSTANTS
    par = par
    comp = comp
    repA = repA
    repB = repB
    repD = repD
    None = None
    Req = {par, comp}
    Parent = {par}
    Companion = {comp}
    Owner <- OwnerIsP
    Replica0 = {repA, repB}
    D = repD
    MayVanish = {repA, repB, repD}
    MayDie = {repB}
    MayAbort = {par}
    Distributed = TRUE
INVARIANTS
    AnsweredOnce
    BindingsAccounted
    DeferredIsAwaited
    TrackedIsServed
PROPERTIES
    ForwardBundles
    RequestsAreAnswered
