SPECIFICATION OrchSpec
CHECK_DEADLOCK FALSE
CONSTANTS
    par = par
    comp = comp
    repA = repA
    repB = repB
    repD = repD
    None = None
    Req = {par, comp}
    Parent = {par}
    Companion = {comp}
    Owner <- OwnerIsP
    Replica0 = {repA, repB}
    D = repD
    MayVanish = {}
    MayDie = {}
    MayAbort = {}
    Distributed = TRUE
PROPERTY
    ShutdownEnds
