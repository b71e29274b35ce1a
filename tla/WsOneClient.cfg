\* Two sessions of one client gateway on one worker; users and services come and go.
SPECIFICATION FairSpec
CONSTANTS
    ga = ga
    gb = gb
    gp = gp
    sa = sa
    sb = sb
    wa = wa
    wb = wb
    NoHandler = NoHandler
    NoPeer = NoPeer
    Gateways = {ga, gp}
    Handlers = {sa, sb}
    Sessions = {sa, sb}
    Provider = gp
    Workers = {wa, wb}
    ClientOf <- MCOneClient
    WorkerOf <- MCOneWorker
    Offered = {sa, sb}
    Binary = {2}
    Limit <- MCLimits
    MaxFrames = 2
    OnChain = TRUE
    Ordered = TRUE
    Faults = {"leave", "end"}
INVARIANTS
    LoopsSurvive
PROPERTIES
    UpInOrder
    DownInOrder
    FramesArrive
CHECK_DEADLOCK FALSE
