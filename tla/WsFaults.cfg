\* Every fault, messages in any order, two workers, one unknown service.
SPECIFICATION Spec
CONSTANTS
    ga = ga
    gb = gb
    gp = gp
    sa = sa
    sb = sb
    wa = wa
    wb = wb
    NoHandler = NoHandler
    NoPeer = NoPeer
    Gateways = {ga, gp}
    Handlers = {sa, sb}
    Sessions = {sa, sb}
    Provider = gp
    Workers = {wa, wb}
    ClientOf <- MCOneClient
    WorkerOf <- MCTwoWorkers
    Offered = {sa}
    Binary = {}
    Limit <- MCLimitsBoth
    MaxFrames = 2
    OnChain = TRUE
    Ordered = FALSE
    Faults = {"loss", "leave", "end", "refuse", "contract", "ack"}
INVARIANTS
    TypeOK
    GuardMatchesActor
    ChargedBeforeConnected
    NoFrameTwice
CHECK_DEADLOCK FALSE
