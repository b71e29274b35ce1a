\* Sessions of two client gateways, no faults.
SPECIFICATION Spec
CONSTANTS
    ga = ga
    gb = gb
    gp = gp
    sa = sa
    sb = sb
    wa = wa
    wb = wb
    NoHandler = NoHandler
    NoPeer = NoPeer
    Gateways = {ga, gb, gp}
    Handlers = {sa, sb}
    Sessions = {sa, sb}
    Provider = gp
    Workers = {wa, wb}
    ClientOf <- MCTwoClients
    WorkerOf <- MCTwoWorkers
    Offered = {sa, sb}
    Binary = {}
    Limit <- MCLimitOne
    MaxFrames = 1
    OnChain = TRUE
    Ordered = TRUE
    Faults = {}
INVARIANTS
    SessionLocated
CHECK_DEADLOCK FALSE
