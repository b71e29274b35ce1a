\* One request and three changes of its service, the user may leave.
SPECIFICATION FairHistorySpec
CONSTANTS
    gc = gc
    gp = gp
    r1 = r1
    p1 = p1
    p2 = p2
    d1 = d1
    k1 = k1
    wf = wf
    wa = wa
    wb = wb
    Gateways = {gc, gp}
    Handlers = {r1, p1, p2, d1}
    NoHandler = NoHandler
    Requests = {r1}
    Provider = gp
    Keys = {k1}
    FwdWorkers = {wf}
    Home <- MCHome
    FwdWorkerOf <- MCWorkerOf
    ServiceOf <- MCServiceOf
    OnChain = TRUE
    Ops = {p1, p2, d1}
    Info <- MCInfo
    MgmtWorkers = {wa, wb}
    NoService = NoService
    NoPeer = NoPeer
    Preloaded = {}
    Market = TRUE
    Ordered = FALSE
INVARIANTS
    GuardsMatch
    LoopDeathExplained
    PanicExplained
    ConvergedIfSerial
PROPERTIES
    ChangeSpreads
    RequestAnswered
CHECK_DEADLOCK FALSE
