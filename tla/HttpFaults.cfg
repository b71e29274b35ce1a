\* Two requests of the client gateway, one of the provider, an unparsable one; every fault.
SPECIFICATION Spec
CONSTANTS
    gc = gc
    gp = gp
    r1 = r1
    r2 = r2
    r3 = r3
    r4 = r4
    w1 = w1
    w2 = w2
    wp = wp
    s1 = s1
    Gateways = {gc, gp}
    Handlers = {r1, r2, r3, r4}
    NoHandler = NoHandler
    Requests = {r1, r2, r3, r4}
    Provider = gp
    Services = {s1}
    Workers = {w1, w2, wp}
    Home <- MCHome
    WorkerOf <- MCOwnWorkers
    ServiceOf <- MCServiceOf
    Unparsable = {r4}
    Catalog = {s1}
    OnChain = TRUE
    Faults = {"loss", "disconnect", "provider", "contract", "ack", "withdraw"}
INVARIANTS
    TypeOK
    GuardMatchesHandler
    LoopWaitsForHolder
    ServedAtMostOnce
    AnsweredIsServedAndBilled
    ResponseHasSession
    IInv
PROPERTIES
    ImplementsContract
CHECK_DEADLOCK FALSE
