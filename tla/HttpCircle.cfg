\* One request, no faults: the response may overtake the SubmitUsage command.
SPECIFICATION FairSpec
CONSTANTS
    gc = gc
    gp = gp
    r1 = r1
    r2 = r2
    r3 = r3
    r4 = r4
    w1 = w1
    w2 = w2
    wp = wp
    s1 = s1
    Gateways = {gc, gp}
    Handlers = {r1}
    NoHandler = NoHandler
    Requests = {r1}
    Provider = gp
    Services = {s1}
    Workers = {w1, w2, wp}
    Home <- MCHomeClients
    WorkerOf <- MCSharedWorker
    ServiceOf <- MCServiceOf
    Unparsable = {}
    Catalog = {s1}
    OnChain = TRUE
    Faults = {}
PROPERTY EveryRequestAnswered
CHECK_DEADLOCK FALSE
