\* Four exchanges between two clients and a provider, every fault.
SPECIFICATION FairHistorySpec
CONSTANTS
    ga = ga
    gb = gb
    gp = gp
    request = request
    response = response
    connect = connect
    data = data
    NoExchange = NoExchange
    NoPeer = NoPeer
    Gateways = {ga, gb, gp}
    Exchanges = {request, response, connect, data}
    From <- MCFrom
    To <- MCTo
    Schema <- MCSchema
    Size <- MCSize
    MaxSize <- MCMaxSize
    Reply <- MCReply
    Bootstrap <- MCBootstrap
    Faults = {"close", "timeout", "crash"}
INVARIANTS
    TypeOK
    AckedWasTaken
    FailureExplained
    LostForGood
PROPERTIES
    ImplementsWire
    ExchangeEnds
CHECK_DEADLOCK FALSE
