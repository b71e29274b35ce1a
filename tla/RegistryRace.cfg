\* A service is deleted and registered again at the same gateway.
SPECIFICATION Spec
CONSTANTS
    ga = ga
    gb = gb
    p1 = p1
    p2 = p2
    d1 = d1
    k1 = k1
    wa = wa
    wb = wb
    wc = wc
    Gateways = {ga, gb}
    Handlers = {p1, p2, d1}
    NoHandler = NoHandler
    Ops = {p1, p2, d1}
    Info <- MCInfoRace
    Keys = {k1}
    Workers = {wa, wb, wc}
    NoService = NoService
    NoPeer = NoPeer
    Preloaded = {p1}
    Market = TRUE
    Ordered = TRUE
    Faults = {}
INVARIANTS
    QueryableEverywhere
CHECK_DEADLOCK FALSE
