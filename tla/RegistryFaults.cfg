\* Every fault, unordered gossip.
SPECIFICATION Spec
CONSTANTS
    ga = ga
    gb = gb
    p1 = p1
    p2 = p2
    d1 = d1
    k1 = k1
    wa = wa
    wb = wb
    wc = wc
    Gateways = {ga, gb}
    Handlers = {p1, p2, d1}
    NoHandler = NoHandler
    Ops = {p1, p2, d1}
    Info <- MCInfoFaults
    Keys = {k1}
    Workers = {wa, wb, wc}
    NoService = NoService
    NoPeer = NoPeer
    Preloaded = {}
    Market = TRUE
    Ordered = FALSE
    Faults = {"loss", "disconnect", "nopeers", "contract"}
INVARIANTS
    TypeOK
    DoneIsAnnounced
    OwnerRegistered
    ListedIsPublished
CHECK_DEADLOCK FALSE
