------------------------------- MODULE Gateway -------------------------------
(***************************************************************************)
(* Whole gateways: HTTP forwarding and the management API, which share the *)
(* command bus, the network loop and the registry.                         *)
(*                                                                         *)
(* main starts two actix servers with threads of their own and gives both  *)
(* the same SharedHandler and the same State<ApronService>.  So each step  *)
(* is a step of one component that leaves the other's state alone, with    *)
(* three couplings: the mutex, slot and loop of the bus are one; forwarding*)
(* looks services up in the registry that the management API changes; and  *)
(* a loop that is busy for one component does not serve the other.  Users  *)
(* may leave; all other faults are left to the components.                 *)
(***************************************************************************)
EXTENDS CommandBus, Naturals

CONSTANTS
    Requests, Provider, Keys, FwdWorkers, Home, FwdWorkerOf, ServiceOf,
    OnChain,                            \* of HttpForward
    Ops, Info, MgmtWorkers, NoService, NoPeer, Preloaded, Market,
    Ordered                             \* of Registry

ASSUME HandlersAssumption == Handlers = Requests \cup Ops /\ Requests \cap Ops = {}
ASSUME PlacementAssumption ==
    /\ Provider \in Gateways
    /\ Home \in [Requests -> Gateways]
    /\ FwdWorkerOf \in [Requests -> FwdWorkers]
    /\ ServiceOf \in [Requests -> Keys]

VARIABLES
    fwd, sessions, delivering, wire, served, billed,
    mgmt, local, registry, gossip, published, seq, taken, applying, known, listed

httpVars == <<fwd, sessions, delivering, wire, served, billed>>
registryVars ==
    <<mgmt, local, registry, gossip, published, seq, taken, applying, known, listed>>
vars == <<busVars, httpVars, registryVars>>

Http == INSTANCE HttpForward WITH
    Services <- Keys, Workers <- FwdWorkers, WorkerOf <- FwdWorkerOf,
    Unparsable <- {}, Faults <- {"disconnect"}, pc <- fwd,
    Catalog <- {Info[o].key : o \in Preloaded},
    catalog <- [g \in Gateways |-> {k \in Keys : registry[g][k] # NoService}]

Mgmt == INSTANCE Registry WITH
    Workers <- MgmtWorkers, Faults <- {}, pc <- mgmt

ASSUME RegistryAssumption ==
    /\ Info \in [Ops -> Mgmt!InfoRecords]
    /\ NoService \notin Mgmt!ServiceRecords
    /\ NoPeer \notin Gateways
    /\ Preloaded \subseteq {o \in Ops : Info[o].kind = "put"}
    /\ \A o, p \in Preloaded : Info[o].key = Info[p].key => o = p
ASSUME ModeAssumption == {OnChain, Market, Ordered} \subseteq BOOLEAN

Init == Mgmt!Init /\ Http!Init

-----------------------------------------------------------------------------
(* Forwarding. *)

FwdArrives(r) == UNCHANGED registryVars /\ (Http!Refuse(r) \/ Http!Accept(r))
FwdDisconnect(r) == UNCHANGED registryVars /\ Http!Disconnect(r)
FwdStep(r) == UNCHANGED registryVars /\ Http!HandlerStep(r)

\* A loop that carries out a command of the management API or applies a gossip
\* message takes nothing else.
NotManaging(g) == taken[g] = NoCmd /\ applying[g] = NoHandler

FwdCommand(g) == UNCHANGED registryVars /\ NotManaging(g) /\ Http!TakeCommand(g)

\* get_http_provider of the entry that the provider has for r's service.
HasHttpProvider(r) ==
    LET entry == registry[Provider][ServiceOf[r]]
    IN  entry # NoService => entry.providers

FwdRequest(r) ==
    /\ UNCHANGED registryVars
    /\ NotManaging(Provider)
    /\ HasHttpProvider(r)
    /\ Http!HandleRequest(r)

\* send_http_request_blocking(.., None) is an error, which is unwrapped.
NoProviderPanics(r) ==
    /\ UNCHANGED registryVars
    /\ NotManaging(Provider)
    /\ ~HasHttpProvider(r)
    /\ Http!Arrived(Provider, Http!RequestMsg(r))
    /\ wire' = wire \ {Http!RequestMsg(r)}
    /\ Http!LoopDies(Provider)
    /\ UNCHANGED <<served, billed>>

FwdResponse(r) ==
    UNCHANGED registryVars /\ NotManaging(Home[r]) /\ Http!HandleResponse(r)

-----------------------------------------------------------------------------
(* Management. *)

MgmtArrives(o) ==
    UNCHANGED httpVars /\ (Mgmt!Read(o) \/ Mgmt!Remove(o) \/ Mgmt!RemoveNothing(o))
MgmtStep(o) == UNCHANGED httpVars /\ Mgmt!HandlerStep(o)

\* A loop that is handing a response over takes nothing else.
NotDelivering(g) == delivering[g] = NoHandler

MgmtCommand(g) == UNCHANGED httpVars /\ NotDelivering(g) /\ Mgmt!TakeCommand(g)
MgmtLookUp(m) == UNCHANGED httpVars /\ NotDelivering(m.to) /\ Mgmt!LookUp(m)
MgmtApply(g) == UNCHANGED httpVars /\ Mgmt!Apply(g)

-----------------------------------------------------------------------------

Next ==
    \/ \E r \in Requests : FwdArrives(r) \/ FwdDisconnect(r) \/ FwdStep(r)
    \/ \E r \in Requests : FwdRequest(r) \/ NoProviderPanics(r) \/ FwdResponse(r)
    \/ \E g \in Gateways : FwdCommand(g) \/ MgmtCommand(g) \/ MgmtApply(g)
    \/ \E o \in Ops : MgmtArrives(o) \/ MgmtStep(o)
    \/ \E m \in gossip : MgmtLookUp(m)

Spec == Init /\ [][Next]_vars

\* That of the components: executors poll what was woken, a loop takes what is
\* ready.
Fairness ==
    /\ \A r \in Requests :
          /\ WF_vars(FwdStep(r))
          /\ WF_vars(FwdRequest(r) \/ NoProviderPanics(r))
          /\ WF_vars(FwdResponse(r))
    /\ \A o \in Ops : WF_vars(MgmtStep(o))
    /\ \A g \in Gateways :
          WF_vars(FwdCommand(g)) /\ WF_vars(MgmtCommand(g)) /\ WF_vars(MgmtApply(g))
    /\ \A m \in Mgmt!Messages : WF_vars(m \in gossip /\ MgmtLookUp(m))

FairSpec == Spec /\ Fairness

-----------------------------------------------------------------------------
(* Properties. *)

\* With two servers on one mutex its guard still belongs to exactly the handler
\* between its lock() and its end, and the command in the slot is a command of
\* that handler or of one whose user left: no send() of a handler completes
\* because the command of another running handler was taken.
GuardsMatch ==
    /\ Http!GuardMatchesHandler /\ Mgmt!GuardMatchesHandler
    /\ \A g \in Gateways :
          \/ SlotFree(g) \/ lock[g] = cmd[g].by
          \/ \E r \in Requests : cmd[g].by = r /\ fwd[r] = "cancelled"

\* A user at g was gone when the response came: the expect of sender.send(resp).
UserLeft(g) ==
    \E r \in Requests : fwd[r] = "cancelled" /\ served[r] = 1 /\ Home[r] = g

\* The provider could not look up a service that it did not have, or not with a
\* provider: some call deleted the service, registered it without a provider,
\* or registered it at another gateway, whose gossip the request overtook.
LookUpFailed ==
    \E r \in Requests, o \in Ops :
        /\ fwd[r] \notin {"idle", "notFound"} /\ served[r] = 0
        /\ Info[o].key = ServiceOf[r] /\ mgmt[o] # "idle"
        /\ Info[o].kind = "delete" \/ ~Info[o].providers \/ Info[o].at # Provider

\* A loop dies only because the user of a request left before its response came,
\* because the provider's look-up of a service failed, or because a loop that
\* died of either takes it along: acknowledgements between a dead loop and
\* the provider's fail, and through the provider's loop those of all others.
LoopDeathExplained ==
    \A g \in Gateways :
        ~Alive(g) =>
            \E h \in Gateways :
                /\ ~Alive(h)
                /\ UserLeft(h) \/ (h = Provider /\ LookUpFailed)
                /\ g # h => ~Alive(Provider)

\* A handler of either server panics only at a dead loop or at a gateway where
\* a service without a provider was posted: that POST poisons the mutex for
\* both servers although the loop runs.
PanicExplained ==
    \A g \in Gateways :
        /\ Alive(g)
        /\ \/ \E r \in Requests : Home[r] = g /\ fwd[r] = "panicked"
           \/ \E o \in Ops : Info[o].at = g /\ mgmt[o] = "panicked"
        => \E o \in Ops : /\ Info[o].at = g /\ mgmt[o] = "panicked"
                          /\ local[o] # NoService /\ ~local[o].providers

\* The bus of g can be used.
BusWorks(g) == Alive(g) /\ ~poisoned[g]

Undisturbed ==
    [](\A g \in Gateways :
          BusWorks(g) /\ ~Http!Stuck(g) /\ ~Mgmt!WorkerSelfBlock(g))

\* A change of the registry reaches every gateway although its handler shares
\* the bus with requests that hold the mutex for a round trip; it fails to only
\* where a forwarding handler is stuck, a loop is dead or the mutex poisoned.
ChangeSpreads ==
    Undisturbed =>
        \A o \in Ops :
            mgmt[o] = "locking" ~>
                /\ mgmt[o] = "done"
                /\ Mgmt!Announced(o)
                /\ \A m \in gossip : m.by # o
                /\ \A g \in Gateways : applying[g] # o

\* Likewise a request is answered although handlers of the management API and
\* gossip compete with it.
RequestAnswered ==
    Undisturbed =>
        \A r \in Requests : fwd[r] = "locking" ~> fwd[r] \in {"answered", "cancelled"}
=============================================================================
