----------------------------- MODULE HttpForward -----------------------------
(***************************************************************************)
(* Forwarding of HTTP requests between gateways.                           *)
(*                                                                         *)
(* A user calls /v1/<key>/<path> on some gateway.  An actix handler there  *)
(* (forward_http_proxy_request) registers a response channel, takes the    *)
(* mutex of the command bus and, holding it until the answer is there,     *)
(* sends SendRequest and SubmitUsage to the network loop.  The loop sends  *)
(* the request to the provider gateway (schema 0), whose loop calls the    *)
(* service and sends the response back (schema 3); the first loop hands it *)
(* to the handler and waits until the handler has taken it.                *)
(***************************************************************************)
EXTENDS CommandBus, Naturals

CONSTANTS
    Requests,   \* the HTTP requests, named by their request_id
    Provider,   \* the gateway with the hard-coded peer id of seed 1
    Services,   \* service ids
    Workers,    \* actix worker threads
    Home,       \* Home[r]: the gateway r arrives at
    WorkerOf,   \* WorkerOf[r]: the worker thread that runs r's handler
    ServiceOf,  \* ServiceOf[r]: the service r asks for
    Unparsable, \* requests on which parse_request panics
    Catalog,    \* the services every gateway knows at the start
    OnChain,    \* TRUE when stat_contract_addr is set
    Faults      \* what the environment may do, a subset of FaultKinds

FaultKinds == {"loss", "disconnect", "provider", "contract", "ack", "withdraw"}

ASSUME RequestsAssumption == Requests \subseteq Handlers /\ Unparsable \subseteq Requests
ASSUME ProviderAssumption == Provider \in Gateways
ASSUME PlacementAssumption ==
    /\ Home \in [Requests -> Gateways]
    /\ WorkerOf \in [Requests -> Workers]
    /\ ServiceOf \in [Requests -> Services]
ASSUME CatalogAssumption == Catalog \subseteq Services
ASSUME ModeAssumption == OnChain \in BOOLEAN /\ Faults \subseteq FaultKinds

VARIABLES
    pc,         \* pc[r]: where r's handler is
    sessions,   \* sessions[g]: keys of request_id_client_session_mapping
    delivering, \* delivering[g]: request whose response g's loop waits to hand over
    wire,       \* data exchange messages between gateways, unordered
    catalog,    \* catalog[g]: the service state of g
    served,     \* served[r]: calls of the service made for r
    billed      \* billed[r]: successful submit_usage calls for r

vars == <<lock, poisoned, cmd, net, pc, sessions, delivering, wire, catalog,
          served, billed>>

Holding == {"sendRequest", "flushRequest", "flushUsage", "awaiting"}
Listening == {"locking"} \cup Holding   \* resp_receiver exists
Done == {"answered", "notFound", "rejected", "cancelled", "panicked"}
PcStates == {"idle"} \cup Listening \cup Done

SendRequestCmd(r) == [kind |-> "SendRequest", by |-> r]
SubmitUsageCmd(r) == [kind |-> "SubmitUsage", by |-> r]
Commands == [kind : {"SendRequest", "SubmitUsage"}, by : Requests]

\* Schema 0 goes from Home[req] to Provider, schema 3 from Provider to Home[req].
RequestMsg(r) == [schema |-> 0, req |-> r]
\* Mutated: the HTTP response is sent with the schema of websocket data.
ResponseMsgAsWsData(r) == [schema |-> 2, req |-> r]
ResponseMsg(r) == [schema |-> 3, req |-> r]
Messages == [schema : {0, 3}, req : Requests]

Init ==
    /\ BusInit
    /\ pc = [r \in Requests |-> "idle"]
    /\ sessions = [g \in Gateways |-> {}]
    /\ delivering = [g \in Gateways |-> NoHandler]
    /\ wire = {}
    /\ catalog = [g \in Gateways |-> Catalog]
    /\ served = [r \in Requests |-> 0]
    /\ billed = [r \in Requests |-> 0]

-----------------------------------------------------------------------------
(* The handler forward_http_proxy_request. *)

Goto(r, label) == pc' = [pc EXCEPT ![r] = label]

\* command_sender.lock() is a blocking call: a handler in it stops its thread,
\* and with it every other handler future of that worker.
WorkerFree(r) ==
    \A q \in Requests \ {r} : WorkerOf[q] = WorkerOf[r] => pc[q] # "locking"

Arriving(r) == pc[r] = "idle" /\ WorkerFree(r)

\* A key shorter than a service id, a version that is no number or a header
\* that is no text panics before anything is locked or registered; actix ends
\* the connection and the worker goes on.
ParsePanics(r) ==
    /\ Arriving(r)
    /\ r \in Unparsable
    /\ Goto(r, "rejected")
    /\ UNCHANGED <<busVars, sessions, delivering, wire, catalog, served, billed>>

Refuse(r) ==
    /\ Arriving(r)
    /\ r \notin Unparsable
    /\ ServiceOf[r] \notin catalog[Home[r]]
    /\ Goto(r, "notFound")
    /\ UNCHANGED <<busVars, sessions, delivering, wire, catalog, served, billed>>

\* Mutated: the session is not registered before the request is sent.
AcceptUnregistered(r) ==
    /\ Arriving(r)
    /\ r \notin Unparsable
    /\ ServiceOf[r] \in catalog[Home[r]]
    /\ Goto(r, "locking")
    /\ UNCHANGED <<busVars, sessions, delivering, wire, catalog, served, billed>>

Accept(r) ==
    /\ Arriving(r)
    /\ r \notin Unparsable
    /\ ServiceOf[r] \in catalog[Home[r]]
    /\ sessions' = [sessions EXCEPT ![Home[r]] = @ \cup {r}]
    /\ Goto(r, "locking")
    /\ UNCHANGED <<busVars, delivering, wire, catalog, served, billed>>

AcquireLock(r) ==
    /\ pc[r] = "locking"
    /\ Acquire(Home[r], r)
    /\ Goto(r, "sendRequest")
    /\ UNCHANGED <<poisoned, cmd, net, sessions, delivering, wire, catalog,
                   served, billed>>

LockPanics(r) ==
    /\ pc[r] = "locking"
    /\ AcquireFails(Home[r])
    /\ Goto(r, "panicked")
    /\ UNCHANGED <<busVars, sessions, delivering, wire, catalog, served, billed>>

PushRequest(r) ==
    /\ pc[r] = "sendRequest"
    /\ WorkerFree(r)
    /\ Push(Home[r], SendRequestCmd(r))
    /\ Goto(r, "flushRequest")
    /\ UNCHANGED <<lock, poisoned, net, sessions, delivering, wire, catalog,
                   served, billed>>

\* Mutated: the second command is a copy of the first.
PushRequestAgain(r) ==
    /\ pc[r] = "flushRequest"
    /\ WorkerFree(r)
    /\ Push(Home[r], SendRequestCmd(r))
    /\ Goto(r, "flushUsage")
    /\ UNCHANGED <<lock, poisoned, net, sessions, delivering, wire, catalog,
                   served, billed>>

\* The first send completes when the loop has popped it; the handler runs on
\* to the second send without giving up its thread.
PushUsage(r) ==
    /\ pc[r] = "flushRequest"
    /\ WorkerFree(r)
    /\ Push(Home[r], SubmitUsageCmd(r))
    /\ Goto(r, "flushUsage")
    /\ UNCHANGED <<lock, poisoned, net, sessions, delivering, wire, catalog,
                   served, billed>>

\* Mutated: try_send, which fails as well while the slot is taken.
TryPushPanics(r) ==
    /\ pc[r] \in {"sendRequest", "flushRequest"}
    /\ WorkerFree(r)
    /\ ~Alive(Home[r]) \/ ~SlotFree(Home[r])
    /\ PanicWithGuard(Home[r])
    /\ Goto(r, "panicked")
    /\ UNCHANGED <<cmd, net, sessions, delivering, wire, catalog, served, billed>>

\* send().await.unwrap() when the Receiver is gone.
PushPanics(r) ==
    /\ pc[r] \in {"sendRequest", "flushRequest"}
    /\ WorkerFree(r)
    /\ ~Alive(Home[r])
    /\ PanicWithGuard(Home[r])
    /\ Goto(r, "panicked")
    /\ UNCHANGED <<cmd, net, sessions, delivering, wire, catalog, served, billed>>

\* Mutated: the usage is sent without waiting for the loop to take it.
FlushUsageEarly(r) ==
    /\ pc[r] = "flushUsage"
    /\ WorkerFree(r)
    /\ Goto(r, "awaiting")
    /\ UNCHANGED <<busVars, sessions, delivering, wire, catalog, served, billed>>

FlushUsage(r) ==
    /\ pc[r] = "flushUsage"
    /\ WorkerFree(r)
    /\ SlotFree(Home[r])
    /\ Goto(r, "awaiting")
    /\ UNCHANGED <<busVars, sessions, delivering, wire, catalog, served, billed>>

ReceiveResponse(r) ==
    /\ pc[r] = "awaiting"
    /\ WorkerFree(r)
    /\ delivering[Home[r]] = r
    /\ delivering' = [delivering EXCEPT ![Home[r]] = NoHandler]
    /\ Release(Home[r])
    /\ Goto(r, "answered")
    /\ UNCHANGED <<poisoned, cmd, net, sessions, wire, catalog, served, billed>>

\* Mutated: the dropped Receiver does not wake the loop.
DisconnectUnnoticed(r) ==
    /\ "disconnect" \in Faults
    /\ pc[r] \in Holding
    /\ WorkerFree(r)
    /\ Release(Home[r])
    /\ Goto(r, "cancelled")
    /\ UNCHANGED <<poisoned, cmd, net, sessions, delivering, wire, catalog,
                   served, billed>>

\* The user's connection breaks and actix drops the handler future at an
\* await: the guard is released unpoisoned, the Receiver closed, a loop that
\* waits for the handover is woken.
Disconnect(r) ==
    /\ "disconnect" \in Faults
    /\ pc[r] \in Holding
    /\ WorkerFree(r)
    /\ delivering' = [delivering EXCEPT ![Home[r]] = IF @ = r THEN NoHandler ELSE @]
    /\ Release(Home[r])
    /\ Goto(r, "cancelled")
    /\ UNCHANGED <<poisoned, cmd, net, sessions, wire, catalog, served, billed>>

-----------------------------------------------------------------------------
(* The task network_event_loop. *)

\* The loop handles one command or event at a time, to its end.
LoopIdle(g) == Alive(g) /\ delivering[g] = NoHandler

LoopDies(g) ==
    /\ LoopPanics(g)
    /\ UNCHANGED <<lock, poisoned, pc, sessions, delivering, catalog>>

Outgoing(g, m) == IF g = Provider THEN {} ELSE {m}   \* no peer dials itself

TakeSendRequest(g) ==
    /\ LoopIdle(g)
    /\ Pop(g)
    /\ cmd[g].kind = "SendRequest"
    /\ wire' = wire \cup Outgoing(g, RequestMsg(cmd[g].by))
    /\ UNCHANGED <<lock, poisoned, net, pc, sessions, delivering, catalog,
                   served, billed>>

TakeSubmitUsage(g) ==
    /\ LoopIdle(g)
    /\ Pop(g)
    /\ cmd[g].kind = "SubmitUsage"
    /\ billed' = IF OnChain THEN [billed EXCEPT ![cmd[g].by] = @ + 1] ELSE billed
    /\ UNCHANGED <<lock, poisoned, net, pc, sessions, delivering, wire, catalog,
                   served>>

\* assert!(result.is_ok()) in contract::submit_usage; the transaction may have gone
\* through although its result was not seen.
ContractPanics(g) ==
    /\ "contract" \in Faults
    /\ OnChain
    /\ LoopIdle(g)
    /\ cmd[g].kind = "SubmitUsage"
    /\ LoopDies(g)
    /\ billed' \in {billed, [billed EXCEPT ![cmd[g].by] = @ + 1]}
    /\ UNCHANGED <<wire, served>>

Arrived(g, m) == LoopIdle(g) /\ m \in wire

\* send_response fails, and is unwrapped, when the peer that sent the message
\* is gone or its request has timed out meanwhile.
AckFails(peer) == "ack" \in Faults \/ ~Alive(peer)

ServeHttp(r) ==
    /\ Arrived(Provider, RequestMsg(r))
    /\ ServiceOf[r] \in catalog[Provider]
    /\ served' = [served EXCEPT ![r] = @ + 1]
    /\ wire' = (wire \ {RequestMsg(r)}) \cup {ResponseMsg(r)}
    /\ UNCHANGED <<busVars, pc, sessions, delivering, catalog, billed>>

\* get(service_data, service_id).unwrap()
LookupPanics(r) ==
    /\ Arrived(Provider, RequestMsg(r))
    /\ ServiceOf[r] \notin catalog[Provider]
    /\ wire' = wire \ {RequestMsg(r)}
    /\ LoopDies(Provider)
    /\ UNCHANGED <<served, billed>>

\* send_http_request_blocking(..).unwrap(), before or after the call was made,
\* or the unwrap of send_response after it.
ServePanics(r) ==
    /\ Arrived(Provider, RequestMsg(r))
    /\ ServiceOf[r] \in catalog[Provider]
    /\ \/ "provider" \in Faults /\ UNCHANGED served
       \/ /\ "provider" \in Faults \/ AckFails(Home[r])
          /\ served' = [served EXCEPT ![r] = @ + 1]
    /\ wire' = wire \ {RequestMsg(r)}
    /\ LoopDies(Provider)
    /\ UNCHANGED billed

Deliver(r) ==
    /\ Arrived(Home[r], ResponseMsg(r))
    /\ r \in sessions[Home[r]]
    /\ pc[r] \in Listening
    /\ delivering' = [delivering EXCEPT ![Home[r]] = r]
    /\ wire' = wire \ {ResponseMsg(r)}
    /\ UNCHANGED <<busVars, pc, sessions, catalog, served, billed>>

\* In the order of the code: the unwrap of send_response, of the lookup of the
\* session, and the expect of sender.send(resp).
DeliverPanics(r) ==
    /\ Arrived(Home[r], ResponseMsg(r))
    /\ \/ AckFails(Provider)
       \/ r \notin sessions[Home[r]]
       \/ pc[r] \notin Listening
    /\ wire' = wire \ {ResponseMsg(r)}
    /\ LoopDies(Home[r])
    /\ UNCHANGED <<served, billed>>

-----------------------------------------------------------------------------
(* The environment. *)

\* OutboundFailure is matched and ignored: nobody sends the message again.
Lose(m) ==
    /\ "loss" \in Faults
    /\ wire' = wire \ {m}
    /\ UNCHANGED <<busVars, pc, sessions, delivering, catalog, served, billed>>

\* A service is deleted at g, by its management API or by a gossip message.
Withdraw(g, s) ==
    /\ "withdraw" \in Faults
    /\ s \in catalog[g]
    /\ catalog' = [catalog EXCEPT ![g] = @ \ {s}]
    /\ UNCHANGED <<busVars, pc, sessions, delivering, wire, served, billed>>

-----------------------------------------------------------------------------

HandlerStep(r) ==
    \/ AcquireLock(r) \/ LockPanics(r)
    \/ PushRequest(r) \/ PushUsage(r) \/ PushPanics(r)
    \/ FlushUsage(r) \/ ReceiveResponse(r)

TakeCommand(g) == TakeSendRequest(g) \/ TakeSubmitUsage(g) \/ ContractPanics(g)
HandleRequest(r) == ServeHttp(r) \/ LookupPanics(r) \/ ServePanics(r)
HandleResponse(r) == Deliver(r) \/ DeliverPanics(r)

Next ==
    \/ \E r \in Requests : ParsePanics(r) \/ Refuse(r) \/ Accept(r) \/ Disconnect(r)
    \/ \E r \in Requests : HandlerStep(r)
    \/ \E g \in Gateways : TakeCommand(g)
    \/ \E r \in Requests : HandleRequest(r) \/ HandleResponse(r)
    \/ \E m \in wire : Lose(m)
    \/ \E g \in Gateways, s \in Services : Withdraw(g, s)

Spec == Init /\ [][Next]_vars

\* The executors poll a future that was woken and the loop takes what is
\* ready; whether users come, leave or lose packets is not assumed.
Fairness ==
    /\ \A r \in Requests : WF_vars(HandlerStep(r))
    /\ \A g \in Gateways : WF_vars(TakeCommand(g))
    /\ \A r \in Requests : WF_vars(HandleRequest(r)) /\ WF_vars(HandleResponse(r))

FairSpec == Spec /\ Fairness

-----------------------------------------------------------------------------
(* Properties. *)

\* The values the variables range over.
TypeOK ==
    /\ lock \in [Gateways -> Handlers \cup {NoHandler}]
    /\ poisoned \in [Gateways -> BOOLEAN]
    /\ cmd \in [Gateways -> Commands \cup {NoCmd}]
    /\ net \in [Gateways -> {"running", "dead"}]
    /\ pc \in [Requests -> PcStates]
    /\ sessions \in [Gateways -> SUBSET Requests]
    /\ delivering \in [Gateways -> Requests \cup {NoHandler}]
    /\ wire \subseteq Messages
    /\ catalog \in [Gateways -> SUBSET Services]
    /\ served \in [Requests -> Nat]
    /\ billed \in [Requests -> Nat]

\* The guard of command_sender belongs to exactly the handler that is between
\* its lock() and its end: it is lost on no path (answer, panic, dropped
\* future), so a gateway runs one forwarded request at a time.
GuardMatchesHandler ==
    \A r \in Requests : pc[r] \in Holding <=> lock[Home[r]] = r

\* The loop waits, in sender.send(resp).await, only for the handler that holds
\* the mutex: a user who leaves wakes it, and while it waits nobody else can
\* give it a command.
LoopWaitsForHolder ==
    \A g \in Gateways : delivering[g] # NoHandler => lock[g] = delivering[g]

\* A request reaches the service once at most, whatever is lost, dropped or
\* restarted around it.
ServedAtMostOnce == \A r \in Requests : served[r] <= 1

\* A user who got an answer was charged for exactly one call, and one call was
\* made: no path overtakes the SubmitUsage command.
AnsweredIsServedAndBilled ==
    \A r \in Requests :
        pc[r] = "answered" =>
            served[r] = 1 /\ billed[r] = (IF OnChain THEN 1 ELSE 0)

\* A response on its way finds the session it belongs to: the unwrap of the
\* lookup in request_id_client_session_mapping cannot fail, although the entry
\* was made in another thread before two channels and a round trip.
ResponseHasSession ==
    \A r \in Requests : ResponseMsg(r) \in wire => r \in sessions[Home[r]]

\* Forwarding poisons the mutex of the command bus only when the network loop
\* is gone already: as long as the loop runs, management calls can still lock.
PoisonedOnlyWhenDead == \A g \in Gateways : poisoned[g] => ~Alive(g)

\* With no fault of the environment no unwrap or expect of the loops fails.
LoopSurvives == \A g \in Gateways : Alive(g)

\* The inductive invariant behind the properties above.
Charge == IF OnChain THEN 1 ELSE 0
Unsent == {"idle", "rejected", "notFound", "locking", "sendRequest"}

\* Who uses the bus: the mutex and the slot serve requests of this gateway
\* only, and a dead loop has an empty slot.
BusOwned ==
    \A g \in Gateways :
        /\ lock[g] # NoHandler => lock[g] \in Requests /\ Home[lock[g]] = g
        /\ ~SlotFree(g) => Alive(g) /\ Home[cmd[g].by] = g
        /\ delivering[g] # NoHandler => Alive(g)

\* Where a request is: not sent, in the slot, on the wire, served and on its
\* way back, or being handed over; never in two of these places.
OnePlace ==
    \A r \in Requests :
        /\ pc[r] \in Unsent =>
              /\ served[r] = 0 /\ billed[r] = 0
              /\ SlotFree(Home[r]) \/ cmd[Home[r]].by # r
              /\ RequestMsg(r) \notin wire /\ ResponseMsg(r) \notin wire
        /\ cmd[Home[r]] = SendRequestCmd(r) =>
              /\ pc[r] \in {"flushRequest", "cancelled"}
              /\ served[r] = 0 /\ billed[r] = 0
              /\ RequestMsg(r) \notin wire /\ ResponseMsg(r) \notin wire
        /\ RequestMsg(r) \in wire => served[r] = 0 /\ ResponseMsg(r) \notin wire
        /\ ResponseMsg(r) \in wire => served[r] = 1
        /\ delivering[Home[r]] = r =>
              /\ served[r] = 1
              /\ ResponseMsg(r) \notin wire

\* How far the charge has come.
Charged ==
    \A r \in Requests :
        /\ billed[r] \in {0, Charge}
        /\ pc[r] = "flushRequest" => billed[r] = 0
        /\ cmd[Home[r]] = SubmitUsageCmd(r) =>
              pc[r] \in {"flushUsage", "cancelled"} /\ billed[r] = 0
        /\ pc[r] = "flushUsage" /\ Alive(Home[r]) =>
              cmd[Home[r]] = SubmitUsageCmd(r) \/ billed[r] = Charge
        /\ pc[r] = "awaiting" /\ Alive(Home[r]) => billed[r] = Charge

Registered ==
    \A r \in Requests :
        pc[r] \notin {"idle", "rejected", "notFound"} => r \in sessions[Home[r]]

\* How a request ended, and by whose fault.
Ended ==
    \A r \in Requests :
        /\ pc[r] = "answered" => ResponseMsg(r) \notin wire
        /\ pc[r] = "cancelled" => "disconnect" \in Faults
        /\ pc[r] = "panicked" => ~Alive(Home[r])

\* Without faults nothing is withdrawn and no loop dies.
Quiet ==
    Faults = {} =>
        /\ \A g \in Gateways : Alive(g) /\ catalog[g] = Catalog
        /\ \A r \in Requests :
              pc[r] \notin {"idle", "rejected", "notFound"} => ServiceOf[r] \in Catalog

IInv ==
    /\ TypeOK
    /\ BusOwned
    /\ GuardMatchesHandler
    /\ LoopWaitsForHolder
    /\ OnePlace
    /\ Charged
    /\ Registered
    /\ ServedAtMostOnce
    /\ AnsweredIsServedAndBilled
    /\ PoisonedOnlyWhenDead
    /\ Ended
    /\ Quiet

\* What a user sees of a request.
StatusOf(label) ==
    CASE label = "idle" -> "new"
      [] label \in {"rejected", "notFound"} -> "refused"
      [] label = "answered" -> "answered"
      [] label \in {"cancelled", "panicked"} -> "abandoned"
      [] label \in Listening -> "accepted"

Contract ==
    INSTANCE ProxyContract WITH
        status <- [r \in Requests |-> StatusOf(pc[r])],
        Metered <- OnChain

\* Forwarding keeps the promises of ProxyContract.
ImplementsContract == Contract!Spec

\* The loop waits for a handler that waits for the loop: the response came
\* before the loop had popped the handler's SubmitUsage.
CircularWait(g) ==
    \E r \in Requests :
        delivering[g] = r /\ pc[r] = "flushUsage" /\ ~SlotFree(g)

\* A handler past its lock() whose thread is blocked in another's lock().
WorkerSelfBlock(g) ==
    \E r \in Requests : Home[r] = g /\ pc[r] \in Holding /\ ~WorkerFree(r)

\* A request that enters at the provider itself is sent to nobody.
SelfProxy(g) ==
    \E r \in Requests : Home[r] = g /\ pc[r] \in Holding /\ g = Provider

Stuck(g) == CircularWait(g) \/ WorkerSelfBlock(g) \/ SelfProxy(g)

\* The three ways of getting stuck are all there are: without faults, every
\* accepted request of a gateway that is never stuck is answered.
AnsweredUnlessStuck ==
    \A r \in Requests :
        []~Stuck(Home[r]) =>
            (pc[r] = "locking" ~> pc[r] = "answered")

\* README.md: the request goes User-->Client node-->Bootstrap node-->Service
\* Provider and the response comes back the same way to the user.
EveryRequestAnswered ==
    \A r \in Requests : pc[r] = "locking" ~> pc[r] = "answered"

\* expect("Event receiver not to be dropped.") where the loop hands over the
\* response: the handler's receiver is still there.
EventReceiverNotDropped ==
    \A r \in Requests :
        Arrived(Home[r], ResponseMsg(r)) => pc[r] \in Listening
=============================================================================
