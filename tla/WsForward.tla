----------------------------- MODULE WsForward -----------------------------
(***************************************************************************)
(* Forwarding of websockets between gateways.                              *)
(*                                                                         *)
(* On the client gateway a ClientSideWsActor and a task that receives      *)
(* responses run on one actix worker thread.  The actor puts the usage,    *)
(* the connection request and every frame of the user on the command bus,  *)
(* with block_on, which stops the thread.  On the provider the network     *)
(* loop passes connection requests (schema 0) and frames (schema 1) to the *)
(* loop of main over a second channel; that loop connects to the service   *)
(* and, for every frame a ServiceSideWsActor got from the service, puts a  *)
(* command on the bus through a Sender of its own.  The frame travels back *)
(* (schema 2) to the receiving task and to the user.                       *)
(***************************************************************************)
EXTENDS CommandBus, SequencesExt

CONSTANTS
    Sessions,   \* websocket sessions, named by their request_id
    Provider,   \* the gateway with the hard-coded peer id of seed 1
    Workers,    \* actix worker threads
    ClientOf,   \* ClientOf[s]: the gateway where the user of s connects
    WorkerOf,   \* WorkerOf[s]: the worker thread of s there
    Offered,    \* sessions whose service the provider knows, with a ws url
    Binary,     \* frames of a service that are not UTF-8 text
    Limit,      \* Limit[s]: bound on the frames of s in one direction
    MaxFrames,  \* the largest of these bounds
    OnChain,    \* TRUE when stat_contract_addr is set
    Ordered,    \* TRUE when messages between two gateways arrive in order
    NoPeer,     \* None of remote_peer_id2
    Faults      \* what the environment may do, a subset of FaultKinds

FaultKinds == {"loss", "leave", "end", "refuse", "contract", "ack"}

Frames == 1..MaxFrames

ASSUME SessionsAssumption == Sessions \subseteq Handlers /\ Offered \subseteq Sessions
ASSUME ProviderAssumption == Provider \in Gateways
ASSUME PlacementAssumption ==
    /\ ClientOf \in [Sessions -> Gateways \ {Provider}]
    /\ WorkerOf \in [Sessions -> Workers]
ASSUME FramesAssumption ==
    /\ MaxFrames \in Nat /\ Limit \in [Sessions -> 0..MaxFrames]
    /\ Binary \subseteq Frames
ASSUME ModeAssumption ==
    OnChain \in BOOLEAN /\ Ordered \in BOOLEAN /\ Faults \subseteq FaultKinds

VARIABLES
    pc,         \* pc[s]: where the ClientSideWsActor of s is
    up,         \* up[s]: frames the user of s has sent
    billed,     \* billed[s]: successful submit_usage calls for s
    wire,       \* wire[g]: data exchange messages on their way to g
    waiting,    \* waiting[g]: what g's loop awaits, see Waits
    event,      \* the message in the slot of the Provider's event_sender
    main,       \* the loop of main at the Provider, see MainStates
    peer,       \* its variable remote_peer_id2
    addresses,  \* sessions in req_id_ws_addr_mapping
    ended,      \* sessions whose service closed or broke the connection
    frames,     \* its channel of frames from the services
    mainCmd,    \* the message in the slot of its own command_sender
    got,        \* got[s]: the frames of the user the service of s has got
    down,       \* down[s]: frames the service of s has sent
    shown       \* shown[s]: the frames of the service the user of s has got

clientVars == <<pc, up, billed, shown>>
mainVars == <<main, peer, addresses, ended, frames, got, down>>
vars == <<busVars, clientVars, wire, waiting, event, mainVars, mainCmd>>

Holding == {"pushUsage", "flushUsage", "flushRequest", "pushFrame", "flushFrame"}
Blocking == {"locking", "frameLocking"} \cup Holding
PcStates == {"idle", "open", "closed", "crashed"} \cup Blocking

UsageCmd(s) == [kind |-> "SubmitUsage", by |-> s]
RequestCmd(s) == [kind |-> "SendRequest", by |-> s]
FrameCmd(s, n) == [kind |-> "SendProxyData", by |-> s, n |-> n]
Commands ==
    [kind : {"SubmitUsage", "SendRequest"}, by : Sessions]
        \cup [kind : {"SendProxyData"}, by : Sessions, n : Frames]

\* SendProxyDataFromService
MainCommands == [by : Sessions, n : Frames, to : Gateways]
NoMainCmd == [by |-> NoHandler, n |-> 0, to |-> NoPeer]

\* Schema 0 is the connection request, 1 a frame of the user, 2 of the service.
Msg(schema, s, n) == [schema |-> schema, by |-> s, n |-> n]
Messages ==
    [schema : {0}, by : Sessions, n : {0}] \cup [schema : {1, 2}, by : Sessions, n : Frames]
Sender(m) == IF m.schema = 2 THEN Provider ELSE ClientOf[m.by]

\* ProxyRequestToMainLoop and ProxyDataFromClient
Connect(s) == [kind |-> "connect", by |-> s, n |-> 0]
Data(s, n) == [kind |-> "data", by |-> s, n |-> n]
NoEvent == [kind |-> "none", by |-> NoHandler, n |-> 0]
Events ==
    [kind : {"connect"}, by : Sessions, n : {0}] \cup [kind : {"data"}, by : Sessions, n : Frames]

\* What a loop awaits: "event", that main takes an event, with the session
\* whose connection request it acknowledges afterwards; "session", that the
\* receiving task of a session takes frame n.
Waits ==
    [at : {"idle"}, by : {NoHandler}, n : {0}]
        \cup [at : {"event"}, by : Sessions \cup {NoHandler}, n : {0}]
        \cup [at : {"session"}, by : Sessions, n : Frames]
Idle == [at |-> "idle", by |-> NoHandler, n |-> 0]
EventOf(s) == [at |-> "event", by |-> s, n |-> 0]
SessionTakes(s, n) == [at |-> "session", by |-> s, n |-> n]

MainStates == [at : {"select", "connecting", "sending", "dead"},
               by : Sessions \cup {NoHandler}]
Select == [at |-> "select", by |-> NoHandler]
MainAlive == main.at # "dead"

Init ==
    /\ BusInit
    /\ pc = [s \in Sessions |-> "idle"]
    /\ up = [s \in Sessions |-> 0]
    /\ billed = [s \in Sessions |-> 0]
    /\ wire = [g \in Gateways |-> <<>>]
    /\ waiting = [g \in Gateways |-> Idle]
    /\ event = NoEvent
    /\ main = Select
    /\ peer = NoPeer
    /\ addresses = {}
    /\ ended = {}
    /\ frames = <<>>
    /\ mainCmd = NoMainCmd
    /\ got = [s \in Sessions |-> <<>>]
    /\ down = [s \in Sessions |-> 0]
    /\ shown = [s \in Sessions |-> <<>>]

-----------------------------------------------------------------------------
(* forward_ws_proxy_request and the ClientSideWsActor. *)

Goto(s, label) == pc' = [pc EXCEPT ![s] = label]

\* lock() and block_on stop the thread with everything that runs on it.
WorkerFree(s) ==
    \A t \in Sessions \ {s} : WorkerOf[t] = WorkerOf[s] => pc[t] \notin Blocking

\* What a step of the actor leaves alone.
peerVars == <<billed, shown, wire, waiting, event, mainVars, mainCmd>>

\* The session is registered and the actor starts.
Open(s) ==
    /\ pc[s] = "idle"
    /\ WorkerFree(s)
    /\ Goto(s, "locking")
    /\ UNCHANGED <<busVars, up, peerVars>>

Frame(s) ==
    /\ pc[s] = "open"
    /\ WorkerFree(s)
    /\ up[s] < Limit[s]
    /\ up' = [up EXCEPT ![s] = @ + 1]
    /\ Goto(s, "frameLocking")
    /\ UNCHANGED <<busVars, peerVars>>

Lock(s) ==
    /\ pc[s] \in {"locking", "frameLocking"}
    /\ Acquire(ClientOf[s], s)
    /\ Goto(s, IF pc[s] = "locking" THEN "pushUsage" ELSE "pushFrame")
    /\ UNCHANGED <<poisoned, cmd, net, up, peerVars>>

LockPanics(s) ==
    /\ pc[s] \in {"locking", "frameLocking"}
    /\ AcquireFails(ClientOf[s])
    /\ Goto(s, "crashed")
    /\ UNCHANGED <<busVars, up, peerVars>>

PushesTo(s, from, c, to) ==
    /\ pc[s] = from
    /\ Push(ClientOf[s], c)
    /\ Goto(s, to)
    /\ UNCHANGED <<lock, poisoned, net, up, peerVars>>

\* Mutated: the connection request before the usage.
StartReversed(s) ==
    \/ PushesTo(s, "pushUsage", RequestCmd(s), "flushUsage")
    \/ PushesTo(s, "flushUsage", UsageCmd(s), "flushRequest")

\* started(): the usage, then the connection request.
Start(s) ==
    \/ PushesTo(s, "pushUsage", UsageCmd(s), "flushUsage")
    \/ PushesTo(s, "flushUsage", RequestCmd(s), "flushRequest")

PushFrame(s) == PushesTo(s, "pushFrame", FrameCmd(s, up[s]), "flushFrame")

\* block_on(send).unwrap() when the Receiver is gone.
PushPanics(s) ==
    /\ pc[s] \in {"pushUsage", "flushUsage", "pushFrame"}
    /\ ~Alive(ClientOf[s])
    /\ PanicWithGuard(ClientOf[s])
    /\ Goto(s, "crashed")
    /\ UNCHANGED <<cmd, net, up, peerVars>>

Unlock(s) ==
    /\ pc[s] \in {"flushRequest", "flushFrame"}
    /\ SlotFree(ClientOf[s])
    /\ Release(ClientOf[s])
    /\ Goto(s, "open")
    /\ UNCHANGED <<poisoned, cmd, net, up, peerVars>>

\* Mutated: the session is forgotten as soon as its user leaves.
LeaveForgotten(s) ==
    /\ "leave" \in Faults
    /\ pc[s] = "open"
    /\ WorkerFree(s)
    /\ Goto(s, "idle")
    /\ UNCHANGED <<busVars, up, peerVars>>

\* The user closes or breaks the websocket; nobody tells the provider.
Leave(s) ==
    /\ "leave" \in Faults
    /\ pc[s] = "open"
    /\ WorkerFree(s)
    /\ Goto(s, "closed")
    /\ UNCHANGED <<busVars, up, peerVars>>

\* The receiving task passes the frame to the actor, which panics when it is not
\* UTF-8; without an actor the frame is dropped.
Receive(s) ==
    LET g == ClientOf[s]
        n == waiting[g].n
    IN  /\ waiting[g] = SessionTakes(s, n)
        /\ pc[s] \notin Blocking
        /\ WorkerFree(s)
        /\ waiting' = [waiting EXCEPT ![g] = Idle]
        /\ pc' = IF pc[s] = "open" /\ n \in Binary THEN [pc EXCEPT ![s] = "crashed"] ELSE pc
        /\ shown' = IF pc[s] = "open" /\ n \notin Binary
                    THEN [shown EXCEPT ![s] = Append(@, n)]
                    ELSE shown
        /\ UNCHANGED <<busVars, up, billed, wire, event, mainVars, mainCmd>>

-----------------------------------------------------------------------------
(* The task network_event_loop. *)

LoopIdle(g) == Alive(g) /\ waiting[g] = Idle

LoopDies(g) ==
    /\ LoopPanics(g)
    /\ waiting' = [waiting EXCEPT ![g] = Idle]
    /\ mainCmd' = IF g = Provider THEN NoMainCmd ELSE mainCmd
    /\ UNCHANGED <<lock, poisoned, pc, up, shown, event, mainVars>>

TakeUsage(g) ==
    /\ LoopIdle(g)
    /\ Pop(g)
    /\ cmd[g].kind = "SubmitUsage"
    /\ billed' = IF OnChain THEN [billed EXCEPT ![cmd[g].by] = @ + 1] ELSE billed
    /\ UNCHANGED <<lock, poisoned, net, pc, up, shown, wire, waiting, event,
                   mainVars, mainCmd>>

\* The transaction may have gone through although its result was not seen.
ContractPanics(g) ==
    /\ "contract" \in Faults
    /\ OnChain
    /\ LoopIdle(g)
    /\ cmd[g].kind = "SubmitUsage"
    /\ LoopDies(g)
    /\ billed' \in {billed, [billed EXCEPT ![cmd[g].by] = @ + 1]}
    /\ UNCHANGED wire

Send(to, m) == wire' = [wire EXCEPT ![to] = Append(@, m)]

TakeFromActor(g) ==
    /\ LoopIdle(g)
    /\ Pop(g)
    /\ \/ /\ cmd[g].kind = "SendRequest"
          /\ Send(Provider, Msg(0, cmd[g].by, 0))
       \/ /\ cmd[g].kind = "SendProxyData"
          /\ Send(Provider, Msg(1, cmd[g].by, cmd[g].n))
    /\ UNCHANGED <<lock, poisoned, net, clientVars, waiting, event, mainVars, mainCmd>>

\* Mutated: the frame is sent with the schema of HTTP responses.
TakeFromMainAsHttp ==
    /\ LoopIdle(Provider)
    /\ mainCmd # NoMainCmd
    /\ mainCmd' = NoMainCmd
    /\ Send(mainCmd.to, Msg(3, mainCmd.by, mainCmd.n))
    /\ UNCHANGED <<busVars, clientVars, waiting, event, mainVars>>

TakeFromMain ==
    /\ LoopIdle(Provider)
    /\ mainCmd # NoMainCmd
    /\ mainCmd' = NoMainCmd
    /\ Send(mainCmd.to, Msg(2, mainCmd.by, mainCmd.n))
    /\ UNCHANGED <<busVars, clientVars, waiting, event, mainVars>>

InOrder(g, i) ==
    Ordered => \A j \in 1..(i - 1) : Sender(wire[g][j]) # Sender(wire[g][i])

\* The loop of g takes message i of those on their way.
Takes(g, i, schema) ==
    /\ LoopIdle(g)
    /\ wire[g][i].schema = schema
    /\ InOrder(g, i)
    /\ wire' = [wire EXCEPT ![g] = RemoveAt(@, i)]

\* send_response fails, and is unwrapped, when the peer is gone or has timed out.
AckFails(g) == "ack" \in Faults \/ ~Alive(g)

HandleConnect(i) ==
    LET s == wire[Provider][i].by
    IN  /\ Takes(Provider, i, 0)
        /\ s \in Offered
        /\ MainAlive
        /\ event' = Connect(s)
        /\ waiting' = [waiting EXCEPT ![Provider] = EventOf(s)]
        /\ UNCHANGED <<busVars, clientVars, mainVars, mainCmd>>

\* The unwraps of the service and its url, and the expect of event_sender.
ConnectPanics(i) ==
    /\ Takes(Provider, i, 0)
    /\ wire[Provider][i].by \notin Offered \/ ~MainAlive
    /\ LoopDies(Provider)
    /\ UNCHANGED billed

HandleFrame(i) ==
    LET m == wire[Provider][i]
    IN  /\ Takes(Provider, i, 1)
        /\ MainAlive
        /\ event' = Data(m.by, m.n)
        /\ waiting' = [waiting EXCEPT ![Provider] = EventOf(NoHandler)]
        /\ UNCHANGED <<busVars, clientVars, mainVars, mainCmd>>

FramePanics(i) ==
    /\ Takes(Provider, i, 1)
    /\ AckFails(ClientOf[wire[Provider][i].by]) \/ ~MainAlive
    /\ LoopDies(Provider)
    /\ UNCHANGED billed

\* The flush of event_sender; a connection request is acknowledged now.
EventTaken ==
    /\ Alive(Provider)
    /\ waiting[Provider].at = "event"
    /\ event = NoEvent
    /\ waiting' = [waiting EXCEPT ![Provider] = Idle]
    /\ UNCHANGED <<busVars, clientVars, wire, event, mainVars, mainCmd>>

ConnectAckPanics ==
    /\ Alive(Provider)
    /\ waiting[Provider].at = "event"
    /\ event = NoEvent
    /\ waiting[Provider].by # NoHandler
    /\ AckFails(ClientOf[waiting[Provider].by])
    /\ LoopDies(Provider)
    /\ UNCHANGED <<wire, billed>>

\* s is a key of g's request_id_client_session_mapping; it stays one.
Registered(g, s) == ClientOf[s] = g /\ pc[s] # "idle"

Deliver(g, i) ==
    LET m == wire[g][i]
    IN  /\ Takes(g, i, 2)
        /\ Registered(g, m.by)
        /\ waiting' = [waiting EXCEPT ![g] = SessionTakes(m.by, m.n)]
        /\ UNCHANGED <<busVars, clientVars, event, mainVars, mainCmd>>

DeliverPanics(g, i) ==
    /\ Takes(g, i, 2)
    /\ AckFails(Provider) \/ ~Registered(g, wire[g][i].by)
    /\ LoopDies(g)
    /\ UNCHANGED billed

-----------------------------------------------------------------------------
(* The loop of main at the provider, and the ServiceSideWsActors. *)

MainTakesConnect ==
    /\ main = Select
    /\ event.kind = "connect"
    /\ event' = NoEvent
    /\ peer' = ClientOf[event.by]
    /\ main' = [at |-> "connecting", by |-> event.by]
    /\ UNCHANGED <<busVars, clientVars, ended, wire, waiting, addresses, frames, got, down,
                   mainCmd>>

Connected ==
    /\ main.at = "connecting"
    /\ addresses' = addresses \cup {main.by}
    /\ main' = Select
    /\ UNCHANGED <<busVars, clientVars, ended, wire, waiting, event, peer, frames, got, down,
                   mainCmd>>

MainDies ==
    /\ main' = [at |-> "dead", by |-> NoHandler]
    /\ event' = NoEvent
    /\ addresses' = {}
    /\ frames' = <<>>
    /\ UNCHANGED <<busVars, clientVars, ended, wire, waiting, peer, got, down, mainCmd>>

\* connect().await.unwrap()
ConnectRefused ==
    /\ "refuse" \in Faults
    /\ main.at = "connecting"
    /\ MainDies

\* Mutated: the event is looked at and not taken.
MainTakesFrameAgain ==
    /\ main = Select
    /\ event.kind = "data"
    /\ event.by \in addresses
    /\ got' = [got EXCEPT ![event.by] = Append(@, event.n)]
    /\ UNCHANGED <<busVars, clientVars, ended, wire, waiting, event, main, peer, addresses,
                   frames, down, mainCmd>>

\* do_send: to an actor that has stopped the frame is dropped.
MainTakesFrame ==
    /\ main = Select
    /\ event.kind = "data"
    /\ event.by \in addresses
    /\ event' = NoEvent
    /\ got' = IF event.by \in ended THEN got ELSE [got EXCEPT ![event.by] = Append(@, event.n)]
    /\ UNCHANGED <<busVars, clientVars, ended, wire, waiting, main, peer, addresses, frames,
                   down, mainCmd>>

\* req_id_ws_addr_mapping.get(..).unwrap()
AddressPanics ==
    /\ main = Select
    /\ event.kind = "data"
    /\ event.by \notin addresses
    /\ MainDies

\* Mutated: the frame stays in the channel.
MainForwardsAgain ==
    /\ main = Select
    /\ frames # <<>>
    /\ Alive(Provider)
    /\ mainCmd' = [by |-> Head(frames).by, n |-> Head(frames).n, to |-> peer]
    /\ main' = [at |-> "sending", by |-> Head(frames).by]
    /\ UNCHANGED <<busVars, clientVars, ended, wire, waiting, event, peer, addresses, frames,
                   got, down>>

MainForwards ==
    /\ main = Select
    /\ frames # <<>>
    /\ Alive(Provider)
    /\ frames' = Tail(frames)
    /\ mainCmd' = [by |-> Head(frames).by, n |-> Head(frames).n, to |-> peer]
    /\ main' = [at |-> "sending", by |-> Head(frames).by]
    /\ UNCHANGED <<busVars, clientVars, ended, wire, waiting, event, peer, addresses, got, down>>

MainForwarded ==
    /\ main.at = "sending"
    /\ mainCmd = NoMainCmd
    /\ main' = Select
    /\ UNCHANGED <<busVars, clientVars, ended, wire, waiting, event, peer, addresses, frames,
                   got, down, mainCmd>>

\* command_sender.send(..).await.unwrap() without a network loop.
ForwardPanics ==
    /\ main = Select
    /\ frames # <<>>
    /\ ~Alive(Provider)
    /\ MainDies

\* try_send of a sender with one slot: the frame is dropped when the session's
\* frame before it has not been taken.
ServiceFrame(s) ==
    /\ s \in addresses \ ended
    /\ down[s] < Limit[s]
    /\ down' = [down EXCEPT ![s] = @ + 1]
    /\ frames' = IF \E i \in DOMAIN frames : frames[i].by = s
                 THEN frames
                 ELSE Append(frames, [by |-> s, n |-> down'[s]])
    /\ UNCHANGED <<busVars, clientVars, ended, wire, waiting, event, main, peer, addresses, got,
                   mainCmd>>

\* The stream of the service ends and stops its actor; a close frame is ignored,
\* nobody is told and the address stays in the map.
End(s) ==
    /\ "end" \in Faults
    /\ s \in addresses \ ended
    /\ ended' = ended \cup {s}
    /\ UNCHANGED <<busVars, clientVars, wire, waiting, event, main, peer, addresses,
                   frames, got, down, mainCmd>>

\* OutboundFailure is ignored.
Lose(g, i) ==
    /\ "loss" \in Faults
    /\ wire' = [wire EXCEPT ![g] = RemoveAt(@, i)]
    /\ UNCHANGED <<busVars, clientVars, waiting, event, mainVars, mainCmd>>

-----------------------------------------------------------------------------

ActorStep(s) ==
    \/ Lock(s) \/ LockPanics(s) \/ Start(s) \/ PushFrame(s) \/ PushPanics(s)
    \/ Unlock(s) \/ Receive(s)

TakeCommand(g) == TakeUsage(g) \/ ContractPanics(g) \/ TakeFromActor(g)

HandleMessage(g, i) ==
    \/ /\ g = Provider
       /\ HandleConnect(i) \/ ConnectPanics(i) \/ HandleFrame(i) \/ FramePanics(i)
    \/ Deliver(g, i) \/ DeliverPanics(g, i)

ProviderLoop == TakeFromMain \/ EventTaken \/ ConnectAckPanics

MainStep ==
    \/ MainTakesConnect \/ Connected \/ ConnectRefused
    \/ MainTakesFrame \/ AddressPanics
    \/ MainForwards \/ MainForwarded \/ ForwardPanics

Next ==
    \/ \E s \in Sessions : Open(s) \/ Frame(s) \/ Leave(s) \/ ServiceFrame(s) \/ End(s)
    \/ \E s \in Sessions : ActorStep(s)
    \/ \E g \in Gateways : TakeCommand(g)
    \/ \E g \in Gateways : \E i \in DOMAIN wire[g] : HandleMessage(g, i) \/ Lose(g, i)
    \/ ProviderLoop
    \/ MainStep

Spec == Init /\ [][Next]_vars

\* Threads, loops and tasks run when they can; what has arrived is handled.
Fairness ==
    /\ \A s \in Sessions : WF_vars(ActorStep(s))
    /\ \A g \in Gateways :
          /\ WF_vars(TakeCommand(g))
          /\ WF_vars(\E i \in DOMAIN wire[g] : HandleMessage(g, i))
    /\ WF_vars(ProviderLoop)
    /\ WF_vars(MainStep)

FairSpec == Spec /\ Fairness

-----------------------------------------------------------------------------
(* Properties. *)

\* The values the variables range over.
TypeOK ==
    /\ lock \in [Gateways -> Handlers \cup {NoHandler}]
    /\ poisoned \in [Gateways -> BOOLEAN]
    /\ cmd \in [Gateways -> Commands \cup {NoCmd}]
    /\ net \in [Gateways -> {"running", "dead"}]
    /\ pc \in [Sessions -> PcStates]
    /\ up \in [Sessions -> 0..MaxFrames]
    /\ billed \in [Sessions -> Nat]
    /\ wire \in [Gateways -> Seq(Messages)]
    /\ waiting \in [Gateways -> Waits]
    /\ event \in Events \cup {NoEvent}
    /\ main \in MainStates
    /\ peer \in Gateways \cup {NoPeer}
    /\ addresses \subseteq Sessions
    /\ ended \subseteq Sessions
    /\ frames \in Seq([by : Sessions, n : Frames])
    /\ mainCmd \in MainCommands \cup {NoMainCmd}
    /\ got \in [Sessions -> Seq(Frames)]
    /\ down \in [Sessions -> 0..MaxFrames]
    /\ shown \in [Sessions -> Seq(Frames)]

\* The guard of command_sender belongs to exactly the actor that is inside
\* started() or handle(), on every way out of them.
GuardMatchesActor ==
    \A s \in Sessions : pc[s] \in Holding <=> lock[ClientOf[s]] = s

\* The service is reached only by sessions that were charged, once: a usage
\* that could not be submitted stops the connection request behind it.
ChargedBeforeConnected ==
    \A s \in Sessions :
        s \in addresses \/ got[s] # <<>> => billed[s] = (IF OnChain THEN 1 ELSE 0)

\* No frame comes out twice, in any order of the messages.
NoFrameTwice ==
    \A s \in Sessions :
        /\ \A i, j \in DOMAIN got[s] : i # j => got[s][i] # got[s][j]
        /\ \A i, j \in DOMAIN shown[s] : i # j => shown[s][i] # shown[s][j]

\* While users and services come and go, text or not, neither the network loops
\* nor the loop of main fail: frames find their connection and responses their receiver.
LoopsSurvive == MainAlive /\ \A g \in Gateways : Alive(g)

UpPipe == INSTANCE LossyPipe WITH put <- up, out <- got
DownPipe == INSTANCE LossyPipe WITH put <- down, out <- shown

\* Frames of the user reach the service in order and once.
UpInOrder == UpPipe!Spec

\* Frames of the service reach the user in order and once.
DownInOrder == DownPipe!Spec

\* The loop waits for the receiving task of a session whose thread waits for
\* the loop.
ClientStuck ==
    \E s, t \in Sessions :
        /\ waiting[ClientOf[s]].at = "session" /\ waiting[ClientOf[s]].by = s
        /\ WorkerOf[t] = WorkerOf[s] /\ pc[t] \in Blocking
        /\ ~SlotFree(ClientOf[s])

\* The loop waits for main to take an event, main for the loop to take a frame.
ProviderStuck ==
    /\ waiting[Provider].at = "event" /\ event # NoEvent
    /\ main.at = "sending" /\ mainCmd # NoMainCmd

\* These two are the only ways to get stuck: otherwise every frame that a user
\* sends reaches the service, unless that has ended the connection, and every
\* session is connected.
FramesArrive ==
    [](~ClientStuck /\ ~ProviderStuck) =>
        \A s \in Sessions :
            /\ pc[s] = "locking" ~> s \in addresses
            /\ \A n \in Frames :
                  up[s] = n ~> s \in ended \/ n \in {got[s][i] : i \in DOMAIN got[s]}

\* fwd_handlers.rs: the mapping of request_id and response sender is used to
\* locate the correct client session while getting a response.
SessionLocated ==
    \A g \in Gateways : \A i \in DOMAIN wire[g] :
        wire[g][i].schema = 2 => Registered(g, wire[g][i].by)
=============================================================================
