# Apron gateway: a TLA+ verification project

An Apron gateway lets users reach services that are registered at other
gateways. This directory holds TLA+ modules of the gateway's concurrent core,
TLC configurations that check them on small instances, and proofs of the main
results that TLAPS checks for every value of the constants.

Source paths below are relative to the Rust sources (`src/src/` from the
repository root that contains `src/`).

## 1. The system

A gateway is one process. Several threads and tasks share its state:

| Part | Runs in | State it keeps | Operations |
|---|---|---|---|
| HTTP forwarding (`fwd_handlers.rs`) | actix worker threads, many handler futures per thread | local `resp_receiver`; entry in `request_id_client_session_mapping` | `forward_http_proxy_request` |
| Websocket forwarding (`fwd_handlers.rs`, `forward_service_actors.rs`, `main.rs`) | actix workers, actors, a loop spawned by `main` | session mapping, `req_id_ws_addr_mapping`, `remote_peer_id2` | `forward_ws_proxy_request`, `ClientSideWsActor`, `ServiceSideWsActor`, the `select!` of `main` |
| Management API (`service.rs`, `routes.rs`) | actix worker threads | the registry, a `State<ApronService>` | `new_update_service`, `delete_service`, listings |
| Command bus (`main.rs`, `SharedHandler`) | shared | `Mutex<mpsc::Sender<Command>>`, `mpsc::channel(0)` | `lock`, `send`, `next` |
| Network loop (`network.rs`) | one async-std task | the swarm; reads and writes registry and session mapping | commands, gossip, data exchange messages (schemas 0 to 3) |
| Contract client (`contract.rs`) | inside the network loop | the chain (external) | `add_service`, `submit_usage` |
| Data exchange (`network.rs`) | libp2p's connection tasks, the network loop | connections, addresses of peers (kademlia), exchanges under way | `DataExchangeCodec`, connection events, acknowledgements, timeouts |
| Service records (`service.rs`) | whoever holds a copy | `ApronService` with its providers | `update`, `get_provider`, `apronservice_to_args` |
| State map (`state.rs`) | shared | `Mutex<HashMap>` | `get`, `set`, `delete`, `all`, `values` |

How they interact. Handlers never touch the network: they put a `Command` into
the bus and the network loop takes it. The loop treats one command or event at a
time, to its end, awaits inside a command or event included. A forwarded
request crosses two gateways: user, client gateway's handler, its loop, the
provider's loop (which calls the service itself, blocking), the client
gateway's loop again, the handler's own response channel. Registrations change
the local registry and are published by gossip to all other gateways.

What is hard, and what makes each part correct:

- **Bus.** A blocking mutex is locked inside async handlers and held over
  awaits, for a whole round trip in HTTP forwarding. The guard must come back
  on every way out; a panic poisons the mutex; a channel with one slot couples
  both sides. Correct: the guard belongs to the running handler, the loop waits
  for nobody else, poisoning has a known cause.
- **HTTP forwarding.** Two commands per request with an await between them;
  users who leave; messages that are lost; loops that panic. Correct: a request
  is served at most once, charged at most once, answered only when both
  happened, and answered if nothing goes wrong.
- **Registry.** Read, write and announcement are separate steps; the loop frees
  the channel before it has carried a command out; gossip is unordered and best
  effort and is applied unconditionally. Correct: success is reported only for
  changes that are announced or in the loop's hand, entries are attributed to gateways that
  registered them, registries agree at rest.
- **Websockets.** Two more loops, a second sender into the bus, frames dropped
  by `try_send`, one `remote_peer_id2` for all sessions. Correct: frames of a
  session reach that session, in order; no loops wait for each other.
- **Data exchange.** Exchanges outlive connections; both sides have timeouts of
  their own; the loop unwraps acknowledgements; the codec's reader refuses what
  its writer writes; addresses are forgotten. Correct: a message is taken at most
  once, an acknowledgement means what the sender believes, every exchange ends.
- **Service records.** Optional fields and provider lists merged over many calls.
  Correct: nothing is lost or erased by a call that does not mention it, and what
  is unwrapped later is there.
- **The whole gateway.** Two HTTP servers share one mutex, one loop and one
  registry. Correct: each fails or waits on account of the other only in known
  ways.

The hazards are listed with their lines in `PROJECT.json`. Those without a property
happen in the models and are not claimed away: the races of the registry
(`service.rs:203`, `network.rs:222`, `223`), which `ConvergedIfSerial` excludes;
websocket data that overtakes its connection request (`main.rs:231`); the two
circles of waits that `FramesArrive` excludes by name; a main loop that ends with a
refused connection (`forward_service_utils.rs:157`).

## 2. Plan

Modules in the order they are written; those marked * exist.

1. `CommandBus` * : mutex, slot and loop of every gateway, as actions' building
   blocks. Every component module EXTENDS it.
2. `ProxyContract` * : abstract specification of HTTP forwarding, seen by a user.
3. `HttpForward` * : HTTP forwarding over the bus; implements `ProxyContract`.
   `MCHttpForward` * instances, `HttpForward_proofs` * proofs.
4. `Registry` *, `MCRegistry` * : management API and gossip.
5. `LossyPipe` * : abstract specification of one direction of a websocket session.
   `WsForward` *, `MCWsForward` * : websocket forwarding over the bus, with the
   loop of `main`; both directions implement `LossyPipe` when messages stay in order.
6. `Gateway` *, `MCGateway` * : HTTP forwarding and management on one bus, built
   from `HttpForward` and `Registry`.
7. `ServiceRecord` *, `MCServiceRecord` * : the life of one registry entry.
8. `LossyWire` * : abstract specification of the network between two loops.
   `DataExchange` *, `MCDataExchange` * : the request-response protocol with codec,
   timeouts, connections and addresses; implements `LossyWire`.
9. `Registry_proofs` * : the safety properties of the management API.
10. `WsForward_proofs` *, `WsOrder_proofs` *, `WsSurvival_proofs` * : the safety
    properties of websocket forwarding; the refinement of `LossyPipe` in both
    directions; that loops survive where the code is used as it was written for.
11. `DataExchangeHistory` * (the history variables of two properties, moved out of
    the MC module to be proved about), `DataExchange_proofs` * : the
    acknowledgements, the refinement of `LossyWire`, lost peers, failures.
12. `Gateway_proofs` * : both servers' promises on one bus.
13. `ServiceRecord_proofs` * : what merging keeps, by induction over the loop.
14. `GatewayHistory` * (the history variable of `ConvergedIfSerial`, moved out of the
    MC module to be proved about): convergence of changes made one at a time.

## 3. Modules and their correspondence to the code

### CommandBus

`lock[g]` is the holder of the `MutexGuard` on `command_sender`, `poisoned[g]`
the mutex's poison flag, `cmd[g]` the message in the channel, `net[g]` whether
the task `network_event_loop` is running. It has operators, not actions:
`Acquire`, `Release`, `PanicWithGuard`, `Push`, `Pop`, `LoopPanics`.

What is external is taken from how the libraries behave in the versions of
`Cargo.lock`: `futures::channel::mpsc::channel(0)` has one slot per `Sender`,
`send` completes when the receiver has taken the message, and completes with
`Ok` when the receiver is dropped after the push; `std::sync::Mutex` is poisoned
when a panic unwinds through a guard, not when a future is dropped; a panic in an
async-std task ends that task and not the process.

### HttpForward

| Model | Code |
|---|---|
| `pc[r]` | the await (or `lock()`) where `forward_http_proxy_request` of `r` stands |
| `sessions[g]` | keys of `request_id_client_session_mapping` (never removed) |
| `delivering[g]` | the loop is inside `sender.send(resp).await`, `network.rs:332` |
| `wire` | requests of the libp2p request-response protocol, schema 0 and 3 |
| `catalog[g]` | which services `get(service_data, ..)` finds |
| `served`, `billed` | calls of the service and successful `submit_usage`, history variables |

Handler: `ParsePanics`, `Refuse`, `Accept` (up to `lock()`), `AcquireLock`, `LockPanics`,
`PushRequest`, `PushUsage`, `PushPanics`, `FlushUsage`, `ReceiveResponse`,
`Disconnect`. A step runs from one await to the next. `lock()` is not an await: a
handler in it stops its worker thread, and `WorkerFree` keeps the other handlers
of that thread from running.

Loop: `TakeSendRequest`, `TakeSubmitUsage`, `ContractPanics` for commands;
`ServeHttp`, `LookupPanics`, `ServePanics` for schema 0; `Deliver`,
`DeliverPanics` for schema 3. Every `unwrap` and `expect` on the way is a
disjunct of one of the `...Panics` actions. Services and messages are model
values; the URL, headers and body of a request are left out, since no branch of
the forwarding depends on them except the ways in which
`send_http_request_blocking` fails, which are the fault `provider`, and on
whether `parse_request` can cut the key (`Unparsable`). A key shorter than ten
bytes panics there: the README's own example, `/v1/testkey/anything/foobar`, does,
and a service whose id is not ten bytes long, like its `httpbin_service`, can
never be addressed.

`submit_usage` asserts that the call of the contract returned `Ok`. `ContractPanics`
is that assertion failing; the transaction itself may have gone through.

`Faults` selects what the environment does: `loss` of a message, a user's
`disconnect`, a failing `provider` service, a failing `contract` call, a failing
acknowledgement (`ack`), a `withdraw`n service. Acknowledgements to a gateway
whose loop is dead fail without a fault being enabled: that is how one dead
gateway takes others with it.

### ProxyContract

What the user is promised: refused, or accepted and then served at most once,
charged at most once, and answered after both. `HttpForward!Contract` is the
refinement mapping: `status[r]` is a function of `pc[r]`, `served` and `billed`
are themselves. An abandoned request may still be served and charged later.

### Registry

| Model | Code |
|---|---|
| `pc[o]`, `local[o]` | a call of `new_update_service` or `delete_service` and its local service |
| `registry[g][k]` | the entry of service `k` in `State<ApronService>` |
| `gossip` | published messages, one copy per receiver |
| `taken[g]` | the command of `receiver.next()` (`network.rs:389`) until it is carried out |
| `applying[g]`, `known[g]` | the loop between its `get` and its `set` or `delete`, `network.rs:222` |
| `listed` | services passed to a successful `contract::add_service` |
| `get_services(g)`, `list_local_services(g)`, ... | the four read-only listings |
| `published`, `seq` | history: the place of a message among those of its gateway |

A service record keeps what the code branches on: `owner` (`peer_id`),
`deleted` (`is_deleted`), `providers` (there or not), and `edits`, the set of
requests whose fields it carries, for everything else. `Create` is the POST of
an unknown key, `Update` is `ApronService::update`. `get` and `set` are separate
actions because the mutex of the state is released between them and other
threads run; `delete` is one. `Ordered` says whether gossip of one gateway
arrives in order; gossipsub does not promise it.

A command is received (`ReceiveCommand`) and carried out (`PublishGossip`,
`ListService` and their panics) in two steps: receiving frees the slot, which ends
the `send().await` of a handler in another thread, before `publish` or
`add_service` has run. So a 200 can be out before its change is announced, and a
loop that dies of the command leaves it false. `DoneIsAnnounced` says how far this
goes: only the one command in the loop's hand may be missing while the loop lives,
and never more than two answers of a gateway are false. Two, because the death of
the loop also ends the wait of a handler whose last command is in the slot; TLC
finds both of them, and no more.

In `HttpForward` and `WsForward` receiving and carrying out are one step. There
the loop awaits nothing in between, `send_request` does not fail, and what a
handler can do meanwhile is to put its next command into the slot or to wait for a
response, which the loop sees later in either case. A contract call that fails
then finds that next command in the slot, where the model has its push fail; the
request in it is lost with the loop both ways.

A gossip copy for a gateway whose loop is dead stays in `gossip`.

A body with `is_deleted: true`, or the empty `peer_id` of the README's example in
an update, is stored as it is: the first makes registries differ even when
nothing is concurrent, the second moves a service from `/local` to `/remote`.

### WsForward and LossyPipe

| Model | Code |
|---|---|
| `pc[s]` | the `ClientSideWsActor` of session `s`, in `lock()` or `block_on` |
| `waiting[g]` | the await the network loop of `g` is in: `event_sender.send` (`network.rs:273`, `304`) or `sender.send` of a session (`317`) |
| `event` | the one slot of the channel from the network loop to `main` |
| `main`, `peer`, `addresses` | the `select!` loop of `main.rs:185`, `remote_peer_id2`, `req_id_ws_addr_mapping` |
| `frames` | the channel of `data_sender` clones, one slot per service actor |
| `mainCmd` | the slot of the loop's own `command_sender` |
| `wire[g]` | messages of schema 0, 1 and 2 on their way to `g` |
| `up`, `got`, `down`, `shown` | frames put in and taken out at both ends, history variables |

An actor never awaits: `lock()` and `block_on` stop its worker thread, on which
the task that receives responses (`Receive`) runs too. The handler of a frame is
`Frame`, `Lock`, `PushFrame`, `Unlock`; `started()` is `Open`, `Lock`, `Start`
(twice), `Unlock`. Frames are numbers; `Binary` are those that are not UTF-8,
on which the actor of the client side panics because the receiving task forgets
that they were binary. A session that enters at the provider is excluded
(`PlacementAssumption`): its messages are sent to nobody, see `HttpForward`.

`End` is the service closing its side: `ServiceSideWsActor` ignores close frames
and stops when the stream ends, while its address stays in the map of `main`,
which goes on sending to it in vain.

`LossyPipe` allows any frame to be lost, since `try_send` and the network lose
them, but none to be duplicated or overtaken. `UpInOrder` and `DownInOrder` map
its `put` and `out` to the counters and sequences of the two directions.

### Gateway

`Gateway` has no state of its own. It instantiates `HttpForward` (`Http`) and
`Registry` (`Mgmt`) over one set of bus variables, and each of its actions is an
action of one of them with the other's variables unchanged. What couples them:

- the handlers of both servers are the `Handlers` of one bus, so that a
  forwarding handler that waits for its response holds up every POST;
- `catalog`, a variable in `HttpForward`, is the registry here: forwarding looks
  up what the management API and gossip have stored, at the moment of the look-up;
- `NotManaging` and `NotDelivering`: the one loop is busy for either, with a
  command or a message;
- an entry without an HTTP provider makes `send_http_request_blocking` fail, which
  the loop unwraps (`NoProviderPanics`).

The two servers have threads of their own (`FwdWorkers`, `MgmtWorkers`). Users may
leave; the other faults stay with the component runs. `GatewayHistory` adds `serial`,
which no action reads.

`LoopDeathExplained` names what is behind a dead loop: a user who left, or a
look-up at the provider that failed (the service was deleted, has no provider, or
was registered elsewhere and the request overtook its gossip), at the gateway
itself or at one whose death reached it through the provider's loop. The proof
found the last two: a request can be faster than the gossip of its service, and a
third gateway dies of a loop that it never talked to, both of which take more
gateways than the run has.

### ServiceRecord

One entry through the POSTs and DELETEs of its life. A record is a function from
field names to values or `None`; all plain fields are merged alike by `Merge`.
`posts` and `sent` (the providers of all bodies in the order in which they came)
are history variables against which the properties recompute what the entry
should be. `listing` is the argument list of the last `AddService`; `ListingKept`
says that it changes only to what the body gives for the service or for the
provider that is listed, the first. `AddProviders`, the loop over a body's
providers, is a recursive function, `merged[n]` after `n` turns, so that the turns
can be reasoned about one at a time. `Values` is what a field may hold.
`RetryHarmless` names what a repeated POST may change: the README's example
carries an empty `peer_id`, which creation replaces and the repetition believes.

### DataExchange and LossyWire

| Model | Code |
|---|---|
| `conn` | libp2p connections between two gateways |
| `book[g]` | addresses in the kademlia table of `g` |
| `busy[g]` | the exchange whose handler the loop of `g` is in |
| `outbound[x]` | what the sender knows: dialling, sent, acknowledged, failed |
| `inbound[x]` | where the message is at the receiver |
| `channel[x]` | the `ResponseChannel`, over which `send_response` is unwrapped |

An exchange is one `DataExchangeRequest` with its acknowledgement
`FileResponse(vec![1,2,3])`; `Reply[x]` is the schema 3 exchange that carries the
response of a schema 0 request. `Established`, `ConnectionBreaks` and `Forget` are
the connection events of the loop; `Read` and `ReadFails` are the reader of the
codec (`Readable` has its limits); `Dispatch`, `Acknowledge` and their panics and
`Finish` are the loop around a handler, whose inside belongs to the other modules:
here it only keeps the loop busy. A request is acknowledged (`network.rs:287`) and
its response sent (`292`) in two steps, between which the acknowledgement may
arrive, the connection break or the process crash; a response put on a connection
that broke then fails with it, since the swarm has not told the loop. So an
acknowledgement does not promise a response: `AckedWasTaken` allows the loop to be
between the two, or to have died there. `DataExchangeHistory` adds `faulty` and `parted`, which no
action reads, for the two properties that look back.

`add_address` of an accepted connection stores the port the peer dialled *from*
(`SourceAddress`), at which nobody listens; `remove_peer` then forgets the address
of the option `--peer` too. Hence `LostForGood`: two gateways that lose their
connection stay apart until a restart.

`LossyWire` is what the other modules take the network for: each message is lost
or taken by the receiving loop, at most once, and a reply is sent only for a
request that was taken. `ImplementsWire` is the refinement; a sender may well be
told of a failure for a message that is taken later.

## 4. Runs

| Run | Instance | Shows |
|---|---|---|
| `http_faults` | client gateway with two requests on two workers and one that cannot be parsed, provider with one, all faults | the safety properties, the inductive invariant, the refinement |
| `http_no_faults` | the same, no faults, both client requests on one worker, fair | loops survive, receivers are there, the three ways to get stuck are all there are |
| `http_circle` | one request, no faults | violated: a request can hang in a circular wait |
| `http_disconnect` | one request, user may leave | violated: the receiver that the loop expects is gone |
| `registry_faults` | a POST and a DELETE at one gateway, a POST at the other, all faults, unordered gossip | the registry's safety properties |
| `registry_race` | DELETE and POST of a known service at one gateway, ordered gossip, no faults | violated: the peer does not know a service it was told of |
| `ws_faults` | two sessions of one client gateway on two workers, an unknown service, all faults, unordered messages | safety of websocket forwarding |
| `ws_one_client` | the same on one worker, ordered messages, users may leave, services may end, a frame that is not text, fair | no loop fails, frames stay in order (`LossyPipe`), they arrive unless two named pairs of loops wait for each other |
| `ws_two_clients` | two client gateways, no faults | violated: a frame is sent to the wrong gateway |
| `gateway` | client gateway and provider, one request, a POST and a DELETE at the provider, a POST without providers at the client, the user may leave, fair | whom a guard belongs to, why a loop dies or a handler panics, that registries agree when changes are made one at a time, that changes spread and requests are answered |
| `service_record` | eleven bodies, up to four POSTs between DELETEs | fields and providers are those last sent, retries, look-ups and the listing |
| `data_exchange` | two clients and a provider, a request with a response one byte too large, a websocket request, a frame of exactly the limit; connections close, timers fire, loops crash; fair timers | acknowledgements, refusals, lost peers, the refinement of `LossyWire`, every exchange ends |

Properties in words stand above each definition in the modules. The ones to
start with: `AnsweredIsServedAndBilled` and `ImplementsContract` (accounting),
`GuardMatchesHandler` and `LoopWaitsForHolder` (the bus), `AnsweredUnlessStuck`
(progress), `OwnerRegistered`, `DoneIsAnnounced` (registry),
`ChargedBeforeConnected`, `LoopsSurvive`, `FramesArrive` (websockets),
`LoopDeathExplained`, `PanicExplained`, `ConvergedIfSerial`, `ChangeSpreads`
(gateway), `ProvidersMerged`, `RetryHarmless` (records), `ImplementsWire`,
`FailureExplained` (data exchange).

The four violated properties state what the README of the repository or an
`expect` in the code says; `PROJECT.json` quotes the lines under `findings`.

**Bounds.** Nothing is unbounded in `HttpForward`: a request runs once, counters
are bounded by the properties themselves. Two requests at the client gateway are
what it takes for one handler to hold the mutex, or the worker, while another
wants it; the third, at the provider, makes a gateway client and provider at
once and shows the request that is sent to nobody. One service is enough because
requests interact through the bus only. In `Registry` three requests on one key
give update against update, update against deletion, and gossip against both; the
DELETE and the POST of one gateway are what it takes for two false answers, one for
the command in the loop's hand and one for that in the slot;
`seq` grows at most once per request. In `WsForward` the frames of a session are bounded by `Limit`: two
frames are the least that can be out of order or meet an occupied slot, and a
second session without frames is enough to block the thread of the first in its
own `started()`; in `ws_faults` both sessions carry a frame.

One request and three changes of its service are enough in `Gateway` to have
each server hold the bus against the other, and a request meet its service
before, between and after the changes; `MCInfo` puts the registration and the
deletion on one thread and the POST without providers at the other gateway.
`MaxPosts` bounds a record's life: a fourth POST can meet providers of three
others, and the bodies hold two ids, no id, and every combination of schema and
address that the look-ups tell apart. In `DataExchange` lengths are abstracted to
the order that matters (`MCMaxSize`, at it, above it), and four exchanges give one
loop a message to handle, one to wait and one that closes the connection of both.

The theorems of section 5 do away with these bounds for every safety property: they
hold for any number of gateways, requests, sessions, changes, frames, bodies and
exchanges.

**Serial changes.** `GatewayHistory` adds the history variable `serial`: no change began
while another was under way. `ConvergedIfSerial` is about those behaviours only;
`registry_race` shows what happens in others.

**Deadlock checking** is on in `service_record`. It is off in the other runs:
requests and exchanges end, and a dead or stuck gateway stops, all of which are
real.

**Fairness.** `HttpForward!Fairness`: weak fairness of each handler (the executor
polls a future that was woken; a blocked `lock()` returns when the mutex is
free), of each loop on commands, and on each message that has arrived. Nothing
is assumed of users, of losses or of withdrawals. Weak fairness of taking the
mutex does not promise that a handler is not overtaken, but every handler
takes it once, so that being overtaken ends. `futures::select!` chooses
pseudo-randomly among what is ready, which is why commands and messages each have
their fairness. `Gateway!Fairness` is the same for both servers and adds that
gossip is delivered, there without loss. Its liveness properties hold under
`Undisturbed`: no loop dead, no mutex poisoned, no handler stuck in one of the
ways of `http_no_faults` or in another's blocking `lock()`. `WsForward!Fairness` is the same for
actors, loops and messages, with one condition for the loop of `main`, whose
`select!` is fair enough since the frames of a session are finite.
`DataExchange!Fairness` assumes timers, dials and acknowledgements, and neither
that a handler ends nor that a message is read.

## 5. Proofs

Each `X_proofs` module proves its theorems from the named assumptions of `X` and
`CommandBus` alone: any sets, finite or not, any placement on gateways and
workers, any combination of faults, unless a hypothesis is stated below. Each
inductive invariant was first checked by TLC as an invariant of the component's
runs.

### HttpForward

- `TypeCorrect`, `Invariance`: `Spec => []IInv`;
- `Exclusion`, `HandoverToHolder`, `AtMostOnce`, `Accounting`, `SessionFound`,
  `NoPoisonWhileAlive`: the safety properties of `http_faults`;
- `FaultFreeLoops` and `ReceiverKept`: under `Faults = {}` no loop dies, and
  without `disconnect` the receiver is kept;
- `Refinement`: `Spec => ImplementsContract`.

None of the safety properties is inductive. "Answered implies
charged once" depends on where the charge is: not sent, in the slot of the bus,
taken; and the slot holds it only while the handler is flushing it. `IInv`
therefore says, for each request, the one place it can be in (`OnePlace`: unsent,
in the slot, on the wire, served and on its way back, being handed over), how
far its charge has come (`Charged`), whom the mutex and the slot belong to
(`BusOwned`), and how requests end (`Ended`). The essential fact is that a
handler at `awaiting` has seen its `SubmitUsage` popped *or* its loop die, and
that a dead loop never hands anything over. `Quiet` carries what holds without
faults. The proof that a step preserves `IInv` has one lemma per group of
actions, with a step per action and conjunct; the refinement uses `IInv` for the
guards of `Serve`, `Bill` and `Answer`.

A usage may be charged by the very transaction whose assertion kills the loop
(`ContractPanics`), so that "taken and charged" are one only while the loop
lives, which is how `Charged` says it.

### Registry

`TypeCorrect`, `GuardCorrect`, `AnswersHonest` (`DoneIsAnnounced`),
`ListingsAnnounced` (`ListedIsPublished`), `OwnersCorrect` (`OwnerRegistered`).

A call reports success when the slot is free again, and that alone says nothing
of who emptied it. `Flushed` ties the slot to the call that waits for it: it holds
that call's command, or the loop has it in hand, or it was published or listed, or
the loop is dead. Dead loops need counting. `FewUnfounded` says that one leaves at
most two calls whose command it did not carry out: the one it had in hand and the
holder of the mutex (`DeathLeavesFew`). Nobody joins them, since a push into a
channel without a receiver fails.
Owners need an invariant of every copy of a record. `AllAttributed` covers the
registries and the local services of calls, from which messages are made;
`SentAreSettled` says that only calls that have made their change are heard of, in
the slot, in gossip and in a loop between its `get` and its `set`, so that a
message that is applied late still carries what its call published.

### WsForward, WsOrder, WsSurvival

`WsForward_proofs`: `TypeCorrect`, `GuardCorrect` (`GuardMatchesActor`),
`ConnectionsCharged` (`ChargedBeforeConnected`), `FramesOnce` (`NoFrameTwice`),
under all faults and for messages in any order. `Usage` follows the charge from the
actor through the slot to the chain, as `Charged` does above; `RequestsCharged`
follows the request of the connection behind it. `NoFrameTwice` needs that a
frame is in one place at a time: `UpInOnePlace` and `DownInOnePlace` are about all
places of one direction together (slot, wire, event and service; channel of the
actors, `main`'s slot, wire, the loop's await and user), and `WireDistinct` makes two
entries of the wire two frames, without which taking one would leave the other.

`WsOrder_proofs`, with the hypothesis `Ordered`: `UpImplementsPipe` and
`DownImplementsPipe`, the refinements of `LossyPipe`. `UpOrder`, `FramesOrder`,
`DownOrder` and `WireOrder` say that whatever is further on its way comes before
what follows, across the places. Loss, dead loops and frames sent to the wrong
gateway are allowed: a frame that arrives nowhere cannot arrive late.

`WsSurvival_proofs`: `LoopsGoOn` (`LoopsSurvive`), with the hypothesis `Deployed`:
all users at one client gateway, services that the provider knows, messages in
order, and no faults but users who leave and services that end the connection.
This is the deployment of `ws_one_client`, with any number of sessions and
frames. TLC finds a loop that dies when any one of the four is dropped. The
invariant says that a frame never arrives before its connection request
(`RequestFirst`), that `remote_peer_id2` is the client gateway once it is used
(`BackHome`), and that the loop whose event is in the slot waits for `main`
(`Handover`); in such states only the actions of `Peaceful` are possible, and none
of them is a loop's failure.

### DataExchange

`TypeCorrect`, `AcksHonest` (`AckedWasTaken`), `Refinement` (`ImplementsWire`);
about `DataExchangeHistory`, `PartedForEver` (`LostForGood`) and
`FailuresExplained` (`FailureExplained`).

`AckedWasTaken` relates what the sender and the receiver know; in between are the
connection and the loop. `SentOnConnection` says that an exchange under way is on
an open connection, `HandlerRuns` that a busy loop is busy with an exchange it
has taken, `AnsweredWasTaken` and `ReplyBehindHandler` that an acknowledgement and
a response exist only behind their handler, and that a loop which went on has sent
the response. `PartedForgotten` says that gateways
that were parted know no address of each other, which is all a dial could use.

`FailuresExplained` has the hypothesis `Star`: every request goes to the peer of
`--peer`. Otherwise an exchange fails without any fault, since nobody knows the
address. In a star it holds for any number of gateways: `Excuses` says that an
exchange without an excuse has an address to dial or a connection, also between
its acknowledgement and its response, and so cannot fail.
That the network assumed by the other modules is what the protocol provides is
`Refinement`.

### Gateway

- `GuardsCorrect`, `PanicsExplained`, `DeathsExplained`: the safety properties of
  the run;
- `ServersKeepPromises`: `AnsweredIsServedAndBilled` and `DoneIsAnnounced`, proved
  for each server alone, hold when they share the bus and the loop;
- `ForwardingRefines`: forwarding still implements `ProxyContract`.

The theorems about `HttpForward` and `Registry` cannot be cited, since a step of
`Gateway` is not a step of either: the other server moves the bus. `GInv` has a
part for each server (`FwdInv`, `MgmtInv`), which says what the mutex and the slot
hold as far as they hold anything of that server. Neither is inductive alone; one
lemma per server (`FwdUntouched`, `MgmtUntouched`) says what the other's steps may
do to the bus. `ProviderKnows` and `PanicsKnown` carry the reasons of dead loops
and panics from the step that had them to the state that is explained.

`ConvergedWhenSerial` (`ConvergedIfSerial`) is about `GatewayHistory`. Its invariant,
`SerialInv`, says where the one change under way has got to: `Stages` that its
message is in one place for each receiver (still to be published, on the way, looked
up, applied), `Spreading` that the entry is the outcome of the change exactly where
the message has been, and that a deletion finds the entry it deletes wherever it
still has to come. Everything the change has not touched is the same everywhere, so
when the last message has been applied the changed entry is, too. `Marks` and
`Reading` carry what the steps branch on: `is_deleted` is set only in the message of
a deletion, and what a POST has read is still there when it stores. The invariant
holds as long as changes are serial and every bus works (`Works`, which once lost
stays lost): a handler that panics leaves a change half made.

The hypothesis `PlainBodies` (no POST body says `is_deleted: true`) is necessary:
the gateway called stores such a service and all others that know it remove it,
`network.rs:227`. The run's bodies satisfy it; with one that does not TLC finds
registries that differ after serial changes.

### ServiceRecord

`FieldsKept` (`LastWriterWins`), `ProvidersKept` (`ProvidersMerged`),
`RetriesHarmless` (`RetryHarmless`), `LookupsSafe` (`LookupNeverPanics`),
`ListingsKept` (`ListingKept`), for any set of bodies and any number of POSTs.

Here a step contains a loop, over any number of providers. The library's
induction theorems take an operator as a parameter, which the provers cannot
instantiate. `Least` is proved instead, from the theorem that proper inclusion of
finite sets is well founded: a set of numbers that is not empty has a least
element. `LoopReaches` then argues by the least turn at which the loop leaves a
given set of outcomes, and `LoopKeeps` by the one set of outcomes that every turn
keeps. That needs `AddProviders` to be a recursive function, whose definition
(`LoopDefined`) is proved by the same argument. On this rest `MergedLoop` (the list
stays merged), `LoopAgain` (a second pass changes nothing), `AddressedLoop`
and `FirstLoop` (what becomes of the first provider). `LatestNext` says what a
record more changes of the latest value of a field.

`ListingsKept` corrected its property: a body may well contain the text that is
the default of an argument, which an earlier form, "no argument falls back to its
default", forbade and which the bodies of the run happen not to do.

### Assumptions

The assumptions on constants are those of the modules: places exist, sets that
must differ do, and the values that stand for "none" and "panic" are no values of
the data. Two say more. `ReplyAssumption` (`DataExchange`): a response belongs to
one request and goes back over its connection, as the loop makes it,
`network.rs:279`. `PlacementAssumption` (`WsForward`): no user enters at the provider.

### Only model-checked

- Liveness: `AnsweredUnlessStuck`, `ChangeSpreads`, `RequestAnswered`,
  `FramesArrive`, `ExchangeEnds`. Fairness and ENABLED are out of the prover's reach.

## 6. Not modelled

- Restart of a gateway: nothing is persisted; a restarted gateway is a new one
  with an empty registry, and nothing in the code sends it the old one.
- libp2p, gossipsub, kademlia's routing, actix, the contracts and the chain:
  external, by how the code uses them. Gossip in `Registry` does not depend on the
  connections of `DataExchange`; its losses stand for them.
- Websockets in `Gateway`: their actors would only add holders of the guard, which
  `WsForward` has, to handlers that `Gateway` has.
- A websocket request whose key cannot be parsed: it panics before a session
  exists.
- `Command::Dial` and `Command::SendResponse`, which nothing sends; growth of
  `request_id_client_session_mapping`, from which nothing is removed.
- The byte layout of messages, key generation, option parsing, logging and the
  formatting of arguments and bodies.
- `forward_service/`: a crate of its own that the gateway does not use.
