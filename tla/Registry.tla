------------------------------ MODULE Registry ------------------------------
(***************************************************************************)
(* The service registry that every gateway keeps and replicates by gossip. *)
(*                                                                         *)
(* POST and DELETE /service (new_update_service, delete_service) change    *)
(* the registry of the gateway that was called and then, over the command  *)
(* bus, ask its network loop to publish the service to the other gateways  *)
(* and to list it in the market contract.  A loop that receives such a     *)
(* message adds, replaces or removes the service in its own registry.      *)
(***************************************************************************)
EXTENDS CommandBus, Naturals

CONSTANTS
    Ops,        \* management requests, each a POST or a DELETE
    Info,       \* Info[o]: its arguments, see InfoRecords
    Keys,       \* service ids
    Workers,    \* actix worker threads of the management servers
    NoService,  \* "no entry in the registry"
    NoPeer,     \* "no peer_id in the request body"
    Preloaded,  \* POSTs all gateways have seen at the start
    Market,     \* TRUE when market_contract_addr is set
    Ordered,    \* TRUE when messages of one gateway arrive in order
    Faults      \* what the environment may do, a subset of FaultKinds

FaultKinds == {"loss", "disconnect", "nopeers", "contract"}

\* Option<bool> as a string.
Flags == {"none", "true", "false"}

\* at: the gateway called; providers: the body names a provider.
InfoRecords ==
    [kind : {"put", "delete"}, at : Gateways, worker : Workers, key : Keys,
     peer : Gateways \cup {NoPeer}, deleted : Flags, providers : BOOLEAN]

\* A service is known by its owner (peer_id), by the requests whose fields it
\* carries, and by the two fields that the code branches on.
ServiceRecords ==
    [owner : Gateways, edits : SUBSET Ops, deleted : Flags, providers : BOOLEAN]

ASSUME OpsAssumption == Ops \subseteq Handlers
ASSUME InfoAssumption == Info \in [Ops -> InfoRecords]
ASSUME NoServiceAssumption == NoService \notin ServiceRecords
ASSUME NoPeerAssumption == NoPeer \notin Gateways
ASSUME PreloadedAssumption ==
    /\ Preloaded \subseteq {o \in Ops : Info[o].kind = "put"}
    /\ \A o, p \in Preloaded : Info[o].key = Info[p].key => o = p
ASSUME ModeAssumption ==
    Market \in BOOLEAN /\ Ordered \in BOOLEAN /\ Faults \subseteq FaultKinds

VARIABLES
    pc,         \* pc[o]: where o's handler is
    local,      \* local[o]: its local variable "service" / "new_service"
    registry,   \* registry[g][k]: the state map ApronService of g
    gossip,     \* published messages not yet received, one per receiver
    published,  \* published[o]: o's place among its gateway's messages, or 0
    seq,        \* seq[g]: messages g has published
    taken,      \* taken[g]: command g's loop has received, not yet carried out
    applying,   \* applying[g]: message g's loop has looked up, not yet applied
    known,      \* known[g]: what that look-up found
    listed      \* requests whose service was added to the market contract

vars == <<lock, poisoned, cmd, net, pc, local, registry, gossip, published, seq,
          taken, applying, known, listed>>

Holding == {"publish", "flushGossip", "flushListing"}
Done == {"done", "notFound", "cancelled", "panicked"}
PcStates == {"idle", "read", "locking"} \cup Holding \cup Done

GossipCmd(o) == [kind |-> "PublishGossip", by |-> o]
AddServiceCmd(o) == [kind |-> "AddService", by |-> o]
Commands == [kind : {"PublishGossip", "AddService"}, by : Ops]
Messages == [to : Gateways, by : Ops]

At(o) == Info[o].at
Key(o) == Info[o].key

\* Mutated: the peer_id of the body is kept.
CreateAsTold(o) ==
    [owner |-> Info[o].peer, edits |-> {o}, deleted |-> Info[o].deleted,
     providers |-> Info[o].providers]

\* The POST of a new service: the peer_id of the body is replaced.
Create(o) ==
    [owner |-> At(o), edits |-> {o}, deleted |-> Info[o].deleted,
     providers |-> Info[o].providers]

\* ApronService::update: fields of the body that are there replace the old.
Update(service, o) ==
    [owner |-> IF Info[o].peer = NoPeer THEN service.owner ELSE Info[o].peer,
     edits |-> service.edits \cup {o},
     deleted |-> IF Info[o].deleted = "none" THEN service.deleted ELSE Info[o].deleted,
     providers |-> service.providers \/ Info[o].providers]

Put(service, o) == IF service = NoService THEN Create(o) ELSE Update(service, o)

Preload(k) ==
    IF \E o \in Preloaded : Key(o) = k
    THEN Create(CHOOSE o \in Preloaded : Key(o) = k)
    ELSE NoService

Init ==
    /\ BusInit
    /\ pc = [o \in Ops |-> IF o \in Preloaded THEN "done" ELSE "idle"]
    /\ local = [o \in Ops |-> IF o \in Preloaded THEN Create(o) ELSE NoService]
    /\ registry = [g \in Gateways |-> [k \in Keys |-> Preload(k)]]
    /\ gossip = {}
    /\ published = [o \in Ops |-> 0]
    /\ seq = [g \in Gateways |-> 0]
    /\ taken = [g \in Gateways |-> NoCmd]
    /\ applying = [g \in Gateways |-> NoHandler]
    /\ known = [g \in Gateways |-> FALSE]
    /\ listed = {}

-----------------------------------------------------------------------------
(* The handlers new_update_service and delete_service. *)

Goto(o, label) == pc' = [pc EXCEPT ![o] = label]

\* A handler gives up its thread only at an await: not between get and set, and
\* not while it is blocked in command_sender.lock().
WorkerFree(o) ==
    \A p \in Ops \ {o} :
        Info[p].worker = Info[o].worker => pc[p] \notin {"read", "locking"}

Arriving(o, kind) == pc[o] = "idle" /\ Info[o].kind = kind /\ WorkerFree(o)

loopVars == <<gossip, published, seq, taken, applying, known, listed>>

\* state::get and, after the mutex of the state was released, state::set.
Read(o) ==
    /\ Arriving(o, "put")
    /\ local' = [local EXCEPT ![o] = registry[At(o)][Key(o)]]
    /\ Goto(o, "read")
    /\ UNCHANGED <<busVars, registry, loopVars>>

Store(o) ==
    /\ pc[o] = "read"
    /\ local' = [local EXCEPT ![o] = Put(@, o)]
    /\ registry' = [registry EXCEPT ![At(o)][Key(o)] = Put(local[o], o)]
    /\ Goto(o, "locking")
    /\ UNCHANGED <<busVars, loopVars>>

Remove(o) ==
    /\ Arriving(o, "delete")
    /\ registry[At(o)][Key(o)] # NoService
    /\ local' = [local EXCEPT ![o] = [registry[At(o)][Key(o)] EXCEPT !.deleted = "true"]]
    /\ registry' = [registry EXCEPT ![At(o)][Key(o)] = NoService]
    /\ Goto(o, "locking")
    /\ UNCHANGED <<busVars, loopVars>>

RemoveNothing(o) ==
    /\ Arriving(o, "delete")
    /\ registry[At(o)][Key(o)] = NoService
    /\ Goto(o, "notFound")
    /\ UNCHANGED <<busVars, local, registry, loopVars>>

AcquireLock(o) ==
    /\ pc[o] = "locking"
    /\ Acquire(At(o), o)
    /\ Goto(o, "publish")
    /\ UNCHANGED <<poisoned, cmd, net, local, registry, loopVars>>

LockPanics(o) ==
    /\ pc[o] = "locking"
    /\ AcquireFails(At(o))
    /\ Goto(o, "panicked")
    /\ UNCHANGED <<busVars, local, registry, loopVars>>

\* Mutated: the service is listed before it is published.
PushListingFirst(o) ==
    /\ pc[o] = "publish"
    /\ WorkerFree(o)
    /\ Push(At(o), AddServiceCmd(o))
    /\ Goto(o, "flushGossip")
    /\ UNCHANGED <<lock, poisoned, net, local, registry, loopVars>>

PushGossip(o) ==
    /\ pc[o] = "publish"
    /\ WorkerFree(o)
    /\ Push(At(o), GossipCmd(o))
    /\ Goto(o, "flushGossip")
    /\ UNCHANGED <<lock, poisoned, net, local, registry, loopVars>>

PushListing(o) ==
    /\ pc[o] = "flushGossip"
    /\ Info[o].kind = "put"
    /\ local[o].providers
    /\ WorkerFree(o)
    /\ Push(At(o), AddServiceCmd(o))
    /\ Goto(o, "flushListing")
    /\ UNCHANGED <<lock, poisoned, net, local, registry, loopVars>>

\* send().await.unwrap() without a Receiver, and apronservice_to_args of a
\* service without a provider once the gossip has been handed over.
HandlerPanics(o) ==
    /\ \/ pc[o] = "publish" /\ ~Alive(At(o))
       \/ /\ pc[o] = "flushGossip"
          /\ Info[o].kind = "put"
          /\ SlotFree(At(o))
          /\ ~Alive(At(o)) \/ ~local[o].providers
    /\ WorkerFree(o)
    /\ PanicWithGuard(At(o))
    /\ Goto(o, "panicked")
    /\ UNCHANGED <<cmd, net, local, registry, loopVars>>

\* Mutated: the answer does not wait for the loop.
RespondEarly(o) ==
    /\ \/ pc[o] = "flushListing"
       \/ pc[o] = "flushGossip" /\ Info[o].kind = "delete"
    /\ WorkerFree(o)
    /\ Release(At(o))
    /\ Goto(o, "done")
    /\ UNCHANGED <<poisoned, cmd, net, local, registry, loopVars>>

\* The last flush: 200 OK.
Respond(o) ==
    /\ \/ pc[o] = "flushListing"
       \/ pc[o] = "flushGossip" /\ Info[o].kind = "delete"
    /\ WorkerFree(o)
    /\ SlotFree(At(o))
    /\ Release(At(o))
    /\ Goto(o, "done")
    /\ UNCHANGED <<poisoned, cmd, net, local, registry, loopVars>>

\* The operator's connection breaks and the handler future is dropped.
Disconnect(o) ==
    /\ "disconnect" \in Faults
    /\ pc[o] \in Holding
    /\ WorkerFree(o)
    /\ Release(At(o))
    /\ Goto(o, "cancelled")
    /\ UNCHANGED <<poisoned, cmd, net, local, registry, loopVars>>

-----------------------------------------------------------------------------
(* The listings: what each GET handler reads from the registry, at once. *)

get_services(g) == {k \in Keys : registry[g][k] # NoService}
list_local_services(g) == {k \in get_services(g) : registry[g][k].owner = g}
list_remote_services(g) == {k \in get_services(g) : registry[g][k].owner # g}
list_service_peers(g) == {registry[g][k].owner : k \in get_services(g)}

-----------------------------------------------------------------------------
(* The task network_event_loop. *)

LoopIdle(g) == Alive(g) /\ taken[g] = NoCmd /\ applying[g] = NoHandler

\* receiver.next(): the handler's send().await may be over before the loop has
\* carried out the command.
ReceiveCommand(g) ==
    /\ LoopIdle(g)
    /\ Pop(g)
    /\ cmd[g].kind \in {"PublishGossip", "AddService"}
    /\ taken' = [taken EXCEPT ![g] = cmd[g]]
    /\ UNCHANGED <<lock, poisoned, net, pc, local, registry, gossip, published, seq,
                   applying, known, listed>>

\* The loop of g is about to carry out a command of this kind.
Executing(g, kind) == Alive(g) /\ taken[g] # NoCmd /\ taken[g].kind = kind

PublishGossip(g) ==
    /\ Executing(g, "PublishGossip")
    /\ seq' = [seq EXCEPT ![g] = @ + 1]
    /\ published' = [published EXCEPT ![taken[g].by] = seq'[g]]
    /\ gossip' = gossip \cup [to : Gateways \ {g}, by : {taken[g].by}]
    /\ taken' = [taken EXCEPT ![g] = NoCmd]
    /\ UNCHANGED <<busVars, pc, local, registry, applying, known, listed>>

LoopDies(g) ==
    /\ LoopPanics(g)
    /\ taken' = [taken EXCEPT ![g] = NoCmd]
    /\ UNCHANGED <<lock, poisoned, pc, local, registry, gossip, published, seq,
                   applying, known>>

\* publish(..).unwrap() when gossipsub knows no peer.
PublishPanics(g) ==
    /\ "nopeers" \in Faults
    /\ Executing(g, "PublishGossip")
    /\ LoopDies(g)
    /\ UNCHANGED listed

\* contract::add_service blocks the loop until the transaction is in a block.
ListService(g) ==
    /\ Executing(g, "AddService")
    /\ listed' = IF Market THEN listed \cup {taken[g].by} ELSE listed
    /\ taken' = [taken EXCEPT ![g] = NoCmd]
    /\ UNCHANGED <<busVars, pc, local, registry, gossip, published, seq, applying,
                   known>>

\* assert!(result.is_ok()) in contract::add_service; the transaction may have gone
\* through although its result was not seen.
ListingPanics(g) ==
    /\ "contract" \in Faults
    /\ Market
    /\ Executing(g, "AddService")
    /\ LoopDies(g)
    /\ listed' \in {listed, listed \cup {taken[g].by}}

InOrder(m) ==
    Ordered =>
        \A n \in gossip :
            n.to = m.to /\ At(n.by) = At(m.by) => published[m.by] <= published[n.by]

\* state::get, then state::delete or state::set in a critical section of its own.
LookUp(m) ==
    /\ LoopIdle(m.to)
    /\ InOrder(m)
    /\ gossip' = gossip \ {m}
    /\ applying' = [applying EXCEPT ![m.to] = m.by]
    /\ known' = [known EXCEPT ![m.to] = registry[m.to][Key(m.by)] # NoService]
    /\ UNCHANGED <<busVars, pc, local, registry, published, seq, taken, listed>>

\* Mutated: the receiver takes the service for its own.
ApplyAsOwner(g) ==
    /\ Alive(g)
    /\ applying[g] # NoHandler
    /\ LET o == applying[g] IN
       registry' = [registry EXCEPT ![g][Key(o)] = [local[o] EXCEPT !.owner = g]]
    /\ applying' = [applying EXCEPT ![g] = NoHandler]
    /\ UNCHANGED <<busVars, pc, local, gossip, published, seq, taken, known, listed>>

\* Mutated: a deleted service is stored instead of removed.
ApplyWithoutDelete(g) ==
    /\ Alive(g)
    /\ applying[g] # NoHandler
    /\ registry' = [registry EXCEPT ![g][Key(applying[g])] = local[applying[g]]]
    /\ applying' = [applying EXCEPT ![g] = NoHandler]
    /\ UNCHANGED <<busVars, pc, local, gossip, published, seq, taken, known, listed>>

Apply(g) ==
    /\ Alive(g)
    /\ applying[g] # NoHandler
    /\ LET o == applying[g] IN
       registry' = [registry EXCEPT ![g][Key(o)] =
           IF known[g] /\ local[o].deleted = "true" THEN NoService ELSE local[o]]
    /\ applying' = [applying EXCEPT ![g] = NoHandler]
    /\ UNCHANGED <<busVars, pc, local, gossip, published, seq, taken, known, listed>>

\* Gossip is best effort.
Lose(m) ==
    /\ "loss" \in Faults
    /\ gossip' = gossip \ {m}
    /\ UNCHANGED <<busVars, pc, local, registry, published, seq, taken, applying,
                   known, listed>>

-----------------------------------------------------------------------------

HandlerStep(o) ==
    \/ Store(o) \/ AcquireLock(o) \/ LockPanics(o)
    \/ PushGossip(o) \/ PushListing(o) \/ HandlerPanics(o) \/ Respond(o)

TakeCommand(g) ==
    \/ ReceiveCommand(g)
    \/ PublishGossip(g) \/ PublishPanics(g)
    \/ ListService(g) \/ ListingPanics(g)

Next ==
    \/ \E o \in Ops : Read(o) \/ Remove(o) \/ RemoveNothing(o) \/ Disconnect(o)
    \/ \E o \in Ops : HandlerStep(o)
    \/ \E g \in Gateways : TakeCommand(g) \/ Apply(g)
    \/ \E m \in gossip : LookUp(m) \/ Lose(m)

Spec == Init /\ [][Next]_vars

-----------------------------------------------------------------------------
(* Properties. *)

\* The values the variables range over.
TypeOK ==
    /\ lock \in [Gateways -> Handlers \cup {NoHandler}]
    /\ poisoned \in [Gateways -> BOOLEAN]
    /\ cmd \in [Gateways -> Commands \cup {NoCmd}]
    /\ net \in [Gateways -> {"running", "dead"}]
    /\ pc \in [Ops -> PcStates]
    /\ local \in [Ops -> ServiceRecords \cup {NoService}]
    /\ registry \in [Gateways -> [Keys -> ServiceRecords \cup {NoService}]]
    /\ gossip \subseteq Messages
    /\ published \in [Ops -> Nat]
    /\ seq \in [Gateways -> Nat]
    /\ taken \in [Gateways -> Commands \cup {NoCmd}]
    /\ applying \in [Gateways -> Ops \cup {NoHandler}]
    /\ known \in [Gateways -> BOOLEAN]
    /\ listed \subseteq Ops

\* The guard of command_sender belongs to exactly the handler between its
\* lock() and its end, on every path out of new_update_service and
\* delete_service.
GuardMatchesHandler ==
    \A o \in Ops : pc[o] \in Holding <=> lock[At(o)] = o

\* The change is published, and a POST listed in the market contract.
Announced(o) ==
    /\ published[o] > 0
    /\ Info[o].kind = "put" /\ Market => o \in listed

\* The changes that g has confirmed with 200 OK and not announced.
Unannounced(g) ==
    {o \in Ops \ Preloaded : At(o) = g /\ pc[o] = "done" /\ ~Announced(o)}

\* 200 OK says that the change was announced or is the one command that the loop
\* is carrying out.  When the loop dies of that command no more than two answers
\* of the gateway turn out false: the command was the last of a handler that has
\* answered, and another handler had its own last command in the slot, which
\* counts as received once the receiver is gone.
DoneIsAnnounced ==
    \A g \in Gateways :
        /\ Alive(g) => \A o \in Unannounced(g) : taken[g] # NoCmd /\ taken[g].by = o
        /\ \A o, p, q \in Unannounced(g) : o = p \/ p = q \/ o = q

\* Some request whose fields the entry of k at g carries was called at h, or
\* named h in its body.
RegisteredAt(g, k, h) ==
    \E o \in registry[g][k].edits : Key(o) = k /\ h \in {At(o), Info[o].peer}

\* A gateway lists as its own only what was registered there, and everything
\* else under a peer where it was registered: no interleaving of updates,
\* deletions and gossip attributes a service to somebody else, so the three
\* listings of the management API agree with each other and with the POSTs.
OwnerRegistered ==
    \A g \in Gateways :
        /\ \A k \in list_local_services(g) : RegisteredAt(g, k, g)
        /\ \A k \in list_remote_services(g) :
              \E h \in list_service_peers(g) \ {g} : RegisteredAt(g, k, h)

\* The market contract lists only services that were announced to the network
\* before, whatever handlers were dropped between their two commands.
ListedIsPublished == \A o \in listed : published[o] > 0

\* Nothing is under way.
Quiescent ==
    /\ \A o \in Ops : pc[o] \in {"idle"} \cup Done
    /\ gossip = {}
    /\ \A g \in Gateways : SlotFree(g) /\ taken[g] = NoCmd /\ applying[g] = NoHandler

\* A handler past its lock() whose thread is blocked in another's lock().
WorkerSelfBlock(g) ==
    \E o, p \in Ops :
        /\ At(o) = g /\ pc[o] \in Holding
        /\ Info[p].worker = Info[o].worker /\ pc[p] = "locking"

\* README.md: a new service is forwarded to the whole network and can be
\* queried from the client node.
QueryableEverywhere ==
    Quiescent =>
        \A o \in Ops, g \in Gateways :
            /\ pc[o] = "done" /\ Info[o].kind = "put"
            /\ registry[At(o)][Key(o)] = Create(o)
            => Key(o) \in get_services(g)
=============================================================================
