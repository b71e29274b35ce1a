---------------------------- MODULE DataExchange ----------------------------
(***************************************************************************)
(* The request-response protocol between the network loops of gateways:    *)
(* one exchange per DataExchangeRequest, from send_request to the          *)
(* acknowledgement FileResponse(vec![1,2,3]), over connections that        *)
(* break, with the codec, the timeouts and the addresses of the peers.     *)
(*                                                                         *)
(* The tasks of a connection read and write while the loop is busy; dials  *)
(* and messages wait until the loop polls its swarm.  What a handler does  *)
(* with a message is left to HttpForward and WsForward: here it keeps the  *)
(* loop busy, perhaps for ever.                                            *)
(***************************************************************************)
EXTENDS Naturals

CONSTANTS
    Gateways,
    Exchanges,
    From, To,       \* From[x], To[x]: the gateways of x
    Schema,         \* Schema[x]: see DataExchangeRequest
    Size,           \* Size[x]: length of its data
    MaxSize,        \* the limit of read_length_prefixed
    Reply,          \* Reply[x]: the schema 3 exchange for the response, or none
    NoExchange,
    Bootstrap,      \* Bootstrap[g]: the peer of the option --peer, or none
    NoPeer,
    Faults          \* what the environment may do, a subset of FaultKinds

FaultKinds == {"close", "timeout", "crash"}

ASSUME NoneAssumption == NoExchange \notin Exchanges /\ NoPeer \notin Gateways
ASSUME ExchangesAssumption ==
    /\ From \in [Exchanges -> Gateways] /\ To \in [Exchanges -> Gateways]
    /\ Schema \in [Exchanges -> 0..3]
    /\ Size \in [Exchanges -> Nat] /\ MaxSize \in Nat
ASSUME ReplyAssumption ==
    /\ Reply \in [Exchanges -> Exchanges \cup {NoExchange}]
    /\ \A x \in Exchanges :
          Reply[x] # NoExchange =>
              /\ Schema[x] = 0 /\ Schema[Reply[x]] = 3
              /\ From[Reply[x]] = To[x] /\ To[Reply[x]] = From[x]
              /\ \A y \in Exchanges : Reply[y] = Reply[x] => y = x
ASSUME BootstrapAssumption == Bootstrap \in [Gateways -> Gateways \cup {NoPeer}]
ASSUME FaultsAssumption == Faults \subseteq FaultKinds

VARIABLES
    net,        \* net[g]: the task network_event_loop, "running" or "dead"
    conn,       \* pairs of gateways with a connection
    book,       \* book[g]: addresses of peers in g's kademlia table
    busy,       \* busy[g]: the exchange whose handler g's loop is in
    outbound,   \* outbound[x]: x at its sender
    inbound,    \* inbound[x]: x at its receiver
    channel     \* channel[x]: the ResponseChannel of x

vars == <<net, conn, book, busy, outbound, inbound, channel>>

OutboundStates == {"unsent", "dialing", "sent", "acked", "failed"}
InboundStates ==
    {"none", "transit", "refused", "queued", "handling", "answering", "handled",
     "late", "gone"}
ChannelStates == {"none", "open", "closed", "answered"}

\* "source" is the port a dialer happened to use, where nobody listens.
Addresses == [peer : Gateways, at : {"listen", "source"}]
ListenAddress(g) == [peer |-> g, at |-> "listen"]
SourceAddress(g) == [peer |-> g, at |-> "source"]

Pair(x) == {From[x], To[x]}
Alive(g) == net[g] = "running"
LoopIdle(g) == Alive(g) /\ busy[g] = NoExchange

\* main enters the bootstrap peer into kademlia and dials it.
Init ==
    /\ net = [g \in Gateways |-> "running"]
    /\ conn = {}
    /\ book = [g \in Gateways |->
                  IF Bootstrap[g] = NoPeer THEN {} ELSE {ListenAddress(Bootstrap[g])}]
    /\ busy = [g \in Gateways |-> NoExchange]
    /\ outbound = [x \in Exchanges |-> "unsent"]
    /\ inbound = [x \in Exchanges |-> "none"]
    /\ channel = [x \in Exchanges |-> "none"]

-----------------------------------------------------------------------------
(* Connections. *)

\* A dial of main, or of a request without a connection, succeeds; the requests
\* that waited for it are sent.  Both loops take the ConnectionEstablished event.
Established(g, h) ==
    /\ LoopIdle(g) /\ LoopIdle(h)
    /\ g # h /\ {g, h} \notin conn
    /\ ListenAddress(h) \in book[g]
    /\ conn' = conn \cup {{g, h}}
    /\ book' = [book EXCEPT ![g] = @ \cup {ListenAddress(h)},
                            ![h] = @ \cup {SourceAddress(g)}]
    /\ LET waiting == {x \in Exchanges : Pair(x) = {g, h} /\ outbound[x] = "dialing"}
       IN  /\ outbound' = [x \in Exchanges |-> IF x \in waiting THEN "sent" ELSE outbound[x]]
           /\ inbound' = [x \in Exchanges |-> IF x \in waiting THEN "transit" ELSE inbound[x]]
    /\ UNCHANGED <<net, busy, channel>>

\* OutboundFailure::DialFailure, ignored by the loop.
FailDials(g, h) ==
    LET waiting == {x \in Exchanges :
                       From[x] = g /\ To[x] = h /\ outbound[x] = "dialing"}
    IN  /\ LoopIdle(g)
        /\ waiting # {}
        /\ outbound' = [x \in Exchanges |-> IF x \in waiting THEN "failed" ELSE outbound[x]]
        /\ UNCHANGED <<net, conn, book, busy, inbound, channel>>

\* No address, or nobody who listens there.
DialFails(g, h) ==
    /\ g = h \/ ListenAddress(h) \notin book[g] \/ ~Alive(h)
    /\ FailDials(g, h)

\* The peer does not answer, perhaps because its loop is in a handler.
DialTimesOut(g, h) == "timeout" \in Faults /\ FailDials(g, h)

\* Mutated: the peer stays in the kademlia table.
ForgetNobody(pairs) == UNCHANGED book

\* ConnectionClosed: remove_peer, with every address of the peer.
Forget(pairs) ==
    book' = [g \in Gateways |-> {a \in book[g] : {g, a.peer} \notin pairs}]

\* What the end of connections does to the exchanges on them.
CloseAll(pairs) ==
    /\ conn' = conn \ pairs
    /\ Forget(pairs)
    /\ channel' = [x \in Exchanges |->
          IF Pair(x) \in pairs /\ channel[x] = "open" THEN "closed" ELSE channel[x]]

FailOn(pairs) ==
    [x \in Exchanges |->
        IF Pair(x) \in pairs /\ outbound[x] = "sent" THEN "failed" ELSE outbound[x]]

LostOn(pairs) ==
    [x \in Exchanges |->
        IF Pair(x) \in pairs /\ inbound[x] = "transit" THEN "gone" ELSE inbound[x]]

\* The keep-alive of an idle connection ends, or the network fails.
ConnectionBreaks(p) ==
    /\ "close" \in Faults
    /\ p \in conn
    /\ CloseAll({p})
    /\ outbound' = FailOn({p})
    /\ inbound' = LostOn({p})
    /\ UNCHANGED <<net, busy>>

-----------------------------------------------------------------------------
(* The sender. *)

\* send_request, with what becomes of x without a connection; in: inbound before it.
SendRequest(x, unconnected, in) ==
    IF Pair(x) \in conn
    THEN /\ outbound' = [outbound EXCEPT ![x] = "sent"]
         /\ inbound' = [in EXCEPT ![x] = "transit"]
    ELSE /\ outbound' = [outbound EXCEPT ![x] = unconnected]
         /\ inbound' = in

\* Commands SendRequest, SendProxyData and SendProxyDataFromService.
Command(x) ==
    /\ outbound[x] = "unsent"
    /\ \A y \in Exchanges : Reply[y] # x
    /\ LoopIdle(From[x])
    /\ SendRequest(x, "dialing", inbound)
    /\ UNCHANGED <<net, conn, book, busy, channel>>

\* RequestResponseMessage::Response: read_response never refuses the three bytes.
AckArrives(x) ==
    /\ outbound[x] = "sent"
    /\ channel[x] = "answered"
    /\ outbound' = [outbound EXCEPT ![x] = "acked"]
    /\ UNCHANGED <<net, conn, book, busy, inbound, channel>>

\* Mutated: no request timeout is set.
NoTimeout(x) == FALSE

\* Mutated: a message that failed is sent again.
SenderRetries(x) ==
    /\ "timeout" \in Faults
    /\ outbound[x] = "sent"
    /\ inbound' = [inbound EXCEPT ![x] = "transit"]
    /\ UNCHANGED <<net, conn, book, busy, outbound, channel>>

\* The request timeout at the sender: an OutboundFailure, ignored.
SenderTimeout(x) ==
    /\ "timeout" \in Faults
    /\ outbound[x] = "sent"
    /\ outbound' = [outbound EXCEPT ![x] = "failed"]
    /\ UNCHANGED <<net, conn, book, busy, inbound, channel>>

-----------------------------------------------------------------------------
(* The receiver. *)

\* Mutated: the limit itself is refused.
ReadableBelow(x) == Size[x] # 0 /\ Size[x] < MaxSize

\* read_request; write_request has no such limits.
Readable(x) == Size[x] # 0 /\ Size[x] <= MaxSize

Read(x) ==
    /\ inbound[x] = "transit"
    /\ Readable(x)
    /\ inbound' = [inbound EXCEPT ![x] = "queued"]
    /\ channel' = [channel EXCEPT ![x] = "open"]
    /\ UNCHANGED <<net, conn, book, busy, outbound>>

\* An error of the codec closes the connection.
ReadFails(x) ==
    /\ inbound[x] = "transit"
    /\ ~Readable(x)
    /\ CloseAll({Pair(x)})
    /\ outbound' = FailOn({Pair(x)})
    /\ inbound' = [LostOn({Pair(x)}) EXCEPT ![x] = "refused"]
    /\ UNCHANGED <<net, busy>>

\* The request timeout at the receiver: an InboundFailure, ignored.
ReceiverTimeout(x) ==
    /\ "timeout" \in Faults
    /\ channel[x] = "open"
    /\ channel' = [channel EXCEPT ![x] = "closed"]
    /\ UNCHANGED <<net, conn, book, busy, outbound, inbound>>

\* Mutated: every schema is acknowledged on arrival.
AckFirstAlways(x) == TRUE

\* Schema 0 is acknowledged behind its handler, the others before.
AckFirst(x) == Schema[x] # 0

\* Mutated: handlers are spawned, the loop goes on.
DispatchSpawned(x) ==
    /\ Alive(To[x])
    /\ inbound[x] = "queued"
    /\ AckFirst(x) => channel[x] = "open"
    /\ busy' = [busy EXCEPT ![To[x]] = x]
    /\ inbound' = [inbound EXCEPT ![x] = "handling"]
    /\ channel' = IF AckFirst(x) THEN [channel EXCEPT ![x] = "answered"] ELSE channel
    /\ UNCHANGED <<net, conn, book, outbound>>

\* The loop takes the message and enters its handler.
Dispatch(x) ==
    /\ LoopIdle(To[x])
    /\ inbound[x] = "queued"
    /\ AckFirst(x) => channel[x] = "open"
    /\ busy' = [busy EXCEPT ![To[x]] = x]
    /\ inbound' = [inbound EXCEPT ![x] = "handling"]
    /\ channel' = IF AckFirst(x) THEN [channel EXCEPT ![x] = "answered"] ELSE channel
    /\ UNCHANGED <<net, conn, book, outbound>>

\* The loop ends and its swarm is dropped; in: inbound without this effect.
LoopDies(g, in) ==
    LET pairs == {p \in conn : g \in p}
    IN  /\ net' = [net EXCEPT ![g] = "dead"]
        /\ busy' = [busy EXCEPT ![g] = NoExchange]
        /\ CloseAll(pairs)
        /\ outbound' = [x \in Exchanges |->
              IF From[x] = g /\ outbound[x] = "dialing" THEN "failed" ELSE FailOn(pairs)[x]]
        /\ inbound' = [x \in Exchanges |->
              IF \/ Pair(x) \in pairs /\ in[x] = "transit"
                 \/ To[x] = g /\ in[x] = "queued"
              THEN "gone" ELSE in[x]]

\* send_response(..).unwrap() on a channel that was closed.
DispatchPanics(x) ==
    /\ LoopIdle(To[x])
    /\ inbound[x] = "queued"
    /\ AckFirst(x)
    /\ channel[x] = "closed"
    /\ LoopDies(To[x], [inbound EXCEPT ![x] = "late"])

\* send_response behind the handler of a request.  The task of the connection may
\* write the acknowledgement at once, and the connection may break.
Acknowledge(x) ==
    /\ busy[To[x]] = x
    /\ inbound[x] = "handling"
    /\ ~AckFirst(x)
    /\ channel[x] = "open"
    /\ inbound' = [inbound EXCEPT ![x] = "answering"]
    /\ channel' = [channel EXCEPT ![x] = "answered"]
    /\ UNCHANGED <<net, conn, book, busy, outbound>>

\* The same on a channel that was closed meanwhile: unwrap.
AcknowledgePanics(x) ==
    /\ busy[To[x]] = x
    /\ inbound[x] = "handling"
    /\ ~AckFirst(x)
    /\ channel[x] = "closed"
    /\ LoopDies(To[x], [inbound EXCEPT ![x] = "handled"])

\* The end of the handler, for a request behind the response.  The swarm tells the
\* loop of a broken connection only when it is polled: until then the response is
\* put on that connection and fails with it.
Finish(x) ==
    /\ busy[To[x]] = x
    /\ inbound[x] = IF AckFirst(x) THEN "handling" ELSE "answering"
    /\ busy' = [busy EXCEPT ![To[x]] = NoExchange]
    /\ LET in == [inbound EXCEPT ![x] = "handled"]
       IN  IF Reply[x] # NoExchange
           THEN SendRequest(Reply[x], "failed", in)
           ELSE inbound' = in /\ UNCHANGED outbound
    /\ UNCHANGED <<net, conn, book, channel>>

\* The loop dies of anything else, or the process does.
Crash(g) ==
    /\ "crash" \in Faults
    /\ Alive(g)
    /\ LoopDies(g, inbound)

-----------------------------------------------------------------------------

Protocol ==
    \/ \E g, h \in Gateways : Established(g, h) \/ DialFails(g, h)
    \/ \E x \in Exchanges :
          \/ Command(x) \/ AckArrives(x) \/ Read(x) \/ ReadFails(x)
          \/ Dispatch(x) \/ DispatchPanics(x)
          \/ Acknowledge(x) \/ AcknowledgePanics(x) \/ Finish(x)

Disturbance ==
    \/ \E p \in conn : ConnectionBreaks(p)
    \/ \E x \in Exchanges : SenderTimeout(x) \/ ReceiverTimeout(x)
    \/ \E g, h \in Gateways : DialTimesOut(g, h)
    \/ \E g \in Gateways : Crash(g)

Next == Protocol \/ Disturbance

Spec == Init /\ [][Next]_vars

\* Timers fire, dials end and an acknowledgement arrives or is lost; that a
\* handler ends is not assumed, nor that a message is read.
Fairness ==
    /\ \A x \in Exchanges : WF_vars(SenderTimeout(x)) /\ WF_vars(AckArrives(x))
    /\ \A g, h \in Gateways :
          WF_vars(Established(g, h) \/ DialFails(g, h) \/ DialTimesOut(g, h))

FairSpec == Spec /\ Fairness

-----------------------------------------------------------------------------
(* Properties. *)

\* The values the variables range over; a loop is in one handler at a time.
TypeOK ==
    /\ net \in [Gateways -> {"running", "dead"}]
    /\ conn \subseteq {{g, h} : g, h \in Gateways}
    /\ book \in [Gateways -> SUBSET Addresses]
    /\ busy \in [Gateways -> Exchanges \cup {NoExchange}]
    /\ outbound \in [Exchanges -> OutboundStates]
    /\ inbound \in [Exchanges -> InboundStates]
    /\ channel \in [Exchanges -> ChannelStates]
    /\ \A x \in Exchanges :
          Alive(To[x]) =>
              (inbound[x] \in {"handling", "answering"} <=> busy[To[x]] = x)

\* How far a message is, for LossyWire.
Status(x) ==
    CASE outbound[x] = "unsent" -> "unsent"
      [] inbound[x] \in {"handling", "answering", "handled"} -> "taken"
      [] inbound[x] \in {"refused", "late", "gone"} -> "lost"
      [] inbound[x] = "none" /\ outbound[x] = "failed" -> "lost"
      [] OTHER -> "wire"

Wire == INSTANCE LossyWire WITH status <- [x \in Exchanges |-> Status(x)]

\* The network that the other modules assume: whatever breaks, times out or
\* dies, a message is taken at most once, even when its sender was told that
\* it failed, and a response is sent only behind a handled request.
ImplementsWire == Wire!Spec

\* An acknowledgement means that the receiving loop has taken the message, and for
\* a request (schema 0) that its handler is done with the service; its response was
\* sent, unless the loop is still between the two sends, or died there.
AckedWasTaken ==
    \A x \in Exchanges :
        outbound[x] = "acked" =>
            /\ inbound[x] \in {"handling", "answering", "handled"}
            /\ Schema[x] = 0 => inbound[x] \in {"answering", "handled"}
            /\ Reply[x] # NoExchange /\ outbound[Reply[x]] = "unsent" =>
                  /\ inbound[x] = "answering"
                  /\ busy[To[x]] = x \/ ~Alive(To[x])

\* Every exchange ends at its sender, acknowledged or failed, whatever becomes of
\* the receiver; one that waits for a connection, unless the sender's own loop is
\* kept in a handler.
ExchangeEnds ==
    \A x \in Exchanges :
        LET ended == outbound[x] \in {"acked", "failed"}
        IN  /\ outbound[x] = "sent" ~> ended
            /\ []<>(busy[From[x]] # NoExchange) \/ (outbound[x] = "dialing" ~> ended)
=============================================================================
