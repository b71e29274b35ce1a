------------------------ MODULE DataExchange_proofs ------------------------
(***************************************************************************)
(* Proofs about DataExchange, for any set of gateways and exchanges, any   *)
(* sizes and limits and any set of faults.                                 *)
(***************************************************************************)
EXTENDS DataExchangeHistory, TLAPS

\* What the constants promise.
LEMMA ExchangeType ==
    \A x \in Exchanges :
        /\ x # NoExchange
        /\ From[x] \in Gateways /\ To[x] \in Gateways
        /\ Reply[x] \in Exchanges \cup {NoExchange}
BY ExchangesAssumption, ReplyAssumption, NoneAssumption

\* A response is an exchange of its own, behind one request only, in the other
\* direction over the same connection.
LEMMA ReplyFacts ==
    \A x \in Exchanges :
        Reply[x] # NoExchange =>
            /\ Reply[x] # x
            /\ Schema[x] = 0 /\ Schema[Reply[x]] # 0
            /\ Pair(Reply[x]) = Pair(x)
            /\ From[Reply[x]] = To[x] /\ To[Reply[x]] = From[x]
            /\ \A y \in Exchanges : Reply[y] = Reply[x] => y = x
BY ReplyAssumption DEF Pair

\* Pairs of gateways.
LEMMA PairType ==
    /\ \A x \in Exchanges : Pair(x) \in {{g, h} : g, h \in Gateways}
    /\ \A x \in Exchanges : From[x] \in Pair(x) /\ To[x] \in Pair(x)
BY ExchangeType DEF Pair

\* Types at the start.
LEMMA InitTypeOK == Init => TypeOK
BY BootstrapAssumption, ExchangeType
DEF Init, TypeOK, OutboundStates, InboundStates, ChannelStates, Addresses, ListenAddress

-----------------------------------------------------------------------------
(* The inductive invariant. *)

\* A loop in a handler is alive and in the handler of a message to its gateway.
HandlerRuns ==
    \A g \in Gateways :
        busy[g] # NoExchange =>
            /\ Alive(g) /\ To[busy[g]] = g
            /\ inbound[busy[g]] \in {"handling", "answering"}

\* A message is under way only once it was sent, on a connection that is there.
SentOnConnection ==
    \A x \in Exchanges :
        /\ outbound[x] \in {"unsent", "dialing"} => inbound[x] = "none"
        /\ inbound[x] = "none" => outbound[x] \in {"unsent", "dialing", "failed"}
        /\ inbound[x] = "transit" => Pair(x) \in conn
        /\ channel[x] = "open" => Pair(x) \in conn

\* An acknowledgement is written behind the point at which the message was taken,
\* for a request behind its handler; a loop that went on has sent the response.
AnsweredWasTaken ==
    \A x \in Exchanges :
        /\ outbound[x] = "acked" => channel[x] = "answered"
        /\ inbound[x] = "answering" => Schema[x] = 0
        /\ channel[x] = "answered" =>
              /\ inbound[x] \in {"handling", "answering", "handled"}
              /\ Schema[x] = 0 => inbound[x] \in {"answering", "handled"}
              /\ Reply[x] # NoExchange /\ outbound[Reply[x]] = "unsent" =>
                    inbound[x] = "answering"

\* A response is sent behind the handler of its request, and never dialled for.
ReplyBehindHandler ==
    \A x \in Exchanges :
        Reply[x] # NoExchange =>
            /\ outbound[Reply[x]] # "unsent" => inbound[x] = "handled"
            /\ outbound[Reply[x]] # "dialing"

IInv ==
    /\ TypeOK
    /\ HandlerRuns
    /\ SentOnConnection
    /\ AnsweredWasTaken
    /\ ReplyBehindHandler

\* Every refused message is one that read_request refuses.
RefusedIsUnreadable == \A x \in Exchanges : inbound[x] = "refused" => ~Readable(x)

\* The pair of x was disturbed by a refused message of its own, or by a dead loop.
Excused(x) ==
    \/ \E y \in Exchanges : inbound[y] = "refused" /\ Pair(y) = Pair(x)
    \/ \E g \in Pair(x) : ~Alive(g)

\* In a star without faults, what went wrong goes back to a refused message: a
\* request that has no excuse has the address of its receiver, and a response that
\* has none a connection.
Excuses ==
    /\ (\E g \in Gateways : ~Alive(g)) \/ (\E x \in Exchanges : channel[x] = "closed")
          => \E y \in Exchanges : inbound[y] = "refused"
    /\ \A x \in Exchanges : outbound[x] = "failed" => Excused(x)
    /\ \A x \in Exchanges :
          \/ Excused(x)
          \/ ListenAddress(To[x]) \in book[From[x]]
          \/ \E y \in Exchanges : Reply[y] = x
    /\ \A x \in Exchanges : inbound[x] = "answering" => Pair(x) \in conn \/ Excused(x)

\* Gateways that lost their connection do not know each other's address.
PartedForgotten ==
    /\ parted \subseteq {{g, h} : g, h \in Gateways}
    /\ parted \cap conn = {}
    /\ \A g, h \in Gateways : {g, h} \in parted => ListenAddress(h) \notin book[g]

HistoryIInv ==
    /\ IInv
    /\ RefusedIsUnreadable
    /\ PartedForgotten
    /\ Star /\ ~faulty => Excuses

\* Every action keeps the types and keeps a loop in one handler.
LEMMA NextIInv == IInv /\ [Next]_vars => IInv'
<1> SUFFICES ASSUME IInv, [Next]_vars PROVE IInv'
  OBVIOUS
<1> USE ExchangeType, NoneAssumption
    DEF IInv, TypeOK, OutboundStates, InboundStates, ChannelStates, Alive, LoopIdle
<1>1. ASSUME NEW g \in Gateways, NEW h \in Gateways, Established(g, h) PROVE IInv'
  <2>1. TypeOK'
    <3>1. conn' \subseteq {{a, b} : a, b \in Gateways}
      BY <1>1 DEF Established
    <3>2. book' \in [Gateways -> SUBSET Addresses]
      BY <1>1 DEF Established, Addresses, ListenAddress, SourceAddress
    <3>3. /\ outbound' \in [Exchanges -> OutboundStates]
          /\ inbound' \in [Exchanges -> InboundStates]
      BY <1>1 DEF Established
    <3>4. \A x \in Exchanges : \A s \in {"handling", "answering"} :
             inbound'[x] = s <=> inbound[x] = s
      BY <1>1 DEF Established, SentOnConnection
    <3> QED
      BY <1>1, <3>1, <3>2, <3>3, <3>4 DEF Established
  <2>2. HandlerRuns'
    BY <1>1, ReplyFacts
    DEF Established, HandlerRuns, SentOnConnection, AnsweredWasTaken,
        ReplyBehindHandler, AckFirst
  <2>3. SentOnConnection'
    BY <1>1, ReplyFacts
    DEF Established, HandlerRuns, SentOnConnection, AnsweredWasTaken,
        ReplyBehindHandler, AckFirst
  <2>4. AnsweredWasTaken'
    BY <1>1, ReplyFacts
    DEF Established, HandlerRuns, SentOnConnection, AnsweredWasTaken,
        ReplyBehindHandler, AckFirst
  <2>5. ReplyBehindHandler'
    BY <1>1, ReplyFacts
    DEF Established, HandlerRuns, SentOnConnection, AnsweredWasTaken,
        ReplyBehindHandler, AckFirst
  <2> QED
    BY <2>1, <2>2, <2>3, <2>4, <2>5
<1>2. ASSUME NEW g \in Gateways, NEW h \in Gateways, DialFails(g, h) PROVE IInv'
  BY <1>2, ReplyFacts
  DEF DialFails, FailDials, HandlerRuns, SentOnConnection, AnsweredWasTaken,
      ReplyBehindHandler, AckFirst
<1>3. ASSUME NEW g \in Gateways, NEW h \in Gateways, DialTimesOut(g, h) PROVE IInv'
  BY <1>3, ReplyFacts
  DEF DialTimesOut, FailDials, HandlerRuns, SentOnConnection, AnsweredWasTaken,
      ReplyBehindHandler, AckFirst
<1>4. ASSUME NEW x \in Exchanges, Command(x) PROVE IInv'
  BY <1>4, ReplyFacts
  DEF Command, SendRequest, HandlerRuns, SentOnConnection, AnsweredWasTaken,
      ReplyBehindHandler, AckFirst
<1>5. ASSUME NEW x \in Exchanges, AckArrives(x) PROVE IInv'
  BY <1>5, ReplyFacts
  DEF AckArrives, HandlerRuns, SentOnConnection, AnsweredWasTaken,
      ReplyBehindHandler, AckFirst
<1>6. ASSUME NEW x \in Exchanges, Read(x) PROVE IInv'
  BY <1>6, ReplyFacts
  DEF Read, HandlerRuns, SentOnConnection, AnsweredWasTaken, ReplyBehindHandler,
      AckFirst
<1>7. ASSUME NEW x \in Exchanges, ReadFails(x) PROVE IInv'
  BY <1>7, ReplyFacts
  DEF ReadFails, CloseAll, Forget, FailOn, LostOn, HandlerRuns, SentOnConnection,
      AnsweredWasTaken, ReplyBehindHandler, AckFirst
<1>8. ASSUME NEW x \in Exchanges, Dispatch(x) PROVE IInv'
  BY <1>8, ReplyFacts
  DEF Dispatch, HandlerRuns, SentOnConnection, AnsweredWasTaken,
      ReplyBehindHandler, AckFirst
<1>9. ASSUME NEW x \in Exchanges, DispatchPanics(x) PROVE IInv'
  BY <1>9, ReplyFacts
  DEF DispatchPanics, LoopDies, CloseAll, Forget, FailOn, HandlerRuns,
      SentOnConnection, AnsweredWasTaken, ReplyBehindHandler, AckFirst
<1>10. ASSUME NEW x \in Exchanges, Acknowledge(x) PROVE IInv'
  BY <1>10, ReplyFacts
  DEF Acknowledge, HandlerRuns, SentOnConnection, AnsweredWasTaken,
      ReplyBehindHandler, AckFirst
<1>11. ASSUME NEW x \in Exchanges, Finish(x) PROVE IInv'
  <2>1. CASE Reply[x] = NoExchange
    BY <1>11, <2>1, ReplyFacts
    DEF Finish, HandlerRuns, SentOnConnection, AnsweredWasTaken, ReplyBehindHandler, AckFirst
  <2>2. CASE Reply[x] # NoExchange
    <3> DEFINE y == Reply[x]
    <3>1. /\ y \in Exchanges /\ y # x /\ Pair(y) = Pair(x) /\ Schema[x] = 0 /\ Schema[y] # 0
          /\ \A z \in Exchanges : Reply[z] = y => z = x
      BY <2>2, ReplyFacts
    <3>2. inbound[x] = "answering" /\ To[x] \in Gateways /\ busy[To[x]] = x
      BY <1>11, <3>1 DEF Finish, AckFirst
    <3>3. outbound[y] = "unsent" /\ inbound[y] = "none"
      BY <2>2, <3>1, <3>2 DEF SentOnConnection, ReplyBehindHandler
    <3>4. /\ busy' = [busy EXCEPT ![To[x]] = NoExchange]
          /\ UNCHANGED <<net, conn, book, channel>>
          /\ \/ /\ Pair(y) \in conn
                /\ outbound' = [outbound EXCEPT ![y] = "sent"]
                /\ inbound' = [inbound EXCEPT ![x] = "handled", ![y] = "transit"]
             \/ /\ outbound' = [outbound EXCEPT ![y] = "failed"]
                /\ inbound' = [inbound EXCEPT ![x] = "handled"]
      BY <1>11, <2>2, <3>3 DEF Finish, SendRequest
    <3> HIDE DEF y
    <3>5. TypeOK'
      <4>1. /\ outbound' \in [Exchanges -> OutboundStates]
            /\ inbound' \in [Exchanges -> InboundStates]
        BY <3>1, <3>4
      <4>2. /\ busy' \in [Gateways -> Exchanges \cup {NoExchange}]
            /\ channel' \in [Exchanges -> ChannelStates]
        BY <3>4
      <4>3. ASSUME NEW z \in Exchanges, net'[To[z]] = "running"
            PROVE  inbound'[z] \in {"handling", "answering"} <=> busy'[To[z]] = z
        BY <3>1, <3>2, <3>3, <3>4, <4>3
      <4>4. net' = net /\ conn' = conn /\ book' = book
        BY <3>4
      <4> QED
        BY <4>1, <4>2, <4>3, <4>4
    <3>6. HandlerRuns'
      BY <3>1, <3>2, <3>3, <3>4 DEF HandlerRuns
    <3>7. SentOnConnection'
      BY <3>1, <3>2, <3>3, <3>4 DEF SentOnConnection
    <3>8. AnsweredWasTaken'
      BY <3>1, <3>2, <3>3, <3>4 DEF AnsweredWasTaken, y
    <3>9. ReplyBehindHandler'
      BY <3>1, <3>2, <3>3, <3>4 DEF ReplyBehindHandler, y
    <3> QED
      BY <3>5, <3>6, <3>7, <3>8, <3>9
  <2> QED
    BY <2>1, <2>2
<1>12. ASSUME NEW x \in Exchanges, AcknowledgePanics(x) PROVE IInv'
  BY <1>12, ReplyFacts
  DEF AcknowledgePanics, LoopDies, CloseAll, Forget, FailOn, HandlerRuns,
      SentOnConnection, AnsweredWasTaken, ReplyBehindHandler, AckFirst
<1>13. ASSUME NEW p \in conn, ConnectionBreaks(p) PROVE IInv'
  BY <1>13, ReplyFacts
  DEF ConnectionBreaks, CloseAll, Forget, FailOn, LostOn, HandlerRuns,
      SentOnConnection, AnsweredWasTaken, ReplyBehindHandler, AckFirst
<1>14. ASSUME NEW x \in Exchanges, SenderTimeout(x) PROVE IInv'
  BY <1>14, ReplyFacts
  DEF SenderTimeout, HandlerRuns, SentOnConnection, AnsweredWasTaken,
      ReplyBehindHandler, AckFirst
<1>15. ASSUME NEW x \in Exchanges, ReceiverTimeout(x) PROVE IInv'
  BY <1>15, ReplyFacts
  DEF ReceiverTimeout, HandlerRuns, SentOnConnection, AnsweredWasTaken,
      ReplyBehindHandler, AckFirst
<1>16. ASSUME NEW g \in Gateways, Crash(g) PROVE IInv'
  BY <1>16, ReplyFacts
  DEF Crash, LoopDies, CloseAll, Forget, FailOn, HandlerRuns, SentOnConnection,
      AnsweredWasTaken, ReplyBehindHandler, AckFirst
<1>17. CASE UNCHANGED vars
  BY <1>17
  DEF vars, HandlerRuns, SentOnConnection, AnsweredWasTaken, ReplyBehindHandler
<1>18. QED
  BY <1>1, <1>2, <1>3, <1>4, <1>5, <1>6, <1>7, <1>8, <1>9, <1>10, <1>11, <1>12,
     <1>13, <1>14, <1>15, <1>16, <1>17
  DEF Next, Protocol, Disturbance

\* The invariant holds in every reachable state.
LEMMA Invariance == Spec => []IInv
<1>1. Init => IInv
  BY InitTypeOK, ReplyFacts, ExchangeType
  DEF Init, IInv, HandlerRuns, SentOnConnection, AnsweredWasTaken, ReplyBehindHandler
<1> QED
  BY <1>1, NextIInv, PTL DEF Spec

\* The variables keep their types, and a loop is in one handler at a time.
THEOREM TypeCorrect == Spec => []TypeOK
BY Invariance, PTL DEF IInv

\* An acknowledged message was taken, an acknowledged request handled and, unless
\* the loop is between the two sends or died there, its response sent.
THEOREM AcksHonest == Spec => []AckedWasTaken
<1>1. IInv => AckedWasTaken
  BY ExchangeType DEF IInv, TypeOK, Alive, AnsweredWasTaken, AckedWasTaken
<1> QED
  BY <1>1, Invariance, PTL

-----------------------------------------------------------------------------
(* The protocol implements LossyWire. *)

\* Status by cases.
StatusMeans(x) ==
    /\ Status(x) \in {"unsent", "taken", "wire", "lost"}
    /\ Status(x) = "unsent" <=> outbound[x] = "unsent"
    /\ Status(x) = "taken" <=> inbound[x] \in {"handling", "answering", "handled"}
    /\ Status(x) = "wire" <=> inbound[x] \in {"transit", "queued"} \/ outbound[x] = "dialing"
    /\ Status(x) = "lost" <=> \/ inbound[x] \in {"refused", "late", "gone"}
                              \/ inbound[x] = "none" /\ outbound[x] = "failed"

LEMMA StatusFacts == IInv => \A x \in Exchanges : StatusMeans(x)
BY
DEF StatusMeans, Status, IInv, TypeOK, SentOnConnection, OutboundStates,
    InboundStates

\* A step that changes no status except from "wire" to "lost".
LEMMA LoseStep ==
    ASSUME \A x \in Exchanges :
               \/ Status(x)' = Status(x)
               \/ Status(x) = "wire" /\ Status(x)' = "lost"
    PROVE  Wire!Next
<1> DEFINE S == {x \in Exchanges : Status(x)' # Status(x)}
<1>1. S \in SUBSET Exchanges
  OBVIOUS
<1>2. Wire!Lose(S)
  BY DEF Wire!Lose
<1> QED
  BY <1>1, <1>2 DEF Wire!Next

\* Every step is a step of LossyWire.
LEMMA StepSimulation ==
    ASSUME IInv, [Next]_vars
    PROVE  Wire!Next
<1> DEFINE Loses == \A x \in Exchanges :
                        \/ Status(x)' = Status(x)
                        \/ Status(x) = "wire" /\ Status(x)' = "lost"
<1>0. IInv'
  BY NextIInv
<1>1. \A x \in Exchanges : StatusMeans(x) /\ StatusMeans(x)'
  <2>1. (IInv => \A x \in Exchanges : StatusMeans(x))'
    BY StatusFacts, PTL
  <2> QED
    BY <1>0, <2>1, StatusFacts
<1> USE <1>1 DEF StatusMeans, IInv, TypeOK, HandlerRuns, SentOnConnection
<1>2. ASSUME NEW g \in Gateways, NEW h \in Gateways, Established(g, h) PROVE Loses
  BY <1>2 DEF Established
<1>3. ASSUME NEW g \in Gateways, NEW h \in Gateways, DialFails(g, h) PROVE Loses
  BY <1>3 DEF DialFails, FailDials
<1>4. ASSUME NEW g \in Gateways, NEW h \in Gateways, DialTimesOut(g, h) PROVE Loses
  BY <1>4 DEF DialTimesOut, FailDials
<1>5. ASSUME NEW x \in Exchanges, AckArrives(x) PROVE Loses
  BY <1>5 DEF AckArrives
<1>6. ASSUME NEW x \in Exchanges, Read(x) PROVE Loses
  BY <1>6 DEF Read
<1>7. ASSUME NEW x \in Exchanges, ReadFails(x) PROVE Loses
  <2> SUFFICES ASSUME NEW y \in Exchanges
               PROVE  \/ Status(y)' = Status(y)
                      \/ Status(y) = "wire" /\ Status(y)' = "lost"
    OBVIOUS
  <2>1. /\ outbound'[y] \in {outbound[y], "failed"}
        /\ outbound'[y] # outbound[y] => outbound[y] = "sent"
    BY <1>7 DEF ReadFails, FailOn
  <2>2. /\ inbound'[y] \in {inbound[y], "gone", "refused"}
        /\ inbound'[y] # inbound[y] => inbound[y] = "transit"
    BY <1>7 DEF ReadFails, LostOn
  <2> QED
    BY <2>1, <2>2
<1>8. ASSUME NEW x \in Exchanges, DispatchPanics(x) PROVE Loses
  BY <1>8 DEF DispatchPanics, LoopDies, FailOn
<1>9. ASSUME NEW x \in Exchanges, AcknowledgePanics(x) PROVE Loses
  BY <1>9, ExchangeType DEF AcknowledgePanics, LoopDies, FailOn
<1>10. ASSUME NEW p \in conn, ConnectionBreaks(p) PROVE Loses
  BY <1>10 DEF ConnectionBreaks, FailOn, LostOn
<1>11. ASSUME NEW x \in Exchanges, SenderTimeout(x) PROVE Loses
  BY <1>11 DEF SenderTimeout
<1>12. ASSUME NEW x \in Exchanges, ReceiverTimeout(x) PROVE Loses
  BY <1>12 DEF ReceiverTimeout
<1>13. ASSUME NEW g \in Gateways, Crash(g) PROVE Loses
  BY <1>13 DEF Crash, LoopDies, FailOn
<1>18. ASSUME NEW x \in Exchanges, Acknowledge(x) PROVE Loses
  BY <1>18 DEF Acknowledge
\* A command is sent, or waits for a connection.
<1>14. ASSUME NEW x \in Exchanges, Command(x) PROVE Wire!Send(x)
  <2>1. Status(x) = "unsent"
    BY <1>14 DEF Command
  <2>2. Status(x)' = "wire"
    BY <1>14 DEF Command, SendRequest
  <2>3. \A y \in Exchanges \ {x} : Status(y)' = Status(y)
    BY <1>14 DEF Command, SendRequest
  <2>4. \A y \in Exchanges : Reply[y] # x
    BY <1>14 DEF Command
  <2> QED
    BY <2>1, <2>2, <2>3, <2>4 DEF Wire!Send
<1>15. ASSUME NEW x \in Exchanges, Dispatch(x) PROVE Wire!Take(x)
  <2>1. Status(x) = "wire" /\ Status(x)' = "taken"
    BY <1>15 DEF Dispatch
  <2>2. \A y \in Exchanges \ {x} : Status(y)' = Status(y)
    BY <1>15 DEF Dispatch
  <2> QED
    BY <2>1, <2>2 DEF Wire!Take
\* The end of a handler sends the response, if there is one.
<1>16. ASSUME NEW x \in Exchanges, Finish(x) PROVE Wire!Next
  <2>1. inbound[x] \in {"handling", "answering"} /\ outbound[x] # "unsent"
    BY <1>16, ExchangeType DEF Finish
  <2>2. CASE Reply[x] = NoExchange
    <3>1. Loses
      BY <1>16, <2>1, <2>2 DEF Finish
    <3> QED
      BY <3>1, LoseStep
  <2>3. CASE Reply[x] # NoExchange
    <3> DEFINE r == Reply[x]
    <3>1. r \in Exchanges /\ r # x /\ \A y \in Exchanges : Reply[y] = r => y = x
      BY <2>3, ExchangeType, ReplyFacts
    <3>2. outbound[r] = "unsent" /\ inbound[r] = "none"
      BY <2>1, <2>3, <3>1 DEF ReplyBehindHandler
    <3>3. Status(r) = "unsent" /\ Status(r)' \in {"wire", "lost"}
      BY <1>16, <2>3, <3>1, <3>2 DEF Finish, SendRequest
    <3>4. Status(x) = "taken"
      BY <2>1
    <3>5. ASSUME NEW y \in Exchanges \ {r} PROVE Status(y)' = Status(y)
      <4>1. outbound'[y] = outbound[y]
        BY <1>16, <2>3, <3>1 DEF Finish, SendRequest
      <4>2. \/ inbound'[y] = inbound[y]
            \/ inbound[y] \in {"handling", "answering"} /\ inbound'[y] = "handled"
        BY <1>16, <2>1, <2>3, <3>1 DEF Finish, SendRequest
      <4> QED
        BY <4>1, <4>2
    <3> HIDE DEF r
    <3>6. \A y \in Exchanges : Reply[y] = r => Status(y) = "taken"
      BY <3>1, <3>4
    <3>7. ASSUME Status(r)' = "wire" PROVE Wire!Send(r)
      BY ONLY <3>1, <3>3, <3>5, <3>6, <3>7 DEF Wire!Send
    <3>8. ASSUME Status(r)' = "lost" PROVE Wire!Send(r)
      BY ONLY <3>1, <3>3, <3>5, <3>6, <3>8 DEF Wire!Send
    <3> QED
      BY <3>1, <3>3, <3>7, <3>8 DEF Wire!Next
  <2> QED
    BY <2>2, <2>3
<1>17. CASE UNCHANGED vars
  <2>1. Loses
    BY <1>17 DEF vars
  <2> QED
    BY <2>1, LoseStep
<1> QED
  BY <1>2, <1>3, <1>4, <1>5, <1>6, <1>7, <1>8, <1>9, <1>10, <1>11, <1>12, <1>13,
     <1>14, <1>15, <1>16, <1>17, <1>18, LoseStep
  DEF Next, Protocol, Disturbance, Wire!Next

\* The protocol is the network that the other modules assume: whatever breaks,
\* times out or dies, a message is taken at most once, and a response is sent
\* only behind a handled request.
THEOREM Refinement == Spec => ImplementsWire
<1>1. Init => Wire!Init
  BY DEF Init, Wire!Init, Status
<1>2. IInv /\ [Next]_vars => Wire!Next
  BY StepSimulation
<1> QED
  BY <1>1, <1>2, Invariance, PTL DEF Spec, ImplementsWire, Wire!Spec

-----------------------------------------------------------------------------
(* What the history shows. *)

\* With its history the protocol takes the same steps.
LEMMA HistoryStep == [HistoryNext]_historyVars => [Next]_vars
BY DEF HistoryNext, historyVars, Next, vars

\* No step makes a listening address known: a connection is only made where one
\* is, and a step that closes a connection removes it.
LEMMA AddressesOnlyLost ==
    ASSUME TypeOK, [Next]_vars
    PROVE  /\ \A g, h \in Gateways :
                 {g, h} \in conn' \ conn =>
                     ListenAddress(h) \in book[g] \/ ListenAddress(g) \in book[h]
           /\ \A g, h \in Gateways :
                 ListenAddress(h) \in book'[g] =>
                     ListenAddress(h) \in book[g] /\ {g, h} \notin conn \ conn'
<1> DEFINE NoneMade == \A a, b \in Gateways :
               {a, b} \in conn' \ conn =>
                   ListenAddress(b) \in book[a] \/ ListenAddress(a) \in book[b]
           NoneLearnt == \A a, b \in Gateways :
               ListenAddress(b) \in book'[a] =>
                   ListenAddress(b) \in book[a] /\ {a, b} \notin conn \ conn'
<1>1. ASSUME NEW g \in Gateways, NEW h \in Gateways, Established(g, h)
      PROVE  NoneMade /\ NoneLearnt
  <2>1. NoneMade
    BY <1>1 DEF Established
  <2>2. NoneLearnt
    BY <1>1 DEF Established, TypeOK, ListenAddress, SourceAddress
  <2> QED
    BY <2>1, <2>2
<1>2. ASSUME NEW pairs, CloseAll(pairs) PROVE NoneMade /\ NoneLearnt
  BY <1>2 DEF CloseAll, Forget, TypeOK, ListenAddress
<1>3. ASSUME UNCHANGED <<conn, book>> PROVE NoneMade /\ NoneLearnt
  BY <1>3
<1>4. ASSUME NEW x \in Exchanges, ReadFails(x) \/ DispatchPanics(x) \/ AcknowledgePanics(x)
      PROVE  NoneMade /\ NoneLearnt
  BY <1>2, <1>4 DEF ReadFails, DispatchPanics, AcknowledgePanics, LoopDies
<1>5. ASSUME NEW x \in Exchanges,
             \/ Command(x) \/ AckArrives(x) \/ Read(x) \/ Dispatch(x)
             \/ Acknowledge(x) \/ Finish(x) \/ SenderTimeout(x) \/ ReceiverTimeout(x)
      PROVE  NoneMade /\ NoneLearnt
  BY <1>3, <1>5
  DEF Command, AckArrives, Read, Dispatch, Acknowledge, Finish, SenderTimeout,
      ReceiverTimeout
<1>6. ASSUME NEW g \in Gateways, NEW h \in Gateways, DialFails(g, h) \/ DialTimesOut(g, h)
      PROVE  NoneMade /\ NoneLearnt
  BY <1>3, <1>6 DEF DialFails, DialTimesOut, FailDials
<1>7. ASSUME NEW p \in conn, ConnectionBreaks(p) PROVE NoneMade /\ NoneLearnt
  BY <1>2, <1>7 DEF ConnectionBreaks
<1>8. ASSUME NEW g \in Gateways, Crash(g) PROVE NoneMade /\ NoneLearnt
  BY <1>2, <1>8 DEF Crash, LoopDies
<1>9. CASE UNCHANGED vars
  BY <1>3, <1>9 DEF vars
<1> QED
  BY <1>1, <1>4, <1>5, <1>6, <1>7, <1>8, <1>9 DEF Next, Protocol, Disturbance

\* A pair that was parted stays without an address and without a connection.
LEMMA PartedStaysForgotten ==
    ASSUME TypeOK, TypeOK', PartedForgotten, [HistoryNext]_historyVars
    PROVE  PartedForgotten'
<1>1. [Next]_vars
  BY HistoryStep
<1>2. parted' = parted \cup (conn \ conn') \/ (parted' = parted /\ conn' = conn)
  BY DEF HistoryNext, historyVars, vars
<1>3. parted' \subseteq {{g, h} : g, h \in Gateways}
  BY <1>2 DEF PartedForgotten, TypeOK
<1>4. \A g, h \in Gateways : {g, h} \in parted' => ListenAddress(h) \notin book'[g]
  BY <1>1, <1>2, AddressesOnlyLost DEF PartedForgotten
<1>5. ASSUME NEW g \in Gateways, NEW h \in Gateways, {g, h} \in parted'
      PROVE  {g, h} \notin conn'
  <2>1. {g, h} = {h, g}
    OBVIOUS
  <2>2. CASE {g, h} \in parted
    <3>1. ListenAddress(h) \notin book[g] /\ ListenAddress(g) \notin book[h]
      BY <2>1, <2>2 DEF PartedForgotten
    <3>2. {g, h} \notin conn
      BY <2>2 DEF PartedForgotten
    <3> QED
      BY <1>1, <3>1, <3>2, AddressesOnlyLost
  <2> QED
    BY <1>2, <1>5, <2>2
<1> QED
  BY <1>3, <1>4, <1>5 DEF PartedForgotten

\* A refused message stays refused, a dead loop dead, and only what read_request
\* refuses becomes refused.
LEMMA RefusedForEver ==
    ASSUME IInv, [Next]_vars
    PROVE  /\ \A x \in Exchanges : inbound[x] = "refused" => inbound'[x] = "refused"
           /\ \A g \in Gateways : ~Alive(g) => ~Alive(g)'
           /\ \A x \in Exchanges :
                 inbound'[x] = "refused" => inbound[x] = "refused" \/ ~Readable(x)
<1> USE ExchangeType, ReplyFacts, NoneAssumption
    DEF IInv, TypeOK, HandlerRuns, SentOnConnection, ReplyBehindHandler, Alive
<1> DEFINE Kept == /\ \A x \in Exchanges : inbound[x] = "refused" => inbound'[x] = "refused"
                   /\ \A g \in Gateways : ~Alive(g) => ~Alive(g)'
                   /\ \A x \in Exchanges :
                         inbound'[x] = "refused" => inbound[x] = "refused" \/ ~Readable(x)
<1>1. ASSUME NEW g \in Gateways, NEW h \in Gateways,
             Established(g, h) \/ DialFails(g, h) \/ DialTimesOut(g, h)
      PROVE  Kept
  BY <1>1 DEF Established, DialFails, DialTimesOut, FailDials
<1>2. ASSUME NEW x \in Exchanges, Command(x) \/ AckArrives(x) \/ SenderTimeout(x) PROVE Kept
  BY <1>2 DEF Command, SendRequest, AckArrives, SenderTimeout
<1>3. ASSUME NEW x \in Exchanges, Read(x) \/ Dispatch(x) \/ ReceiverTimeout(x) PROVE Kept
  BY <1>3 DEF Read, Dispatch, ReceiverTimeout
<1>4. ASSUME NEW x \in Exchanges, ReadFails(x) PROVE Kept
  BY <1>4 DEF ReadFails, LostOn
<1>5. ASSUME NEW x \in Exchanges, Acknowledge(x) \/ Finish(x) PROVE Kept
  BY <1>5 DEF Acknowledge, Finish, SendRequest
<1>6. ASSUME NEW x \in Exchanges, DispatchPanics(x) \/ AcknowledgePanics(x) PROVE Kept
  BY <1>6 DEF DispatchPanics, AcknowledgePanics, LoopDies
<1>7. ASSUME NEW p \in conn, ConnectionBreaks(p) PROVE Kept
  BY <1>7 DEF ConnectionBreaks, LostOn
<1>8. ASSUME NEW g \in Gateways, Crash(g) PROVE Kept
  BY <1>8 DEF Crash, LoopDies
<1>9. CASE UNCHANGED vars
  BY <1>9 DEF vars
<1> QED
  BY <1>1, <1>2, <1>3, <1>4, <1>5, <1>6, <1>7, <1>8, <1>9
  DEF Next, Protocol, Disturbance

\* An excuse lasts.
LEMMA ExcusedForEver ==
    ASSUME IInv, [Next]_vars, NEW x \in Exchanges, Excused(x)
    PROVE  Excused(x)'
<1>1. CASE \E y \in Exchanges : inbound[y] = "refused" /\ Pair(y) = Pair(x)
  BY <1>1, RefusedForEver DEF Excused
<1>2. CASE \E g \in Pair(x) : ~Alive(g)
  BY <1>2, RefusedForEver, ExchangeType DEF Excused, Pair
<1> QED
  BY <1>1, <1>2 DEF Excused

\* In a star every exchange is between two gateways, and a request is sent to the
\* peer of the option --peer.
LEMMA StarFacts ==
    ASSUME Star
    PROVE  \A x \in Exchanges :
               /\ From[x] # To[x]
               /\ Bootstrap[From[x]] = To[x] \/ \E y \in Exchanges : Reply[y] = x
<1>1. ASSUME NEW x \in Exchanges, NEW y \in Exchanges, Reply[y] = x PROVE From[x] # To[x]
  <2>1. From[x] = To[y] /\ To[x] = From[y] /\ Schema[y] = 0
    BY <1>1, ReplyFacts, NoneAssumption
  <2>2. \A z \in Exchanges : Reply[z] # y
    BY <2>1, ReplyFacts, NoneAssumption
  <2> QED
    BY <2>1, <2>2 DEF Star
<1> QED
  BY <1>1 DEF Star

\* Without faults every step of the protocol leaves what went wrong excused.
LEMMA ExcusesLast ==
    ASSUME IInv, Star, Excuses, Protocol
    PROVE  Excuses'
<1>1. [Next]_vars /\ IInv'
  BY NextIInv DEF Next
<1> USE ExchangeType, PairType, NoneAssumption DEF IInv, TypeOK, Alive
<1> DEFINE Trouble == \E y \in Exchanges : inbound[y] = "refused"
           Bad == \/ \E g \in Gateways : ~Alive(g)
                  \/ \E x \in Exchanges : channel[x] = "closed"
           Known(x) == \/ ListenAddress(To[x]) \in book[From[x]]
                       \/ \E y \in Exchanges : Reply[y] = x
           Calm == /\ UNCHANGED net
                   /\ \A x \in Exchanges : channel'[x] = "closed" => channel[x] = "closed"
           Fails(x) == outbound[x] # "failed" /\ outbound'[x] = "failed"
           Forgets(x) == /\ ListenAddress(To[x]) \in book[From[x]]
                         /\ ListenAddress(To[x]) \notin book'[From[x]]
           Parts(x) == /\ Pair(x) \notin conn'
                       /\ inbound'[x] = "answering"
                       /\ inbound[x] = "answering" => Pair(x) \in conn
\* What each kind of step has to show.
<1>2. ASSUME Calm \/ Trouble \/ Trouble',
             \A x \in Exchanges : Fails(x) \/ Forgets(x) \/ Parts(x) => Excused(x)'
      PROVE  Excuses'
  <2>1. Trouble => Trouble'
    BY <1>1, RefusedForEver
  <2>2. Bad' => Trouble'
    BY <1>2, <2>1 DEF Excuses
  <2>3. \A x \in Exchanges : Excused(x) => Excused(x)'
    BY <1>1, ExcusedForEver
  <2>4. \A x \in Exchanges : outbound'[x] = "failed" => Excused(x)'
    BY <1>2, <2>3 DEF Excuses
  <2>5. \A x \in Exchanges : Excused(x)' \/ Known(x)'
    BY <1>2, <2>3 DEF Excuses
  <2>6. \A x \in Exchanges :
           inbound'[x] = "answering" => Pair(x) \in conn' \/ Excused(x)'
    BY <1>2, <2>3 DEF Excuses
  <2> QED
    BY <2>2, <2>4, <2>5, <2>6 DEF Excuses
\* A step that fails nothing and forgets nothing.
<1>3. ASSUME Calm,
             \A g \in Gateways : book[g] \subseteq book'[g],
             \A x \in Exchanges : outbound'[x] = "failed" => outbound[x] = "failed",
             conn \subseteq conn',
             \A x \in Exchanges :
                 inbound'[x] = "answering" => inbound[x] = "answering" \/ Pair(x) \in conn
      PROVE  Excuses'
  BY <1>2, <1>3
<1>4. ASSUME NEW g \in Gateways, NEW h \in Gateways, Established(g, h) PROVE Excuses'
  <2>1. \A a \in Gateways : book[a] \subseteq book'[a]
    BY <1>4 DEF Established
  <2> QED
    BY <1>3, <1>4, <2>1 DEF Established
<1>5. ASSUME NEW g \in Gateways, NEW h \in Gateways, DialFails(g, h) PROVE Excuses'
  <2>1. ASSUME NEW x \in Exchanges, Fails(x) PROVE Excused(x)
    <3>1. outbound[x] = "dialing" /\ From[x] = g /\ To[x] = h
      BY <1>5, <2>1 DEF DialFails, FailDials
    <3>2. \A y \in Exchanges : Reply[y] # x
      BY <3>1 DEF ReplyBehindHandler
    <3>3. g # h
      BY <3>1, StarFacts
    <3>4. CASE ListenAddress(h) \notin book[g]
      BY <3>1, <3>2, <3>4 DEF Excuses
    <3>5. CASE ~Alive(h)
      BY <3>1, <3>5 DEF Excused
    <3> QED
      BY <1>5, <3>3, <3>4, <3>5 DEF DialFails
  <2>2. UNCHANGED <<net, conn, book, inbound, channel>>
    BY <1>5 DEF DialFails, FailDials
  <2> QED
    BY <1>1, <1>2, <2>1, <2>2, ExcusedForEver
<1>6. ASSUME NEW x \in Exchanges,
             Command(x) \/ AckArrives(x) \/ Read(x) \/ Dispatch(x) \/ Acknowledge(x)
      PROVE  Excuses'
  BY <1>3, <1>6
  DEF Command, SendRequest, AckArrives, Read, Dispatch, Acknowledge, SentOnConnection
\* A response without a connection.
<1>10. ASSUME NEW x \in Exchanges, Finish(x) PROVE Excuses'
  <2>1. ASSUME NEW y \in Exchanges, Fails(y) PROVE Excused(y)
    <3>1. Reply[x] = y /\ Pair(y) \notin conn
      BY <1>10, <2>1 DEF Finish, SendRequest
    <3>2. inbound[x] = "answering" /\ Pair(y) = Pair(x)
      BY <1>10, <3>1, ReplyFacts DEF Finish, AckFirst
    <3> QED
      BY <3>1, <3>2 DEF Excuses, Excused
  <2>2. UNCHANGED <<net, conn, book, channel>>
    BY <1>10 DEF Finish
  <2>3. \A y \in Exchanges : ~Parts(y)
    BY <1>10, <2>2 DEF Finish, SendRequest
  <2> QED
    BY <1>1, <1>2, <2>1, <2>2, <2>3, ExcusedForEver
<1>7. ASSUME NEW x \in Exchanges, ReadFails(x) PROVE Excuses'
  <2>1. inbound'[x] = "refused"
    BY <1>7 DEF ReadFails, LostOn
  <2>2. ASSUME NEW y \in Exchanges, Fails(y) \/ Forgets(y) \/ Parts(y) PROVE Pair(y) = Pair(x)
    <3>1. CASE Fails(y) \/ Forgets(y)
      BY <1>7, <3>1 DEF ReadFails, FailOn, CloseAll, Forget, ListenAddress, Pair
    <3>2. CASE Parts(y)
      <4>1. inbound[y] = "answering"
        BY <1>7, <3>2 DEF ReadFails, LostOn
      <4> QED
        BY <1>7, <3>2, <4>1 DEF ReadFails, CloseAll
    <3> QED
      BY <2>2, <3>1, <3>2
  <2>3. \A y \in Exchanges : Fails(y) \/ Forgets(y) \/ Parts(y) => Excused(y)'
    BY <2>1, <2>2 DEF Excused
  <2> QED
    BY <1>2, <2>1, <2>3
\* A loop that dies of a closed channel.
<1>8. ASSUME NEW g \in Gateways, NEW in, LoopDies(g, in), Bad,
             \A y \in Exchanges : in[y] = "answering" => inbound[y] = "answering"
      PROVE  Excuses'
  <2>1. Trouble /\ ~Alive(g)'
    BY <1>8 DEF Excuses, LoopDies
  <2>2. ASSUME NEW y \in Exchanges, Fails(y) \/ Forgets(y) \/ Parts(y) PROVE g \in Pair(y)
    <3>1. CASE Fails(y) \/ Forgets(y)
      BY <1>8, <3>1 DEF LoopDies, FailOn, CloseAll, Forget, ListenAddress, Pair
    <3>2. CASE Parts(y)
      <4>1. inbound[y] = "answering"
        BY <1>8, <3>2 DEF LoopDies
      <4> QED
        BY <1>8, <3>2, <4>1 DEF LoopDies, CloseAll
    <3> QED
      BY <2>2, <3>1, <3>2
  <2>3. \A y \in Exchanges : Fails(y) \/ Forgets(y) \/ Parts(y) => Excused(y)'
    BY <2>1, <2>2 DEF Excused
  <2> QED
    BY <1>2, <2>1, <2>3
<1>9. ASSUME NEW x \in Exchanges, DispatchPanics(x) \/ AcknowledgePanics(x) PROVE Excuses'
  <2> DEFINE panicked(s) == [inbound EXCEPT ![x] = s]
  <2>1. \A s \in {"late", "handled"} : \A y \in Exchanges :
           panicked(s)[y] = "answering" => inbound[y] = "answering"
    OBVIOUS
  <2>2. Bad /\ \E s \in {"late", "handled"} : LoopDies(To[x], panicked(s))
    BY <1>9 DEF DispatchPanics, AcknowledgePanics
  <2> HIDE DEF panicked
  <2> QED
    BY <1>8, <2>1, <2>2
<1> QED
  BY <1>4, <1>5, <1>6, <1>7, <1>9, <1>10 DEF Protocol

\* The invariant with the history holds in every reachable state.
LEMMA HistoryInvariance == HistorySpec => []HistoryIInv
<1>1. HistoryInit => HistoryIInv
  <2> SUFFICES ASSUME HistoryInit PROVE HistoryIInv
    OBVIOUS
  <2>1. IInv
    BY InitTypeOK, ReplyFacts, ExchangeType
    DEF HistoryInit, Init, IInv, HandlerRuns, SentOnConnection, AnsweredWasTaken,
        ReplyBehindHandler
  <2>2. RefusedIsUnreadable /\ PartedForgotten
    BY DEF HistoryInit, Init, RefusedIsUnreadable, PartedForgotten
  <2>3. Star => Excuses
    <3> SUFFICES ASSUME Star PROVE Excuses
      OBVIOUS
    <3>1. \A x \in Exchanges :
             ListenAddress(To[x]) \in book[From[x]] \/ \E y \in Exchanges : Reply[y] = x
      BY StarFacts, ExchangeType, NoneAssumption DEF HistoryInit, Init
    <3> QED
      BY <3>1 DEF HistoryInit, Init, Excuses, Alive
  <2> QED
    BY <2>1, <2>2, <2>3 DEF HistoryIInv
<1>2. HistoryIInv /\ [HistoryNext]_historyVars => HistoryIInv'
  <2> SUFFICES ASSUME HistoryIInv, [HistoryNext]_historyVars PROVE HistoryIInv'
    OBVIOUS
  <2>1. [Next]_vars /\ IInv /\ IInv'
    BY HistoryStep, NextIInv DEF HistoryIInv
  <2>2. RefusedIsUnreadable'
    BY <2>1, RefusedForEver DEF HistoryIInv, RefusedIsUnreadable, Readable
  <2>3. PartedForgotten'
    BY <2>1, PartedStaysForgotten DEF HistoryIInv, IInv
  <2>4. ASSUME Star, ~faulty' PROVE Excuses'
    <3>1. CASE Protocol /\ UNCHANGED faulty
      BY <2>1, <2>4, <3>1, ExcusesLast DEF HistoryIInv
    <3>2. CASE UNCHANGED historyVars
      BY <2>4, <3>2 DEF HistoryIInv, historyVars, vars, Excuses, Excused, Alive
    <3> QED
      BY <2>4, <3>1, <3>2 DEF HistoryNext
  <2> QED
    BY <2>1, <2>2, <2>3, <2>4 DEF HistoryIInv, Star
<1> QED
  BY <1>1, <1>2, PTL DEF HistorySpec

\* Two gateways that lost their connection never get it back.
THEOREM PartedForEver == HistorySpec => []LostForGood
<1>1. HistoryIInv => LostForGood
  BY DEF HistoryIInv, PartedForgotten, LostForGood
<1> QED
  BY <1>1, HistoryInvariance, PTL

\* In a star, where nothing broke, timed out or crashed, whatever failed goes
\* back to a message that read_request refuses.
THEOREM FailuresExplained == Star => (HistorySpec => []FailureExplained)
<1> SUFFICES ASSUME Star PROVE HistorySpec => []FailureExplained
  OBVIOUS
<1>1. ASSUME HistoryIInv, ~faulty
      PROVE  LET refused == {x \in Exchanges : inbound[x] = "refused"}
                 tooLarge == {x \in refused : Size[x] > MaxSize \/ Size[x] = 0}
             IN  /\ refused = tooLarge
                 /\ \A g \in Gateways : ~Alive(g) => tooLarge # {}
                 /\ \A x \in Exchanges :
                       outbound[x] = "failed" =>
                           \E y \in tooLarge :
                               Pair(y) = Pair(x) \/ \E g \in Pair(x) : ~Alive(g)
  <2> DEFINE refused == {x \in Exchanges : inbound[x] = "refused"}
             tooLarge == {x \in refused : Size[x] > MaxSize \/ Size[x] = 0}
  <2>1. refused = tooLarge
    BY <1>1, ExchangesAssumption DEF HistoryIInv, RefusedIsUnreadable, Readable
  <2>2. \A g \in Gateways : ~Alive(g) => refused # {}
    BY <1>1 DEF HistoryIInv, Excuses
  <2>3. ASSUME NEW x \in Exchanges, outbound[x] = "failed"
        PROVE  \E y \in refused : Pair(y) = Pair(x) \/ \E g \in Pair(x) : ~Alive(g)
    <3>1. Excused(x)
      BY <1>1, <2>3 DEF HistoryIInv, Excuses
    <3>2. CASE \E g \in Pair(x) : ~Alive(g)
      <4>1. refused # {}
        BY <2>2, <3>2, ExchangeType DEF Pair
      <4> QED
        BY <3>2, <4>1
    <3> QED
      BY <3>1, <3>2 DEF Excused
  <2> QED
    BY <2>1, <2>2, <2>3
<1>2. HistoryIInv => FailureExplained
  BY <1>1 DEF FailureExplained
<1> QED
  BY <1>2, HistoryInvariance, PTL
=============================================================================
