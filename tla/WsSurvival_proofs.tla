-------------------------- MODULE WsSurvival_proofs --------------------------
(***************************************************************************)
(* Proof that neither a network loop nor the loop of main fails in the     *)
(* deployment in which the code works: all users at one client gateway,    *)
(* services that the provider knows, messages in order, and no faults but  *)
(* users that leave and services that end the connection.                  *)
(***************************************************************************)
EXTENDS WsOrder_proofs

Deployed ==
    /\ \A s, t \in Sessions : ClientOf[s] = ClientOf[t]
    /\ Offered = Sessions
    /\ Ordered
    /\ Faults \subseteq {"leave", "end"}

\* Every loop runs, and no actor has panicked with the guard.
Healthy ==
    /\ \A g \in Gateways : Alive(g) /\ ~poisoned[g]
    /\ MainAlive

\* The loop that put an event into the slot waits until main has taken it.
Handover == event # NoEvent => waiting[Provider].at = "event"

\* The connection request of s has arrived, in main or before it.
Arrived(s) == event = Connect(s) \/ (main.at = "connecting" /\ main.by = s) \/ s \in addresses

\* It was sent.
Gone(s) == OnWire(Msg(0, s, 0)) \/ Arrived(s)

Requesting == {"idle", "locking", "pushUsage", "flushUsage", "flushRequest"}

\* The connection request of a session goes before its frames.
RequestFirst ==
    /\ \A s \in Sessions :
          /\ pc[s] \notin Requesting => Gone(s)
          /\ pc[s] = "flushRequest" => cmd[ClientOf[s]] = RequestCmd(s) \/ Gone(s)
    /\ \A s \in Sessions, n \in Frames :
          /\ Pushed(s, n) => Gone(s)
          /\ \A j \in DOMAIN wire[Provider] :
                wire[Provider][j] = Msg(1, s, n) =>
                    \/ Arrived(s)
                    \/ \E i \in DOMAIN wire[Provider] : i < j /\ wire[Provider][i] = Msg(0, s, 0)
          /\ event = Data(s, n) => (main.at = "connecting" /\ main.by = s) \/ s \in addresses

\* The frames of a service go to the gateway of its user, which knows the session.
BackHome ==
    /\ \A s \in Sessions :
          \/ main.at = "connecting" \/ addresses # {} \/ frames # <<>>
          => peer = ClientOf[s]
    /\ mainCmd # NoMainCmd => mainCmd.to = ClientOf[mainCmd.by]
    /\ \A s \in Sessions, n \in Frames :
          Queued(s, n) \/ Forwarded(s, n) \/ Returned(s, n) => pc[s] # "idle"
    /\ \A g \in Gateways : \A i \in DOMAIN wire[g] :
          wire[g][i].schema = 2 => ClientOf[wire[g][i].by] = g

SInv == IInv /\ ToProvider /\ Healthy /\ Handover /\ RequestFirst /\ BackHome

-----------------------------------------------------------------------------
(* What can happen. *)

\* The steps that are left.
Peaceful ==
    \/ \E s \in Sessions :
          \/ Open(s) \/ Frame(s) \/ Leave(s) \/ Lock(s) \/ Start(s) \/ PushFrame(s) \/ Unlock(s)
          \/ Receive(s) \/ ServiceFrame(s) \/ End(s)
    \/ \E g \in Gateways : TakeUsage(g) \/ TakeFromActor(g)
    \/ \E i \in DOMAIN wire[Provider] : HandleConnect(i) \/ HandleFrame(i)
    \/ \E g \in Gateways : \E i \in DOMAIN wire[g] : Deliver(g, i)
    \/ TakeFromMain \/ EventTaken
    \/ MainTakesConnect \/ Connected \/ MainTakesFrame \/ MainForwards \/ MainForwarded
    \/ UNCHANGED vars

\* Nothing panics, nothing is lost.
LEMMA AllPeaceful ==
    ASSUME Deployed, SInv, [Next]_vars
    PROVE  Peaceful
<1>0. /\ TypeOK /\ \A g \in Gateways : Alive(g) /\ ~poisoned[g]
      /\ MainAlive /\ Provider \in Gateways
      /\ "loss" \notin Faults /\ "refuse" \notin Faults
      /\ "contract" \notin Faults /\ "ack" \notin Faults
  BY ProviderAssumption DEF SInv, IInv, Types, Healthy, Deployed
<1>1. ASSUME NEW s \in Sessions PROVE ~LockPanics(s) /\ ~PushPanics(s)
  BY <1>0, SessionType DEF LockPanics, AcquireFails, PushPanics
<1>2. ASSUME NEW g \in Gateways PROVE ~ContractPanics(g)
  BY <1>0 DEF ContractPanics
<1>3. ASSUME NEW s \in Sessions PROVE ~AckFails(ClientOf[s])
  BY <1>0, SessionType DEF AckFails
<1>4. ASSUME NEW i \in DOMAIN wire[Provider] PROVE ~ConnectPanics(i) /\ ~FramePanics(i)
  <2>1. wire[Provider][i].by \in Sessions
    BY <1>0, RemovalTypes, MessageFacts
  <2> QED
    BY <1>0, <1>3, <2>1 DEF ConnectPanics, FramePanics, Deployed
<1>5. ~ConnectAckPanics
  <2>1. ASSUME ConnectAckPanics PROVE waiting[Provider].by \in Sessions
    BY <1>0, <2>1 DEF ConnectAckPanics, TypeOK, Waits
  <2> QED
    BY <1>3, <2>1 DEF ConnectAckPanics
<1>6. ASSUME NEW g \in Gateways, NEW i \in DOMAIN wire[g] PROVE ~DeliverPanics(g, i) /\ ~Lose(g, i)
  <2>1. ASSUME DeliverPanics(g, i) PROVE FALSE
    <3>1. wire[g][i] \in Messages /\ wire[g][i].schema = 2
      BY <1>0, <2>1, RemovalTypes DEF DeliverPanics, Takes
    <3>2. PICK s \in Sessions, n \in Frames : wire[g][i] = Msg(2, s, n)
      BY <3>1, MessageFacts
    <3>3. Returned(s, n) /\ wire[g][i].by = s
      BY <3>2, MessageFacts DEF Returned, OnWire
    <3>4. ClientOf[s] = g /\ pc[s] # "idle"
      BY <3>1, <3>3 DEF SInv, BackHome
    <3> QED
      BY <1>0, <2>1, <3>3, <3>4 DEF DeliverPanics, Registered, AckFails
  <2> QED
    BY <1>0, <2>1 DEF Lose
<1>7. ~ConnectRefused /\ ~ForwardPanics
  BY <1>0 DEF ConnectRefused, ForwardPanics
<1>8. ~AddressPanics
  <2>1. ASSUME AddressPanics PROVE FALSE
    <3>1. event.kind = "data" /\ main.at = "select" /\ event.by \notin addresses
      BY <2>1 DEF AddressPanics, Select
    <3>2. event \in Events
      BY <1>0, <3>1, EventFacts DEF TypeOK
    <3>3. PICK s \in Sessions, n \in Frames : event = Data(s, n)
      BY <3>1, <3>2, EventFacts
    <3> QED
      BY <3>1, <3>3, EventFacts DEF SInv, RequestFirst
  <2> QED
    BY <2>1
<1> QED
  BY <1>1, <1>2, <1>4, <1>5, <1>6, <1>7, <1>8
     DEF Peaceful, Next, ActorStep, TakeCommand, HandleMessage, ProviderLoop, MainStep

\* Every loop goes on.
LEMMA NextHealthy == Healthy /\ Peaceful => Healthy'
<1> SUFFICES ASSUME Healthy, Peaceful PROVE Healthy'
  OBVIOUS
<1>1. UNCHANGED <<poisoned, net>>
  BY
  DEF Peaceful, vars, busVars, Open, Frame, Leave, Lock, Start, PushFrame,
      PushesTo, Unlock,
         Receive, ServiceFrame, End, TakeUsage, TakeFromActor, Pop, HandleConnect, HandleFrame,
         Deliver, TakeFromMain, EventTaken, MainTakesConnect, Connected, MainTakesFrame,
         MainForwards, MainForwarded
<1>2. ASSUME MainTakesConnect \/ Connected \/ MainForwards \/ MainForwarded
      PROVE  main'.at \in {"select", "connecting", "sending"}
  BY <1>2 DEF MainTakesConnect, Connected, MainForwards, MainForwarded, Select
<1>3. UNCHANGED main \/ MainTakesConnect \/ Connected \/ MainForwards \/ MainForwarded
  BY
  DEF Peaceful, vars, peerVars, mainVars, Open, Frame, Leave, Lock, Start,
      PushFrame, PushesTo,
         Unlock, Receive, ServiceFrame, End, TakeUsage, TakeFromActor, HandleConnect, HandleFrame,
         Deliver, TakeFromMain, EventTaken, MainTakesFrame
<1> QED
  BY <1>1, <1>2, <1>3 DEF Healthy, Alive, MainAlive

\* The Provider's loop takes a message only when main has taken the event.
LEMMA NextHandover == TypeOK /\ Handover /\ Peaceful => Handover'
<1> SUFFICES ASSUME TypeOK, Handover, Peaceful PROVE Handover'
  OBVIOUS
<1>0. waiting \in [Gateways -> Waits] /\ Provider \in Gateways
  BY ProviderAssumption DEF TypeOK
<1>1. ASSUME NEW i, HandleConnect(i) \/ HandleFrame(i) PROVE Handover'
  BY <1>0, <1>1 DEF Handover, HandleConnect, HandleFrame, EventOf
<1>2. ASSUME NEW g \in Gateways, NEW i \in DOMAIN wire[g], Deliver(g, i) PROVE Handover'
  BY <1>0, <1>2, WaitFacts DEF Handover, Deliver, Takes, LoopIdle
<1>3. ASSUME NEW s \in Sessions, Receive(s) PROVE Handover'
  BY <1>0, <1>3, SessionType DEF Handover, Receive, mainVars
<1>4. CASE EventTaken
  BY <1>4 DEF Handover, EventTaken
<1>5. CASE MainTakesConnect \/ MainTakesFrame
  BY <1>5 DEF Handover, MainTakesConnect, MainTakesFrame
<1>6. CASE UNCHANGED <<event, waiting>>
  BY <1>6 DEF Handover
<1> QED
  BY <1>1, <1>2, <1>3, <1>4, <1>5, <1>6
     DEF Peaceful, vars, peerVars, mainVars, Open, Frame, Leave, Lock, Start, PushFrame, PushesTo,
         Unlock, ServiceFrame, End, TakeUsage, TakeFromActor, TakeFromMain, Connected,
         MainForwards, MainForwarded

-----------------------------------------------------------------------------
(* The connection request goes first. *)

\* What was on its way and is not taken stays there, behind what was before it.
LEMMA KeptByTake ==
    ASSUME TypeOK, NEW g \in Gateways, NEW i \in DOMAIN wire[g], Removes(g, i),
           NEW h \in Gateways, NEW l \in DOMAIN wire[h], h # g \/ l # i
    PROVE  \E j \in DOMAIN wire'[h] :
              /\ wire'[h][j] = wire[h][l]
              /\ j = IF h = g /\ i < l THEN l - 1 ELSE l
<1>1. /\ wire[g] \in Seq(Messages) /\ i \in 1..Len(wire[g]) /\ Len(wire[g]) \in Nat
      /\ wire[h] \in Seq(Messages) /\ l \in 1..Len(wire[h]) /\ Len(wire[h]) \in Nat
  BY WirePlaces
<1>2. CASE h # g
  <2>1. wire'[h] = wire[h]
    BY <1>2 DEF TypeOK, Removes
  <2> QED
    BY <1>2, <2>1
<1>3. CASE h = g
  <2>1. wire'[h] = RemoveAt(wire[g], i)
    BY <1>3 DEF TypeOK, Removes
  <2>2. /\ RemoveAt(wire[g], i) \in Seq(Messages)
        /\ Len(RemoveAt(wire[g], i)) = Len(wire[g]) - 1
    BY <1>1, RemoveAtFacts
  <2>3. DOMAIN wire'[h] = 1..(Len(wire[g]) - 1)
    BY <2>1, <2>2, LenProperties
  <2>4. \A j \in 1..(Len(wire[g]) - 1) :
           wire'[h][j] = IF j < i THEN wire[g][j] ELSE wire[g][j + 1]
    BY <1>1, <2>1, RemoveAtFacts
  <2>5. CASE i < l
    <3>1. l - 1 \in 1..(Len(wire[g]) - 1) /\ ~(l - 1 < i) /\ (l - 1) + 1 = l
      BY <1>1, <1>3, <2>5
    <3>2. wire'[h][l - 1] = wire[h][l]
      BY <1>3, <2>4, <3>1
    <3> QED
      BY <1>3, <2>3, <2>5, <3>1, <3>2
  <2>6. CASE ~(i < l)
    <3>1. l \in 1..(Len(wire[g]) - 1) /\ l < i
      BY <1>1, <1>3, <2>6
    <3>2. wire'[h][l] = wire[h][l]
      BY <1>3, <2>4, <3>1
    <3> QED
      BY <1>3, <2>3, <2>6, <3>1, <3>2
  <2> QED
    BY <2>5, <2>6
<1> QED
  BY <1>2, <1>3

\* What was on its way stays where it is when another message is sent.
LEMMA KeptBySend ==
    ASSUME TypeOK, NEW to \in Gateways, NEW k \in Messages, Send(to, k)
    PROVE  /\ \A h \in Gateways : \A l \in DOMAIN wire[h] :
                 l \in DOMAIN wire'[h] /\ wire'[h][l] = wire[h][l]
           /\ \E j \in DOMAIN wire'[to] : wire'[to][j] = k
<1>1. /\ wire[to] \in Seq(Messages) /\ wire' = [wire EXCEPT ![to] = Append(wire[to], k)]
      /\ wire'[to] = Append(wire[to], k)
  BY DEF Send, TypeOK
<1>2. /\ Len(wire[to]) \in Nat
      /\ DOMAIN wire[to] = 1..Len(wire[to])
      /\ DOMAIN wire'[to] = 1..(Len(wire[to]) + 1)
      /\ \A j \in 1..Len(wire[to]) : wire'[to][j] = wire[to][j]
      /\ wire'[to][Len(wire[to]) + 1] = k
  BY <1>1, AppendProperties, LenProperties
<1>3. \A h \in Gateways : h # to => wire'[h] = wire[h]
  BY <1>1 DEF TypeOK
<1>4. ASSUME NEW h \in Gateways, NEW l \in DOMAIN wire[h]
      PROVE  l \in DOMAIN wire'[h] /\ wire'[h][l] = wire[h][l]
  BY <1>2, <1>3
<1>5. Len(wire[to]) + 1 \in DOMAIN wire'[to]
  BY <1>2
<1> QED
  BY <1>2, <1>4, <1>5

\* What a step does to the messages on their way.
LEMMA WireCases ==
    ASSUME TypeOK, Peaceful
    PROVE  \/ UNCHANGED wire
           \/ \E i \in DOMAIN wire[Provider] :
                 Removes(Provider, i) /\ HandleConnect(i) /\ wire[Provider][i].schema = 0
           \/ \E i \in DOMAIN wire[Provider] :
                 Removes(Provider, i) /\ HandleFrame(i) /\ wire[Provider][i].schema = 1
           \/ \E g \in Gateways : \E i \in DOMAIN wire[g] :
                 Removes(g, i) /\ wire[g][i].schema = 2 /\ Deliver(g, i)
           \/ \E g \in Gateways : \E s \in Sessions :
                 TakeFromActor(g) /\ cmd[g] = RequestCmd(s) /\ Send(Provider, Msg(0, s, 0))
           \/ \E g \in Gateways : \E s \in Sessions, n \in Frames :
                 TakeFromActor(g) /\ cmd[g] = FrameCmd(s, n) /\ Send(Provider, Msg(1, s, n))
           \/ /\ TakeFromMain /\ mainCmd \in MainCommands
              /\ Send(mainCmd.to, Msg(2, mainCmd.by, mainCmd.n))
<1>1. ASSUME NEW i, HandleConnect(i)
      PROVE  Removes(Provider, i) /\ wire[Provider][i].schema = 0
  BY <1>1 DEF HandleConnect, Takes, Removes
<1>2. ASSUME NEW i, HandleFrame(i)
      PROVE  Removes(Provider, i) /\ wire[Provider][i].schema = 1
  BY <1>2 DEF HandleFrame, Takes, Removes
<1>3. ASSUME NEW g, NEW i, Deliver(g, i) PROVE Removes(g, i) /\ wire[g][i].schema = 2
  BY <1>3 DEF Deliver, Takes, Removes
<1>4. ASSUME NEW g \in Gateways, TakeFromActor(g)
      PROVE  \/ \E s \in Sessions : cmd[g] = RequestCmd(s) /\ Send(Provider, Msg(0, s, 0))
             \/ \E s \in Sessions, n \in Frames :
                   cmd[g] = FrameCmd(s, n) /\ Send(Provider, Msg(1, s, n))
  <2>1. cmd[g] \in Commands
    BY <1>4 DEF TakeFromActor, Pop, SlotFree, TypeOK
  <2>2. CASE cmd[g].kind = "SendRequest" /\ Send(Provider, Msg(0, cmd[g].by, 0))
    BY <2>1, <2>2, CommandFacts
  <2>3. CASE cmd[g].kind = "SendProxyData" /\ Send(Provider, Msg(1, cmd[g].by, cmd[g].n))
    BY <2>1, <2>3, CommandFacts
  <2> QED
    BY <1>4, <2>2, <2>3 DEF TakeFromActor
<1>5. ASSUME TakeFromMain
      PROVE  mainCmd \in MainCommands /\ Send(mainCmd.to, Msg(2, mainCmd.by, mainCmd.n))
  BY <1>5 DEF TakeFromMain, TypeOK
<1>6. ASSUME NEW s \in Sessions,
             \/ Open(s) \/ Frame(s) \/ Leave(s) \/ Lock(s) \/ Start(s) \/ PushFrame(s) \/ Unlock(s)
             \/ Receive(s) \/ ServiceFrame(s) \/ End(s)
      PROVE  UNCHANGED wire
  BY <1>6
  DEF peerVars, Open, Frame, Leave, Lock, Start, PushFrame, PushesTo, Unlock,
      Receive,
              ServiceFrame, End
<1>7. ASSUME \/ \E g \in Gateways : TakeUsage(g)
             \/ EventTaken \/ MainTakesConnect \/ Connected \/ MainTakesFrame \/ MainForwards
             \/ MainForwarded \/ UNCHANGED vars
      PROVE  UNCHANGED wire
  BY <1>7
  DEF vars, TakeUsage, EventTaken, MainTakesConnect, Connected, MainTakesFrame,
              MainForwards, MainForwarded
<1> QED
  BY <1>1, <1>2, <1>3, <1>4, <1>5, <1>6, <1>7 DEF Peaceful

\* A connection request that has arrived stays known.
LEMMA ArrivedForEver ==
    ASSUME TypeOK, Handover, Peaceful, NEW s \in Sessions, Arrived(s)
    PROVE  Arrived(s)'
<1>1. ASSUME NEW i, HandleConnect(i) \/ HandleFrame(i) PROVE Arrived(s)'
  <2>1. waiting[Provider] = Idle
    BY <1>1 DEF HandleConnect, HandleFrame, Takes, LoopIdle
  <2>2. event = NoEvent
    BY <2>1, WaitFacts DEF Handover
  <2>3. (main.at = "connecting" /\ main.by = s) \/ s \in addresses
    BY <2>2, EventFacts DEF Arrived, NoEvent, Connect
  <2> QED
    BY <1>1, <2>3 DEF HandleConnect, HandleFrame, mainVars, Arrived
<1>2. CASE MainTakesConnect
  BY <1>2, EventFacts DEF MainTakesConnect, Arrived, Select, Connect
<1>3. CASE Connected
  BY <1>3 DEF Connected, Arrived, Connect
<1>4. CASE MainTakesFrame
  BY <1>4, EventFacts DEF MainTakesFrame, Arrived, Select, Connect
<1>5. CASE MainForwards
  BY <1>5 DEF MainForwards, Arrived, Select, Connect
<1>6. CASE MainForwarded
  BY <1>6 DEF MainForwarded, Arrived, Select, Connect
<1>7. CASE UNCHANGED <<event, main, addresses>>
  BY <1>7 DEF Arrived, Connect
<1> QED
  BY <1>1, <1>2, <1>3, <1>4, <1>5, <1>6, <1>7
     DEF Peaceful, vars, peerVars, mainVars, Open, Frame, Leave, Lock, Start, PushFrame, PushesTo,
         Unlock, Receive, ServiceFrame, End, TakeUsage, TakeFromActor, TakeFromMain, Deliver,
         EventTaken

\* A connection request on its way stays there until it arrives.
LEMMA GoneForEver ==
    ASSUME TypeOK, Handover, Peaceful, NEW s \in Sessions, Gone(s)
    PROVE  Gone(s)'
<1>1. CASE Arrived(s)
  BY <1>1, ArrivedForEver DEF Gone
<1>2. ASSUME NEW h \in Gateways, NEW l \in DOMAIN wire[h], wire[h][l] = Msg(0, s, 0)
      PROVE  Gone(s)'
  <2>0. PICK m : m = Msg(0, s, 0)
    OBVIOUS
  <2>1. m.schema = 0 /\ m.by = s /\ wire[h][l] = m
    BY <1>2, <2>0, MessageFacts
  <2>2. SUFFICES ASSUME ~Arrived(s)' PROVE \E j \in DOMAIN wire'[h] : wire'[h][j] = m
    BY <2>0 DEF Gone, OnWire, Msg
  <2>3. ASSUME NEW i \in DOMAIN wire[Provider], Removes(Provider, i), HandleConnect(i)
        PROVE  \E j \in DOMAIN wire'[h] : wire'[h][j] = m
    <3>1. event' = Connect(wire[Provider][i].by)
      BY <2>3 DEF HandleConnect
    <3>2. wire[Provider][i].by # s
      BY <2>2, <3>1 DEF Arrived, Connect
    <3> QED
      BY <2>1, <2>3, <3>2, KeptByTake, ProviderAssumption
  <2>4. ASSUME NEW g \in Gateways, NEW i \in DOMAIN wire[g], Removes(g, i),
               wire[g][i].schema # 0
        PROVE  \E j \in DOMAIN wire'[h] : wire'[h][j] = m
    BY <2>1, <2>4, KeptByTake
  <2>5. ASSUME NEW to \in Gateways, NEW k \in Messages, Send(to, k)
        PROVE  \E j \in DOMAIN wire'[h] : wire'[h][j] = m
    BY <2>1, <2>5, KeptBySend
  <2> QED
    BY <2>1, <2>3, <2>4, <2>5, WireCases, MessageFacts, ProviderAssumption
    DEF MainCommands
<1> QED
  BY <1>1, <1>2 DEF Gone, OnWire

\* A session leaves started() only when its request has gone.
LEMMA RequestGoes ==
    ASSUME TypeOK, Handover, RequestFirst, Peaceful, NEW s \in Sessions
    PROVE  /\ pc'[s] \notin Requesting => Gone(s)'
           /\ pc'[s] = "flushRequest" => cmd'[ClientOf[s]] = RequestCmd(s) \/ Gone(s)'
<1> DEFINE g == ClientOf[s]
<1> SUFFICES ASSUME ~Gone(s)'
             PROVE  /\ pc'[s] \in Requesting
                    /\ pc'[s] = "flushRequest" => cmd'[g] = RequestCmd(s)
  OBVIOUS
<1>0. /\ pc \in [Sessions -> PcStates] /\ cmd \in [Gateways -> Commands \cup {NoCmd}]
      /\ g \in Gateways
  BY SessionType DEF TypeOK
<1>1. /\ pc[s] \in Requesting
      /\ pc[s] = "flushRequest" => cmd[g] = RequestCmd(s)
  BY GoneForEver DEF RequestFirst
<1> HIDE DEF g
<1>2. cmd[g] = RequestCmd(s) => cmd[g] # NoCmd /\ cmd[g].kind = "SendRequest"
  BY CommandFacts
<1>3. CASE Start(s)
  <2>1. CASE PushesTo(s, "pushUsage", UsageCmd(s), "flushUsage")
    BY <1>0, <2>1 DEF PushesTo, Goto, Requesting
  <2>2. CASE PushesTo(s, "flushUsage", RequestCmd(s), "flushRequest")
    BY <1>0, <2>2 DEF PushesTo, Push, Goto, Requesting, g
  <2> QED
    BY <1>3, <2>1, <2>2 DEF Start
<1>4. CASE Open(s) \/ Lock(s)
  BY <1>0, <1>1, <1>4 DEF Open, Lock, Goto, Requesting
<1>5. CASE Unlock(s)
  BY <1>1, <1>2, <1>5 DEF Unlock, SlotFree, Requesting, g
<1>6. CASE Frame(s) \/ Leave(s) \/ PushFrame(s)
  BY <1>1, <1>6 DEF Frame, Leave, PushFrame, PushesTo, Requesting
<1>7. ASSUME NEW t \in Sessions, t # s,
             Open(t) \/ Frame(t) \/ Lock(t) \/ Leave(t) \/ Unlock(t)
      PROVE  pc'[s] = pc[s] /\ cmd' = cmd
  BY <1>0, <1>7 DEF Open, Frame, Lock, Leave, Unlock, Goto, busVars
<1>8. ASSUME NEW t \in Sessions, t # s, Start(t) \/ PushFrame(t)
      PROVE  pc'[s] = pc[s] /\ (cmd[g] # NoCmd => cmd'[g] = cmd[g])
  <2>1. ASSUME NEW from, NEW c, NEW to, PushesTo(t, from, c, to)
        PROVE  pc'[s] = pc[s] /\ (cmd[g] # NoCmd => cmd'[g] = cmd[g])
    BY <1>0, <1>8, <2>1 DEF PushesTo, Push, SlotFree, Goto
  <2> QED
    BY <1>8, <2>1 DEF Start, PushFrame
<1>9. ASSUME NEW t \in Sessions, Receive(t) PROVE pc'[s] = pc[s] /\ cmd' = cmd
  BY <1>0, <1>1, <1>9 DEF Receive, Requesting, busVars
<1>10. ASSUME NEW h \in Gateways, TakeUsage(h)
       PROVE  pc' = pc /\ (pc[s] = "flushRequest" => cmd'[g] = cmd[g])
  BY <1>0, <1>1, <1>2, <1>10 DEF TakeUsage, Pop
<1>11. ASSUME NEW h \in Gateways, TakeFromActor(h)
       PROVE  pc' = pc /\ (pc[s] = "flushRequest" => cmd'[g] = cmd[g])
  <2>1. pc' = pc /\ cmd' = [cmd EXCEPT ![h] = NoCmd]
    BY <1>11 DEF TakeFromActor, Pop, clientVars
  <2>2. ASSUME pc[s] = "flushRequest", h = g PROVE FALSE
    <3>1. cmd[h] = RequestCmd(s)
      BY <1>1, <2>2
    <3>2. Send(Provider, Msg(0, s, 0))
      BY <1>11, <3>1, CommandFacts DEF TakeFromActor
    <3>3. \E j \in DOMAIN wire'[Provider] : wire'[Provider][j] = Msg(0, s, 0)
      BY <3>2, KeptBySend, MessageFacts, ProviderAssumption
    <3> QED
      BY <3>3, ProviderAssumption DEF Gone, OnWire, Msg
  <2> QED
    BY <1>0, <2>1, <2>2
<1>12. CASE pc' = pc /\ cmd' = cmd
  BY <1>1, <1>12
<1>13. ASSUME NEW t \in Sessions, ServiceFrame(t) \/ End(t) PROVE pc' = pc /\ cmd' = cmd
  BY <1>13 DEF ServiceFrame, End, busVars, clientVars
<1>14. ASSUME NEW i, HandleConnect(i) \/ HandleFrame(i) PROVE pc' = pc /\ cmd' = cmd
  BY <1>14 DEF HandleConnect, HandleFrame, busVars, clientVars
<1>15. ASSUME NEW h, NEW i, Deliver(h, i) PROVE pc' = pc /\ cmd' = cmd
  BY <1>15 DEF Deliver, busVars, clientVars
<1>16. CASE \/ TakeFromMain \/ EventTaken \/ MainTakesConnect \/ Connected \/ MainTakesFrame
            \/ MainForwards \/ MainForwarded \/ UNCHANGED vars
  BY <1>12, <1>16
  DEF TakeFromMain, EventTaken, MainTakesConnect, Connected, MainTakesFrame,
         MainForwards, MainForwarded, vars, busVars, clientVars
<1>17. CASE pc'[s] = pc[s] /\ (pc[s] = "flushRequest" => cmd'[g] = cmd[g])
  BY <1>1, <1>17
<1>18. ASSUME NEW t \in Sessions,
              \/ Open(t) \/ Frame(t) \/ Leave(t) \/ Lock(t) \/ Start(t) \/ PushFrame(t)
              \/ Unlock(t) \/ Receive(t) \/ ServiceFrame(t) \/ End(t)
       PROVE  pc'[s] \in Requesting /\ (pc'[s] = "flushRequest" => cmd'[g] = RequestCmd(s))
  BY <1>1, <1>2, <1>3, <1>4, <1>5, <1>6, <1>7, <1>8, <1>9, <1>12, <1>13, <1>17,
     <1>18
<1> QED
  BY <1>10, <1>11, <1>12, <1>14, <1>15, <1>16, <1>17, <1>18 DEF Peaceful, g

\* A frame that is on its way to the provider follows the request.
LEMMA RequestBefore ==
    ASSUME TypeOK, TypeOK', Handover, ToProvider, RequestFirst, Peaceful,
           NEW s \in Sessions, NEW n \in Frames,
           NEW j \in DOMAIN wire'[Provider], wire'[Provider][j] = Msg(1, s, n)
    PROVE  \/ Arrived(s)'
           \/ \E i \in DOMAIN wire'[Provider] : i < j /\ wire'[Provider][i] = Msg(0, s, 0)
<1> SUFFICES ASSUME ~Arrived(s)'
             PROVE  \E i \in DOMAIN wire'[Provider] : i < j /\ wire'[Provider][i] = Msg(0, s, 0)
  OBVIOUS
<1>0. Provider \in Gateways /\ ~Arrived(s) /\ Msg(1, s, n).schema = 1 /\ Msg(0, s, 0).schema = 0
  BY ArrivedForEver, MessageFacts, ProviderAssumption
<1>1. ASSUME NEW l \in DOMAIN wire[Provider], wire[Provider][l] = Msg(1, s, n)
      PROVE  \E k \in DOMAIN wire[Provider] : k < l /\ wire[Provider][k] = Msg(0, s, 0)
  BY <1>0, <1>1 DEF RequestFirst
<1>2. CASE UNCHANGED wire
  BY <1>1, <1>2
<1>3. ASSUME NEW g \in Gateways, NEW i \in DOMAIN wire[g], Removes(g, i),
             wire[g][i].schema # 0 \/ (g = Provider /\ HandleConnect(i))
      PROVE  \E k \in DOMAIN wire'[Provider] : k < j /\ wire'[Provider][k] = Msg(0, s, 0)
  <2>1. PICK l \in DOMAIN wire[Provider] :
           /\ wire'[Provider][j] = wire[Provider][l]
           /\ Provider = g => l # i /\ l = (IF j < i THEN j ELSE j + 1)
           /\ Provider # g => l = j
    BY <1>0, <1>3, AfterTake
  <2>2. PICK k \in DOMAIN wire[Provider] : k < l /\ wire[Provider][k] = Msg(0, s, 0)
    BY <1>1, <2>1
  <2>3. Provider # g \/ k # i
    <3>1. ASSUME Provider = g, k = i PROVE FALSE
      <4>1. event' = Connect(wire[g][i].by) /\ wire[g][i].by = s
        BY <1>0, <1>3, <2>2, <3>1, MessageFacts DEF HandleConnect
      <4> QED
        BY <4>1 DEF Arrived, Connect
    <3> QED
      BY <3>1
  <2>4. PICK m \in DOMAIN wire'[Provider] :
           /\ wire'[Provider][m] = wire[Provider][k]
           /\ m = IF Provider = g /\ i < k THEN k - 1 ELSE k
    BY <1>0, <1>3, <2>3, KeptByTake
  <2>5. i \in Nat /\ j \in Nat /\ k \in Nat /\ l \in Nat
    BY <1>0, <1>3, WirePlaces, WirePlacesNext
  <2>6. m < j
    BY <2>1, <2>2, <2>3, <2>4, <2>5
  <2> QED
    BY <2>2, <2>4, <2>6
<1>4. ASSUME NEW to \in Gateways, NEW k \in Messages, Send(to, k),
             k.schema = 1 => \E t \in Sessions, a \in Frames : k = Msg(1, t, a) /\ Pushed(t, a)
      PROVE  \E i \in DOMAIN wire'[Provider] : i < j /\ wire'[Provider][i] = Msg(0, s, 0)
  <2>1. \A i \in DOMAIN wire[Provider] :
           i \in DOMAIN wire'[Provider] /\ wire'[Provider][i] = wire[Provider][i]
    BY <1>0, <1>4, KeptBySend
  <2>2. CASE j \in DOMAIN wire[Provider] /\ wire'[Provider][j] = wire[Provider][j]
    BY <1>1, <2>1, <2>2
  <2>3. CASE Provider = to /\ j = Len(wire[to]) + 1 /\ wire'[Provider][j] = k
    <3>1. Pushed(s, n)
      BY <1>0, <1>4, <2>3, MessageFacts
    <3>2. OnWire(Msg(0, s, 0))
      BY <1>0, <3>1 DEF RequestFirst, Gone
    <3>3. PICK h \in Gateways : \E i \in DOMAIN wire[h] : wire[h][i] = Msg(0, s, 0)
      BY <3>2 DEF OnWire
    <3>4. PICK i \in DOMAIN wire[h] : wire[h][i] = Msg(0, s, 0)
      BY <3>3
    <3>5. h = Provider
      BY <1>0, <3>4 DEF ToProvider
    <3>6. i < j
      BY <1>0, <2>3, <3>5, WirePlaces
    <3> QED
      BY <2>1, <3>4, <3>5, <3>6
  <2> QED
    BY <1>0, <1>4, <2>2, <2>3, SendPlaces
<1>5. ASSUME NEW g \in Gateways, NEW t \in Sessions, NEW a \in Frames, cmd[g] = FrameCmd(t, a)
      PROVE  Pushed(t, a)
  BY <1>5 DEF Pushed
<1> QED
  BY <1>0, <1>2, <1>3, <1>4, <1>5, WireCases, MessageFacts DEF MainCommands

\* A frame that is handed to main finds its connection.
LEMMA FrameFinds ==
    ASSUME Ordered, TypeOK, Handover, RequestFirst, Peaceful,
           NEW s \in Sessions, NEW n \in Frames, event' = Data(s, n)
    PROVE  (main'.at = "connecting" /\ main'.by = s) \/ s \in addresses'
<1>0. PICK e : e = Data(s, n)
  OBVIOUS
<1>1. e.kind = "data" /\ e.by = s /\ e.n = n /\ event' = e /\ e # NoEvent
  BY <1>0, EventFacts
<1>2. event = e => (main.at = "connecting" /\ main.by = s) \/ s \in addresses
  BY <1>0 DEF RequestFirst
<1>3. ASSUME NEW i \in DOMAIN wire[Provider], HandleFrame(i)
      PROVE  (main'.at = "connecting" /\ main'.by = s) \/ s \in addresses'
  <2> DEFINE m == wire[Provider][i]
  <2>1. /\ m \in Messages /\ m.schema = 1 /\ InOrder(Provider, i) /\ LoopIdle(Provider)
        /\ UNCHANGED mainVars
    BY <1>3, RemovalTypes, ProviderAssumption DEF HandleFrame, Takes
  <2>2. m.by = s /\ m.n = n
    BY <1>1, <1>3, EventFacts DEF HandleFrame
  <2>3. m = Msg(1, s, n)
    BY <2>1, <2>2, MessageFacts
  <2>4. ASSUME NEW k \in DOMAIN wire[Provider], k < i, wire[Provider][k] = Msg(0, s, 0)
        PROVE  FALSE
    <3>1. k \in 1..(i - 1)
      BY <2>4, WirePlaces, ProviderAssumption
    <3>2. Sender(wire[Provider][k]) = Sender(m)
      BY <2>1, <2>2, <2>4, MessageFacts DEF Sender
    <3> QED
      BY <2>1, <3>1, <3>2 DEF InOrder
  <2>5. Arrived(s)
    BY <2>3, <2>4 DEF RequestFirst
  <2>6. event = NoEvent
    BY <2>1, WaitFacts DEF Handover, LoopIdle
  <2> QED
    BY <2>1, <2>5, <2>6, EventFacts DEF Arrived, NoEvent, Connect, mainVars
<1>4. ASSUME NEW i, HandleConnect(i) PROVE FALSE
  BY <1>1, <1>4, EventFacts DEF HandleConnect
<1>5. CASE MainTakesConnect \/ MainTakesFrame
  BY <1>1, <1>5 DEF MainTakesConnect, MainTakesFrame
<1>6. CASE Connected
  BY <1>1, <1>2, <1>6 DEF Connected
<1>7. CASE MainForwards \/ MainForwarded
  BY <1>1, <1>2, <1>7 DEF MainForwards, MainForwarded, Select
<1>8. CASE UNCHANGED <<event, main, addresses>>
  BY <1>1, <1>2, <1>8
<1> QED
  BY <1>3, <1>4, <1>5, <1>6, <1>7, <1>8
     DEF Peaceful, vars, peerVars, mainVars, Open, Frame, Leave, Lock, Start, PushFrame, PushesTo,
         Unlock, Receive, ServiceFrame, End, TakeUsage, TakeFromActor, TakeFromMain, Deliver,
         EventTaken

\* Every peaceful step keeps the request before the frames.
LEMMA NextRequestFirst ==
    ASSUME Ordered, TypeOK, TypeOK', Handover, ToProvider, RequestFirst, [Next]_vars, Peaceful
    PROVE  RequestFirst'
<1>1. ASSUME NEW s \in Sessions, NEW n \in Frames, Pushed(s, n)' PROVE Gone(s)'
  <2>1. Pushed(s, n) \/ PushFrame(s)
    BY <1>1, PushMoves
  <2>2. Gone(s)
    BY <2>1 DEF RequestFirst, PushFrame, PushesTo, Requesting
  <2> QED
    BY <2>2, GoneForEver
<1>2. ASSUME NEW s \in Sessions
      PROVE  /\ pc'[s] \notin Requesting => Gone(s)'
             /\ pc'[s] = "flushRequest" => cmd'[ClientOf[s]] = RequestCmd(s)' \/ Gone(s)'
  BY RequestGoes DEF RequestCmd
<1>3. ASSUME NEW s \in Sessions, NEW n \in Frames, NEW j \in DOMAIN wire'[Provider],
             wire'[Provider][j] = Msg(1, s, n)'
      PROVE  \/ Arrived(s)'
             \/ \E i \in DOMAIN wire'[Provider] : i < j /\ wire'[Provider][i] = Msg(0, s, 0)'
  BY <1>3, RequestBefore DEF Msg
<1>4. ASSUME NEW s \in Sessions, NEW n \in Frames, event' = Data(s, n)'
      PROVE  (main'.at = "connecting" /\ main'.by = s) \/ s \in addresses'
  BY <1>4, FrameFinds DEF Data
<1> QED
  BY <1>1, <1>2, <1>3, <1>4 DEF RequestFirst

-----------------------------------------------------------------------------
(* The way back. *)

\* A session is never forgotten.
LEMMA Remembered ==
    ASSUME TypeOK, Peaceful, NEW s \in Sessions, pc[s] # "idle"
    PROVE  pc'[s] # "idle"
<1>0. pc \in [Sessions -> PcStates]
  BY DEF TypeOK
<1>1. ASSUME NEW t \in Sessions, NEW to, Goto(t, to), to # "idle" PROVE pc'[s] # "idle"
  BY <1>0, <1>1 DEF Goto
<1>2. ASSUME NEW t \in Sessions,
             \/ Open(t) \/ Frame(t) \/ Leave(t) \/ Lock(t) \/ Start(t) \/ PushFrame(t) \/ Unlock(t)
      PROVE  pc'[s] # "idle"
  BY <1>1, <1>2 DEF Open, Frame, Leave, Lock, Start, PushFrame, PushesTo, Unlock
<1>3. ASSUME NEW t \in Sessions, Receive(t) PROVE pc'[s] # "idle"
  BY <1>0, <1>3 DEF Receive
<1>4. CASE UNCHANGED pc
  BY <1>4
<1> QED
  BY <1>2, <1>3, <1>4
     DEF Peaceful, vars, clientVars, ServiceFrame, End, TakeUsage, TakeFromActor, HandleConnect,
         HandleFrame, Deliver, TakeFromMain, EventTaken, MainTakesConnect, Connected,
         MainTakesFrame, MainForwards, MainForwarded

\* Main knows the gateway of its users.
LEMMA NextPeer ==
    ASSUME Deployed, TypeOK, BackHome, Peaceful, NEW s \in Sessions,
           main'.at = "connecting" \/ addresses' # {} \/ frames' # <<>>
    PROVE  peer' = ClientOf[s]
<1>1. main.at = "connecting" \/ addresses # {} \/ frames # <<>> => peer = ClientOf[s]
  BY DEF BackHome
<1>2. CASE MainTakesConnect
  <2>1. event \in Events
    BY <1>2, EventFacts DEF TypeOK, MainTakesConnect
  <2>2. event.by \in Sessions /\ peer' = ClientOf[event.by]
    BY <1>2, <2>1, EventFacts DEF MainTakesConnect
  <2> QED
    BY <2>2 DEF Deployed
<1>3. CASE Connected
  BY <1>1, <1>3 DEF Connected
<1>4. CASE MainForwards
  BY <1>1, <1>4 DEF MainForwards
<1>5. CASE MainForwarded
  BY <1>1, <1>5 DEF MainForwarded, Select
<1>6. ASSUME NEW t \in Sessions, ServiceFrame(t) PROVE peer' = ClientOf[s]
  BY <1>1, <1>6 DEF ServiceFrame
<1>7. CASE UNCHANGED <<main, peer, addresses, frames>>
  BY <1>1, <1>7
<1> QED
  BY <1>2, <1>3, <1>4, <1>5, <1>6, <1>7
     DEF Peaceful, vars, peerVars, mainVars, Open, Frame, Leave, Lock, Start, PushFrame, PushesTo,
         Unlock, Receive, End, TakeUsage, TakeFromActor, HandleConnect, HandleFrame,
         TakeFromMain, Deliver, EventTaken, MainTakesFrame

\* Main sends a frame to the gateway of its user.
LEMMA NextReturn ==
    ASSUME TypeOK, BackHome, [Next]_vars, mainCmd' # NoMainCmd
    PROVE  mainCmd'.to = ClientOf[mainCmd'.by]
<1>1. CASE MainForwards
  <2>1. /\ frames \in Seq([by : Sessions, n : Frames]) /\ frames # <<>>
        /\ mainCmd' = [by |-> Head(frames).by, n |-> Head(frames).n, to |-> peer]
    BY <1>1 DEF MainForwards, TypeOK
  <2>2. Head(frames) \in [by : Sessions, n : Frames]
    BY <2>1, HeadTailProperties
  <2>3. peer = ClientOf[Head(frames).by]
    BY <2>1, <2>2 DEF BackHome
  <2> QED
    BY <2>1, <2>3
<1>2. CASE mainCmd' \in {mainCmd, NoMainCmd}
  BY <1>2 DEF BackHome
<1> QED
  BY <1>1, <1>2, MainCmdSteps

\* A frame comes from the service of a session that was opened.
LEMMA NextOpened ==
    ASSUME IInv, BackHome, [Next]_vars, Peaceful, NEW s \in Sessions, NEW n \in Frames,
           Queued(s, n)' \/ Forwarded(s, n)' \/ Returned(s, n)'
    PROVE  pc'[s] # "idle"
<1>0. TypeOK /\ DownInOnePlace
  BY DEF IInv, Types
<1>1. CASE Queued(s, n) \/ Forwarded(s, n) \/ Returned(s, n)
  BY <1>0, <1>1, Remembered DEF BackHome
<1>2. CASE n = down[s] + 1 /\ n <= down'[s]
  <2>1. down \in [Sessions -> 0..MaxFrames] /\ MaxFrames \in Nat
    BY <1>0, FramesAssumption DEF TypeOK
  <2>2. down'[s] # down[s]
    BY <1>2, <2>1
  <2>3. PICK t \in Sessions : ServiceFrame(t)
    BY <2>2
       DEF Peaceful, vars, peerVars, mainVars, Open, Frame, Leave, Lock, Start, PushFrame,
           PushesTo, Unlock, Receive, End, TakeUsage, TakeFromActor, HandleConnect, HandleFrame,
           TakeFromMain, Deliver, EventTaken, MainTakesConnect, Connected, MainTakesFrame,
           MainForwards, MainForwarded
  <2>4. t = s
    BY <2>1, <2>2, <2>3 DEF ServiceFrame
  <2>5. s \in addresses
    BY <2>3, <2>4 DEF ServiceFrame
  <2>6. pc[s] # "idle"
    BY <2>5 DEF IInv, RequestsCharged, Requested, Charged
  <2> QED
    BY <1>0, <2>6, Remembered
<1> QED
  BY <1>0, <1>1, <1>2, QueuedNew, ForwardedMoves, ReturnedMoves

\* Every peaceful step keeps the frames of a service on their way home.
LEMMA NextBackHome ==
    ASSUME Deployed, IInv, BackHome, [Next]_vars, Peaceful
    PROVE  BackHome'
<1>0. TypeOK
  BY DEF IInv, Types
<1>1. ASSUME NEW g \in Gateways, NEW j \in DOMAIN wire'[g], wire'[g][j].schema = 2
      PROVE  ClientOf[wire'[g][j].by] = g
  <2>1. ASSUME NEW l \in DOMAIN wire[g], wire'[g][j] = wire[g][l]
        PROVE  ClientOf[wire'[g][j].by] = g
    BY <1>1, <2>1 DEF BackHome
  <2>2. CASE UNCHANGED wire
    BY <2>1, <2>2
  <2>3. ASSUME NEW h \in Gateways, NEW i \in DOMAIN wire[h], Removes(h, i)
        PROVE  ClientOf[wire'[g][j].by] = g
    BY <1>0, <2>1, <2>3, AfterTake
  <2>4. ASSUME NEW to \in Gateways, NEW k \in Messages, Send(to, k),
               k.schema = 2 => ClientOf[k.by] = to
        PROVE  ClientOf[wire'[g][j].by] = g
    BY <1>0, <1>1, <2>1, <2>4, SendPlaces
  <2>5. CASE /\ TakeFromMain /\ mainCmd \in MainCommands
             /\ Send(mainCmd.to, Msg(2, mainCmd.by, mainCmd.n))
    <3>1. /\ mainCmd.to \in Gateways /\ Msg(2, mainCmd.by, mainCmd.n) \in Messages
          /\ Msg(2, mainCmd.by, mainCmd.n).by = mainCmd.by
      BY <2>5, MessageFacts DEF MainCommands
    <3>2. mainCmd.to = ClientOf[mainCmd.by]
      BY <2>5 DEF TakeFromMain, BackHome
    <3> QED
      BY <2>4, <2>5, <3>1, <3>2
  <2> QED
    BY <1>0, <2>2, <2>3, <2>4, <2>5, WireCases, MessageFacts, ProviderAssumption
<1>2. ASSUME NEW s \in Sessions
      PROVE  main'.at = "connecting" \/ addresses' # {} \/ frames' # <<>> => peer' = ClientOf[s]
  BY <1>0, NextPeer
<1>3. mainCmd' # NoMainCmd' => mainCmd'.to = ClientOf[mainCmd'.by]
  BY <1>0, NextReturn DEF NoMainCmd
<1>4. ASSUME NEW s \in Sessions, NEW n \in Frames,
             Queued(s, n)' \/ Forwarded(s, n)' \/ Returned(s, n)'
      PROVE  pc'[s] # "idle"
  BY <1>4, NextOpened
<1> QED
  BY <1>1, <1>2, <1>3, <1>4 DEF BackHome

-----------------------------------------------------------------------------
(* The loops go on. *)

\* The invariant holds at the start.
LEMMA InitSurvival == Init => SInv
<1> SUFFICES ASSUME Init PROVE SInv
  OBVIOUS
<1>1. IInv /\ ToProvider
  BY InitOrder DEF OInv
<1>2. Healthy
  BY DEF Init, BusInit, Healthy, Alive, MainAlive, Select
<1>3. \A g \in Gateways : DOMAIN wire[g] = {}
  BY EmptyWire
<1>4. \A m : ~OnWire(m)
  BY <1>3 DEF OnWire
<1>5. Handover /\ RequestFirst
  BY <1>3, CommandFacts, EventFacts, ProviderAssumption
     DEF Init, BusInit, Handover, RequestFirst, Requesting, Pushed
<1>6. BackHome
  <2>1. \A s \in Sessions, n \in Frames : ~Queued(s, n) /\ ~Forwarded(s, n) /\ ~Returned(s, n)
    BY <1>4, SessionType DEF Init, Queued, Among, Forwarded, NoMainCmd, Returned
  <2> QED
    BY <1>3, <2>1 DEF Init, BackHome, Select
<1> QED
  BY <1>1, <1>2, <1>5, <1>6 DEF SInv

\* Every action of the deployment keeps it.
LEMMA NextSurvival == Deployed => (SInv /\ [Next]_vars => SInv')
<1> SUFFICES ASSUME Deployed, SInv, [Next]_vars PROVE SInv'
  OBVIOUS
<1>1. IInv /\ IInv' /\ TypeOK /\ TypeOK' /\ Ordered
  BY NextInvariant DEF SInv, IInv, Types, Deployed
<1>2. Peaceful
  BY AllPeaceful
<1> QED
  BY <1>1, <1>2, NextHealthy, NextHandover, NextToProvider, NextRequestFirst,
     NextBackHome
     DEF SInv

\* In this deployment, whoever comes and goes and whatever the frames are, no
\* network loop fails and the loop of main does not fail.
THEOREM LoopsGoOn == Deployed => (Spec => []LoopsSurvive)
<1> SUFFICES ASSUME Deployed PROVE Spec => []LoopsSurvive
  OBVIOUS
<1>1. SInv => LoopsSurvive
  BY DEF SInv, Healthy, LoopsSurvive
<1>2. SInv /\ [Next]_vars => SInv'
  BY NextSurvival
<1> QED
  BY <1>1, <1>2, InitSurvival, PTL DEF Spec

=============================================================================
