-------------------------- MODULE WsForward_proofs --------------------------
(***************************************************************************)
(* Proofs about WsForward, for any set of gateways, sessions, workers and  *)
(* frames and any set of faults.                                           *)
(***************************************************************************)
EXTENDS WsForward, SequenceTheorems, TLAPS

\* Taking an element out of a sequence leaves the others.
LEMMA RemoveAtFacts ==
    ASSUME NEW S, NEW s \in Seq(S), NEW i \in 1..Len(s)
    PROVE  /\ RemoveAt(s, i) \in Seq(S)
           /\ Len(RemoveAt(s, i)) = Len(s) - 1
           /\ \A j \in 1..(Len(s) - 1) :
                 RemoveAt(s, i)[j] = IF j < i THEN s[j] ELSE s[j + 1]
<1> DEFINE front == SubSeq(s, 1, i - 1)
           back == SubSeq(s, i + 1, Len(s))
<1>1. front \in Seq(S) /\ Len(front) = i - 1 /\ \A j \in 1..(i - 1) : front[j] = s[j]
  BY SubSeqProperties
<1>2. back \in Seq(S) /\ Len(back) = Len(s) - i /\ \A j \in 1..(Len(s) - i) : back[j] = s[i + j]
  BY SubSeqProperties
<1> HIDE DEF front, back
<1>3. front \o back \in Seq(S) /\ Len(front \o back) = Len(s) - 1
  BY <1>1, <1>2
<1>4. ASSUME NEW j \in 1..(Len(s) - 1)
      PROVE  (front \o back)[j] = IF j < i THEN s[j] ELSE s[j + 1]
  BY <1>1, <1>2
<1> QED
  BY <1>3, <1>4 DEF RemoveAt, front, back

\* What the constants promise.
LEMMA SessionType ==
    \A s \in Sessions :
        /\ s # NoHandler /\ s \in Handlers
        /\ ClientOf[s] \in Gateways /\ ClientOf[s] # Provider
        /\ Limit[s] \in 0..MaxFrames /\ MaxFrames \in Nat
BY SessionsAssumption, PlacementAssumption, FramesAssumption, NoHandlerAssumption

\* Commands name their session and their frame.
LEMMA CommandFacts ==
    /\ NoCmd \notin Commands /\ NoCmd.kind = "none"
    /\ \A s \in Sessions : UsageCmd(s) \in Commands /\ RequestCmd(s) \in Commands
    /\ \A s \in Sessions, n \in Frames : FrameCmd(s, n) \in Commands
    /\ \A s : UsageCmd(s).kind = "SubmitUsage" /\ UsageCmd(s).by = s
    /\ \A s : RequestCmd(s).kind = "SendRequest" /\ RequestCmd(s).by = s
    /\ \A s, n : /\ FrameCmd(s, n).kind = "SendProxyData"
                 /\ FrameCmd(s, n).by = s /\ FrameCmd(s, n).n = n
    /\ \A c \in Commands :
          /\ c.by \in Sessions
          /\ c.kind \in {"SubmitUsage", "SendRequest", "SendProxyData"}
          /\ c.kind = "SubmitUsage" => c = UsageCmd(c.by)
          /\ c.kind = "SendRequest" => c = RequestCmd(c.by)
          /\ c.kind = "SendProxyData" => c.n \in Frames /\ c = FrameCmd(c.by, c.n)
BY DEF NoCmd, Commands, UsageCmd, RequestCmd, FrameCmd

\* Messages name their session and their frame.
LEMMA MessageFacts ==
    /\ \A s \in Sessions : Msg(0, s, 0) \in Messages
    /\ \A s \in Sessions, n \in Frames : Msg(1, s, n) \in Messages /\ Msg(2, s, n) \in Messages
    /\ \A k, s, n : Msg(k, s, n).schema = k /\ Msg(k, s, n).by = s /\ Msg(k, s, n).n = n
    /\ \A m \in Messages :
          /\ m.by \in Sessions
          /\ m.schema \in {0, 1, 2}
          /\ m.schema = 0 => m = Msg(0, m.by, 0)
          /\ m.schema # 0 => m.n \in Frames /\ m = Msg(m.schema, m.by, m.n)
BY DEF Messages, Msg

\* So do the events of the main loop.
LEMMA EventFacts ==
    /\ NoEvent \notin Events /\ NoEvent.kind = "none"
    /\ \A s \in Sessions : Connect(s) \in Events
    /\ \A s \in Sessions, n \in Frames : Data(s, n) \in Events
    /\ \A s : Connect(s).kind = "connect" /\ Connect(s).by = s
    /\ \A s, n : Data(s, n).kind = "data" /\ Data(s, n).by = s /\ Data(s, n).n = n
    /\ \A e \in Events :
          /\ e.by \in Sessions
          /\ e.kind = "connect" => e = Connect(e.by)
          /\ e.kind = "data" => e.n \in Frames /\ e = Data(e.by, e.n)
BY DEF NoEvent, Events, Connect, Data

\* And what a loop waits for.
LEMMA WaitFacts ==
    /\ Idle \in Waits /\ Idle.at = "idle"
    /\ \A s \in Sessions \cup {NoHandler} : EventOf(s) \in Waits /\ EventOf(s).at = "event"
    /\ \A s \in Sessions, n \in Frames : SessionTakes(s, n) \in Waits
    /\ \A s, n : /\ SessionTakes(s, n).at = "session"
                 /\ SessionTakes(s, n).by = s /\ SessionTakes(s, n).n = n
    /\ \A w \in Waits :
          /\ w.at = "idle" => w = Idle
          /\ w.at = "session" => w.by \in Sessions /\ w.n \in Frames /\ w = SessionTakes(w.by, w.n)
BY DEF Idle, Waits, EventOf, SessionTakes

-----------------------------------------------------------------------------
(* Types. *)

\* A frame is named before it is pushed.
FrameNamed ==
    \A s \in Sessions :
        pc[s] \in {"frameLocking", "pushFrame", "flushFrame"} => up[s] \in Frames

\* Main knows a peer once a session is connecting.
PeerKnown ==
    /\ main.at = "connecting" => main.by \in Sessions
    /\ main.at = "connecting" \/ addresses # {} \/ frames # <<>> => peer \in Gateways

Types == TypeOK /\ FrameNamed /\ PeerKnown

\* Types at the start.
LEMMA InitTypes == Init => Types
BY SessionType, WaitFacts, FramesAssumption
DEF Init, BusInit, Types, TypeOK, FrameNamed, PeerKnown, PcStates, MainStates, Select

\* What is left on the way when message i was taken has the types.
LEMMA RemovalTypes ==
    ASSUME TypeOK, NEW g \in Gateways, NEW i \in DOMAIN wire[g]
    PROVE  /\ wire[g][i] \in Messages
           /\ [wire EXCEPT ![g] = RemoveAt(@, i)] \in [Gateways -> Seq(Messages)]
<1>1. wire[g] \in Seq(Messages) /\ i \in 1..Len(wire[g])
  BY DEF TypeOK
<1>2. RemoveAt(wire[g], i) \in Seq(Messages)
  BY <1>1, RemoveAtFacts
<1> QED
  BY <1>1, <1>2 DEF TypeOK

\* There is a number for the next frame below the limit.
LEMMA NextFrame ==
    ASSUME NEW s \in Sessions, NEW n \in 0..MaxFrames, n < Limit[s]
    PROVE  n + 1 \in 0..MaxFrames /\ n + 1 \in Frames
<1>1. Limit[s] \in 0..MaxFrames /\ MaxFrames \in Nat
  BY SessionType
<1> QED
  BY <1>1 DEF Frames

\* A charge is a number.
LEMMA ChargeType ==
    ASSUME billed \in [Sessions -> Nat], NEW s \in Sessions
    PROVE  [billed EXCEPT ![s] = @ + 1] \in [Sessions -> Nat]
OBVIOUS

\* Every action keeps the types.
LEMMA NextTypes == Types /\ [Next]_vars => Types'
<1> SUFFICES ASSUME Types, [Next]_vars PROVE Types'
  OBVIOUS
<1> USE SessionType
    DEF Types, TypeOK, FrameNamed, PeerKnown, PcStates, Blocking, Holding, Goto,
        busVars, clientVars, mainVars, peerVars, MainAlive, LoopIdle
<1>0. ASSUME MainDies PROVE Types'
  <2>1. /\ main' \in MainStates /\ main'.at = "dead"
        /\ frames' = <<>> /\ addresses' = {} /\ event' = NoEvent
    BY <1>0 DEF MainDies, MainStates
  <2>2. TypeOK'
    BY <1>0, <2>1 DEF MainDies
  <2> QED
    BY <1>0, <2>1, <2>2 DEF MainDies
<1>1. ASSUME NEW s \in Sessions, Open(s) PROVE Types'
  <2>1. TypeOK'
    BY <1>1 DEF Open
  <2>2. FrameNamed' /\ PeerKnown'
    BY <1>1 DEF Open
  <2> QED
    BY <2>1, <2>2
<1>2. ASSUME NEW s \in Sessions, Frame(s) PROVE Types'
  <2>1. TypeOK'
    BY <1>2, NextFrame DEF Frame
  <2>2. FrameNamed' /\ PeerKnown'
    BY <1>2, NextFrame DEF Frame
  <2> QED
    BY <2>1, <2>2
<1>3. ASSUME NEW s \in Sessions, Lock(s) PROVE Types'
  <2>1. TypeOK'
    BY <1>3 DEF Lock, Acquire
  <2>2. FrameNamed' /\ PeerKnown'
    BY <1>3 DEF Lock, Acquire
  <2> QED
    BY <2>1, <2>2
<1>4. ASSUME NEW s \in Sessions, LockPanics(s) PROVE Types'
  <2>1. TypeOK'
    BY <1>4 DEF LockPanics
  <2>2. FrameNamed' /\ PeerKnown'
    BY <1>4 DEF LockPanics
  <2> QED
    BY <2>1, <2>2
<1>5. ASSUME NEW s \in Sessions, NEW c \in Commands, NEW from, NEW to \in Holding,
             PushesTo(s, from, c, to), to \in {"pushFrame", "flushFrame"} => up[s] \in Frames
      PROVE  Types'
  <2>1. cmd' \in [Gateways -> Commands \cup {NoCmd}]
    BY <1>5 DEF PushesTo, Push
  <2>2. TypeOK'
    BY <1>5, <2>1 DEF PushesTo
  <2>3. FrameNamed' /\ PeerKnown'
    BY <1>5 DEF PushesTo
  <2> QED
    BY <2>2, <2>3
<1>6. ASSUME NEW s \in Sessions, Start(s) \/ PushFrame(s) PROVE Types'
  <2>1. CASE PushesTo(s, "pushUsage", UsageCmd(s), "flushUsage")
    BY <1>5, <2>1, CommandFacts
  <2>2. CASE PushesTo(s, "flushUsage", RequestCmd(s), "flushRequest")
    BY <1>5, <2>2, CommandFacts
  <2>3. CASE PushesTo(s, "pushFrame", FrameCmd(s, up[s]), "flushFrame")
    <3>1. up[s] \in Frames
      BY <2>3 DEF PushesTo
    <3> QED
      BY <1>5, <2>3, <3>1, CommandFacts
  <2> QED
    BY <1>6, <2>1, <2>2, <2>3 DEF Start, PushFrame
<1>7. ASSUME NEW s \in Sessions, PushPanics(s) PROVE Types'
  <2>1. TypeOK'
    BY <1>7 DEF PushPanics, PanicWithGuard, Release
  <2>2. FrameNamed' /\ PeerKnown'
    BY <1>7 DEF PushPanics, PanicWithGuard, Release
  <2> QED
    BY <2>1, <2>2
<1>8. ASSUME NEW s \in Sessions, Unlock(s) PROVE Types'
  <2>1. TypeOK'
    BY <1>8 DEF Unlock, Release
  <2>2. FrameNamed' /\ PeerKnown'
    BY <1>8 DEF Unlock, Release
  <2> QED
    BY <2>1, <2>2
<1>9. ASSUME NEW s \in Sessions, Leave(s) PROVE Types'
  <2>1. TypeOK'
    BY <1>9 DEF Leave
  <2>2. FrameNamed' /\ PeerKnown'
    BY <1>9 DEF Leave
  <2> QED
    BY <2>1, <2>2
<1>10. ASSUME NEW s \in Sessions, Receive(s) PROVE Types'
  <2>1. TypeOK'
    <3> DEFINE g == ClientOf[s]
    <3>1. waiting[g].n \in Frames
      BY <1>10, WaitFacts DEF Receive
    <3>2. shown' \in [Sessions -> Seq(Frames)]
      BY <1>10, <3>1 DEF Receive
    <3>3. waiting' \in [Gateways -> Waits] /\ pc' \in [Sessions -> PcStates]
      BY <1>10, WaitFacts DEF Receive
    <3> QED
      BY <1>10, <3>2, <3>3 DEF Receive
  <2>2. FrameNamed' /\ PeerKnown'
    BY <1>10, WaitFacts DEF Receive
  <2> QED
    BY <2>1, <2>2
<1>11. ASSUME NEW g \in Gateways, TakeUsage(g) PROVE Types'
  <2>1. TypeOK'
    <3>1. cmd[g].by \in Sessions
      BY <1>11, CommandFacts DEF TakeUsage, Pop, SlotFree
    <3>2. [billed EXCEPT ![cmd[g].by] = @ + 1] \in [Sessions -> Nat]
      BY <3>1, ChargeType
    <3>4. billed' \in [Sessions -> Nat]
      BY <1>11, <3>2 DEF TakeUsage
    <3>3. cmd' \in [Gateways -> Commands \cup {NoCmd}]
      BY <1>11 DEF TakeUsage, Pop
    <3> QED
      BY <1>11, <3>4, <3>3 DEF TakeUsage
  <2>2. FrameNamed' /\ PeerKnown'
    BY <1>11, CommandFacts DEF TakeUsage, Pop, SlotFree
  <2> QED
    BY <2>1, <2>2
<1>12. ASSUME NEW g \in Gateways, ContractPanics(g) PROVE Types'
  <2>1. TypeOK'
    <3>1. cmd[g].by \in Sessions
      BY <1>12, CommandFacts DEF ContractPanics
    <3>2. [billed EXCEPT ![cmd[g].by] = @ + 1] \in [Sessions -> Nat]
      BY <3>1, ChargeType
    <3>4. billed' \in [Sessions -> Nat]
      BY <1>12, <3>2 DEF ContractPanics
    <3>3. LoopDies(g) /\ UNCHANGED wire
      BY <1>12 DEF ContractPanics
    <3> QED
      BY <3>3, <3>4, WaitFacts DEF LoopDies, LoopPanics
  <2>2. FrameNamed' /\ PeerKnown'
    BY <1>12, CommandFacts, WaitFacts DEF ContractPanics, LoopDies, LoopPanics
  <2> QED
    BY <2>1, <2>2
<1>13. ASSUME NEW g \in Gateways, TakeFromActor(g) PROVE Types'
  <2>1. TypeOK'
    <3>1. PICK m \in Messages : Send(Provider, m)
      <4>1. cmd[g] \in Commands
        BY <1>13 DEF TakeFromActor, Pop, SlotFree
      <4> QED
        BY <1>13, <4>1, CommandFacts, MessageFacts DEF TakeFromActor
    <3>2. wire' \in [Gateways -> Seq(Messages)]
      BY <3>1, ProviderAssumption DEF Send
    <3> QED
      BY <1>13, <3>2 DEF TakeFromActor, Pop
  <2>2. FrameNamed' /\ PeerKnown'
    BY <1>13, CommandFacts, MessageFacts, ProviderAssumption
    DEF TakeFromActor, Pop, SlotFree, Send
  <2> QED
    BY <2>1, <2>2
<1>14. ASSUME TakeFromMain PROVE Types'
  <2>1. TypeOK'
    <3>1. mainCmd \in MainCommands
      BY <1>14 DEF TakeFromMain
    <3>2. /\ Msg(2, mainCmd.by, mainCmd.n) \in Messages
          /\ mainCmd.to \in Gateways
      BY <3>1, MessageFacts DEF MainCommands
    <3>3. wire' \in [Gateways -> Seq(Messages)]
      BY <1>14, <3>2 DEF TakeFromMain, Send
    <3> QED
      BY <1>14, <3>3 DEF TakeFromMain
  <2>2. FrameNamed' /\ PeerKnown'
    BY <1>14, MessageFacts DEF TakeFromMain, Send
  <2> QED
    BY <2>1, <2>2
<1>15. ASSUME NEW i \in DOMAIN wire[Provider], HandleConnect(i) PROVE Types'
  <2>1. TypeOK'
    BY <1>15, RemovalTypes, MessageFacts, EventFacts, WaitFacts,
       ProviderAssumption DEF HandleConnect, Takes
  <2>2. FrameNamed' /\ PeerKnown'
    BY <1>15, RemovalTypes, MessageFacts, EventFacts, WaitFacts,
       ProviderAssumption DEF HandleConnect, Takes
  <2> QED
    BY <2>1, <2>2
<1>16. ASSUME NEW i \in DOMAIN wire[Provider], ConnectPanics(i) PROVE Types'
  <2>1. TypeOK'
    BY <1>16, RemovalTypes, WaitFacts, ProviderAssumption
    DEF ConnectPanics, Takes, LoopDies, LoopPanics
  <2>2. FrameNamed' /\ PeerKnown'
    BY <1>16, RemovalTypes, WaitFacts, ProviderAssumption
    DEF ConnectPanics, Takes, LoopDies, LoopPanics
  <2> QED
    BY <2>1, <2>2
<1>17. ASSUME NEW i \in DOMAIN wire[Provider], HandleFrame(i) PROVE Types'
  <2>1. TypeOK'
    <3>1. wire[Provider][i] \in Messages /\ wire[Provider][i].schema = 1
      BY <1>17, RemovalTypes, ProviderAssumption DEF HandleFrame, Takes
    <3>2. event' \in Events
      <4>1. wire[Provider][i].by \in Sessions /\ wire[Provider][i].n \in Frames
        BY <3>1, MessageFacts
      <4> QED
        BY <1>17, <4>1, EventFacts DEF HandleFrame
    <3>3. waiting' \in [Gateways -> Waits]
      BY <1>17, WaitFacts, ProviderAssumption DEF HandleFrame
    <3>4. wire' \in [Gateways -> Seq(Messages)]
      BY <1>17, RemovalTypes, ProviderAssumption DEF HandleFrame, Takes
    <3> QED
      BY <1>17, <3>2, <3>3, <3>4 DEF HandleFrame
  <2>2. FrameNamed' /\ PeerKnown'
    BY <1>17, RemovalTypes, MessageFacts, EventFacts, WaitFacts,
       ProviderAssumption DEF HandleFrame, Takes
  <2> QED
    BY <2>1, <2>2
<1>18. ASSUME NEW i \in DOMAIN wire[Provider], FramePanics(i) PROVE Types'
  <2>1. TypeOK'
    BY <1>18, RemovalTypes, WaitFacts, ProviderAssumption
    DEF FramePanics, Takes, LoopDies, LoopPanics
  <2>2. FrameNamed' /\ PeerKnown'
    BY <1>18, RemovalTypes, WaitFacts, ProviderAssumption
    DEF FramePanics, Takes, LoopDies, LoopPanics
  <2> QED
    BY <2>1, <2>2
<1>19. ASSUME EventTaken PROVE Types'
  <2>1. TypeOK'
    BY <1>19, WaitFacts, ProviderAssumption DEF EventTaken
  <2>2. FrameNamed' /\ PeerKnown'
    BY <1>19, WaitFacts, ProviderAssumption DEF EventTaken
  <2> QED
    BY <2>1, <2>2
<1>20. ASSUME ConnectAckPanics PROVE Types'
  <2>1. TypeOK'
    BY <1>20, WaitFacts, ProviderAssumption
    DEF ConnectAckPanics, LoopDies, LoopPanics
  <2>2. FrameNamed' /\ PeerKnown'
    BY <1>20, WaitFacts, ProviderAssumption
    DEF ConnectAckPanics, LoopDies, LoopPanics
  <2> QED
    BY <2>1, <2>2
<1>21. ASSUME NEW g \in Gateways, NEW i \in DOMAIN wire[g], Deliver(g, i) PROVE Types'
  <2>1. TypeOK'
    <3>1. wire[g][i] \in Messages /\ wire[g][i].schema = 2
      BY <1>21, RemovalTypes DEF Deliver, Takes
    <3>2. SessionTakes(wire[g][i].by, wire[g][i].n) \in Waits
      <4>1. wire[g][i].by \in Sessions /\ wire[g][i].n \in Frames
        BY <3>1, MessageFacts
      <4> QED
        BY <4>1, WaitFacts
    <3>3. waiting' \in [Gateways -> Waits]
      BY <1>21, <3>2 DEF Deliver
    <3>4. wire' \in [Gateways -> Seq(Messages)]
      BY <1>21, RemovalTypes DEF Deliver, Takes
    <3> QED
      BY <1>21, <3>3, <3>4 DEF Deliver
  <2>2. FrameNamed' /\ PeerKnown'
    BY <1>21, RemovalTypes, MessageFacts, WaitFacts DEF Deliver, Takes
  <2> QED
    BY <2>1, <2>2
<1>22. ASSUME NEW g \in Gateways, NEW i \in DOMAIN wire[g], DeliverPanics(g, i) PROVE Types'
  <2>1. TypeOK'
    BY <1>22, RemovalTypes, WaitFacts DEF DeliverPanics, Takes, LoopDies, LoopPanics
  <2>2. FrameNamed' /\ PeerKnown'
    BY <1>22, RemovalTypes, WaitFacts DEF DeliverPanics, Takes, LoopDies, LoopPanics
  <2> QED
    BY <2>1, <2>2
<1>23. ASSUME MainTakesConnect PROVE Types'
  <2>1. TypeOK'
    BY <1>23, EventFacts DEF MainTakesConnect, MainStates
  <2>2. FrameNamed' /\ PeerKnown'
    BY <1>23, EventFacts DEF MainTakesConnect, MainStates
  <2> QED
    BY <2>1, <2>2
<1>24. ASSUME Connected PROVE Types'
  <2>1. TypeOK'
    BY <1>24 DEF Connected, MainStates, Select
  <2>2. FrameNamed' /\ PeerKnown'
    BY <1>24 DEF Connected, MainStates, Select
  <2> QED
    BY <2>1, <2>2
<1>25. ASSUME ConnectRefused PROVE Types'
  BY <1>0, <1>25 DEF ConnectRefused
<1>26. ASSUME MainTakesFrame PROVE Types'
  <2>1. TypeOK'
    <3>1. event.by \in Sessions /\ event.n \in Frames
      BY <1>26, EventFacts DEF MainTakesFrame
    <3>2. got' \in [Sessions -> Seq(Frames)]
      BY <1>26, <3>1 DEF MainTakesFrame
    <3> QED
      BY <1>26, <3>2 DEF MainTakesFrame
  <2>2. FrameNamed' /\ PeerKnown'
    BY <1>26, EventFacts DEF MainTakesFrame
  <2> QED
    BY <2>1, <2>2
<1>27. ASSUME AddressPanics PROVE Types'
  BY <1>0, <1>27 DEF AddressPanics
<1>28. ASSUME MainForwards PROVE Types'
  <2>1. TypeOK'
    <3>1. /\ Head(frames) \in [by : Sessions, n : Frames]
          /\ Tail(frames) \in Seq([by : Sessions, n : Frames])
      BY <1>28, HeadTailProperties DEF MainForwards
    <3>2. mainCmd' \in MainCommands /\ main' \in MainStates
      BY <1>28, <3>1 DEF MainForwards, MainStates, MainCommands
    <3> QED
      BY <1>28, <3>1, <3>2 DEF MainForwards
  <2>2. FrameNamed' /\ PeerKnown'
    BY <1>28 DEF MainForwards, MainStates, MainCommands
  <2> QED
    BY <2>1, <2>2
<1>29. ASSUME MainForwarded PROVE Types'
  <2>1. TypeOK'
    BY <1>29 DEF MainForwarded, MainStates, Select
  <2>2. FrameNamed' /\ PeerKnown'
    BY <1>29 DEF MainForwarded, MainStates, Select
  <2> QED
    BY <2>1, <2>2
<1>30. ASSUME ForwardPanics PROVE Types'
  BY <1>0, <1>30 DEF ForwardPanics
<1>31. ASSUME NEW s \in Sessions, ServiceFrame(s) PROVE Types'
  <2>1. TypeOK'
    <3>1. down[s] + 1 \in 0..MaxFrames /\ down[s] + 1 \in Frames
      BY <1>31, NextFrame DEF ServiceFrame
    <3>2. down' \in [Sessions -> 0..MaxFrames] /\ down'[s] \in Frames
      BY <1>31, <3>1 DEF ServiceFrame
    <3>3. [by |-> s, n |-> down'[s]] \in [by : Sessions, n : Frames]
      BY <3>2
    <3>4. Append(frames, [by |-> s, n |-> down'[s]]) \in Seq([by : Sessions, n : Frames])
      BY <3>3, AppendProperties
    <3>5. frames' \in Seq([by : Sessions, n : Frames])
      BY <1>31, <3>4 DEF ServiceFrame
    <3> QED
      BY <1>31, <3>2, <3>5 DEF ServiceFrame
  <2>2. FrameNamed' /\ PeerKnown'
    BY <1>31 DEF ServiceFrame
  <2> QED
    BY <2>1, <2>2
<1>32. ASSUME NEW s \in Sessions, End(s) PROVE Types'
  <2>1. TypeOK'
    BY <1>32 DEF End
  <2>2. FrameNamed' /\ PeerKnown'
    BY <1>32 DEF End
  <2> QED
    BY <2>1, <2>2
<1>33. ASSUME NEW g \in Gateways, NEW i \in DOMAIN wire[g], Lose(g, i) PROVE Types'
  <2>1. TypeOK'
    BY <1>33, RemovalTypes DEF Lose
  <2>2. FrameNamed' /\ PeerKnown'
    BY <1>33, RemovalTypes DEF Lose
  <2> QED
    BY <2>1, <2>2
<1>34. CASE UNCHANGED vars
  BY <1>34 DEF vars
<1> QED
  BY <1>1, <1>2, <1>3, <1>4, <1>5, <1>6, <1>7, <1>8, <1>9, <1>10, <1>11, <1>12,
     <1>13, <1>14, <1>15, <1>16, <1>17, <1>18, <1>19, <1>20, <1>21, <1>22, <1>23,
     <1>24, <1>25, <1>26, <1>27, <1>28, <1>29, <1>30, <1>31, <1>32, <1>33, <1>34
  DEF Next, ActorStep, TakeCommand, HandleMessage, ProviderLoop, MainStep

\* The variables keep their types.
THEOREM TypeCorrect == Spec => []TypeOK
<1>1. Types => TypeOK
  BY DEF Types
<1> QED
  BY <1>1, InitTypes, NextTypes, PTL DEF Spec

-----------------------------------------------------------------------------
(* The inductive invariant. *)

Fee == IF OnChain THEN 1 ELSE 0

\* The usage of s is in the slot exactly until it is charged, and it is pushed
\* once; nothing is in the slot of a loop that died.
Usage ==
    /\ \A s \in Sessions : pc[s] \in {"idle", "locking", "pushUsage"} => billed[s] = 0
    /\ \A g \in Gateways, s \in Sessions :
          cmd[g] = UsageCmd(s) => g = ClientOf[s] /\ billed[s] = 0 /\ pc[s] = "flushUsage"
    /\ \A s \in Sessions :
          pc[s] = "flushUsage" /\ Alive(ClientOf[s]) =>
              cmd[ClientOf[s]] = UsageCmd(s) \/ billed[s] = Fee
    /\ \A g \in Gateways : ~Alive(g) => cmd[g] = NoCmd

\* s was charged, and will not push another usage.
Charged(s) ==
    /\ billed[s] = Fee
    /\ pc[s] \notin {"idle", "locking", "pushUsage", "flushUsage"}

OnWire(m) == \E g \in Gateways : \E i \in DOMAIN wire[g] : wire[g][i] = m

\* The way of the connection request of s, from its push to the map of the main
\* loop and the first frame.
Requested(s) ==
    \/ \E g \in Gateways : cmd[g] = RequestCmd(s)
    \/ OnWire(Msg(0, s, 0))
    \/ event = Connect(s)
    \/ main.at = "connecting" /\ main.by = s
    \/ s \in addresses
    \/ got[s] # <<>>

RequestsCharged == \A s \in Sessions : Requested(s) => Charged(s)

\* Messages with frames are told apart.
WireDistinct ==
    \A g, h \in Gateways : \A i \in DOMAIN wire[g], j \in DOMAIN wire[h] :
        wire[g][i] = wire[h][j] /\ wire[g][i].schema # 0 => g = h /\ i = j

Distinct(seq) == \A i, j \in DOMAIN seq : i # j => seq[i] # seq[j]

Among(n, seq) == \E i \in DOMAIN seq : seq[i] = n

\* Where frame n of the user of s can be, one place after the other.
Pushed(s, n) == \E g \in Gateways : cmd[g] = FrameCmd(s, n)
Sent(s, n) == OnWire(Msg(1, s, n))
Handed(s, n) == event = Data(s, n)
Got(s, n) == Among(n, got[s])

\* The user has sent frame n, and it is not the one that waits for the bus.
Behind(s, n) == n <= up[s] /\ (pc[s] \in {"frameLocking", "pushFrame"} => n # up[s])

\* It is in one of them at most, and only after the user has sent it.
UpInOnePlace ==
    /\ \A g \in Gateways : cmd[g].kind = "SendProxyData" => ClientOf[cmd[g].by] = g
    /\ \A s \in Sessions : Distinct(got[s])
    /\ \A s \in Sessions, n \in Frames :
          /\ Pushed(s, n) => ~Sent(s, n) /\ ~Handed(s, n) /\ ~Got(s, n)
          /\ Sent(s, n) => ~Handed(s, n) /\ ~Got(s, n)
          /\ Handed(s, n) => ~Got(s, n)
          /\ Pushed(s, n) \/ Sent(s, n) \/ Handed(s, n) \/ Got(s, n) => Behind(s, n)

\* Where frame n of the service of s can be, one place after the other.
Queued(s, n) == Among([by |-> s, n |-> n], frames)
Forwarded(s, n) == mainCmd.by = s /\ mainCmd.n = n
Returned(s, n) == OnWire(Msg(2, s, n))
Awaited(s, n) == \E g \in Gateways : waiting[g] = SessionTakes(s, n)
Shown(s, n) == Among(n, shown[s])

\* It is in one of them at most, and only after the service has sent it.
DownInOnePlace ==
    /\ \A g \in Gateways : waiting[g].at = "session" => ClientOf[waiting[g].by] = g
    /\ Distinct(frames)
    /\ \A s \in Sessions : Distinct(shown[s])
    /\ \A s \in Sessions, n \in Frames :
          /\ Queued(s, n) =>
                ~Forwarded(s, n) /\ ~Returned(s, n) /\ ~Awaited(s, n) /\ ~Shown(s, n)
          /\ Forwarded(s, n) => ~Returned(s, n) /\ ~Awaited(s, n) /\ ~Shown(s, n)
          /\ Returned(s, n) => ~Awaited(s, n) /\ ~Shown(s, n)
          /\ Awaited(s, n) => ~Shown(s, n)
          /\ \/ Queued(s, n) \/ Forwarded(s, n) \/ Returned(s, n) \/ Awaited(s, n)
             \/ Shown(s, n)
             => n <= down[s]

IInv ==
    /\ Types
    /\ GuardMatchesActor
    /\ Usage
    /\ RequestsCharged
    /\ WireDistinct
    /\ UpInOnePlace
    /\ DownInOnePlace

-----------------------------------------------------------------------------
(* The guard and the usage. *)

\* What stops with the loop of g, a message it took included.
Dies(g) == LoopDies(g) /\ UNCHANGED billed

\* The steps that change where an actor is, or its guard.
LEMMA ActorSteps ==
    ASSUME [Next]_vars
    PROVE  \/ UNCHANGED <<lock, pc>>
           \/ \E s \in Sessions :
                 \/ Open(s) \/ Frame(s) \/ Leave(s) \/ Lock(s) \/ LockPanics(s) \/ Start(s)
                 \/ PushFrame(s) \/ PushPanics(s) \/ Unlock(s) \/ Receive(s)
<1>1. ASSUME NEW s \in Sessions, ServiceFrame(s) \/ End(s) PROVE UNCHANGED <<lock, pc>>
  BY <1>1 DEF busVars, clientVars, ServiceFrame, End
<1>2. ASSUME NEW g \in Gateways, TakeCommand(g) PROVE UNCHANGED <<lock, pc>>
  BY <1>2
  DEF TakeCommand, clientVars, TakeUsage, ContractPanics, TakeFromActor, LoopDies
<1>3. ASSUME NEW g \in Gateways, NEW i, HandleMessage(g, i) \/ Lose(g, i)
      PROVE  UNCHANGED <<lock, pc>>
  BY <1>3
  DEF HandleMessage, busVars, clientVars, LoopDies, HandleConnect, ConnectPanics,
              HandleFrame, FramePanics, Deliver, DeliverPanics, Lose
<1>4. ASSUME ProviderLoop PROVE UNCHANGED <<lock, pc>>
  BY <1>4 DEF ProviderLoop, busVars, clientVars, LoopDies, TakeFromMain, EventTaken,
              ConnectAckPanics
<1>5. ASSUME MainStep PROVE UNCHANGED <<lock, pc>>
  BY <1>5
  DEF MainStep, busVars, clientVars, MainTakesConnect, Connected, ConnectRefused,
              MainTakesFrame, AddressPanics, MainForwards, MainForwarded, ForwardPanics, MainDies
<1>6. CASE UNCHANGED vars
  BY <1>6 DEF vars, busVars, clientVars
<1> QED
  BY <1>1, <1>2, <1>3, <1>4, <1>5, <1>6 DEF Next, ActorStep

\* The steps that change the slot, a charge or a loop, the actor's apart.
LEMMA BusSteps ==
    ASSUME [Next]_vars
    PROVE  \/ UNCHANGED <<cmd, net, billed>>
           \/ \E s \in Sessions : Start(s) \/ PushFrame(s)
           \/ \E g \in Gateways :
                 TakeUsage(g) \/ ContractPanics(g) \/ TakeFromActor(g) \/ Dies(g)
<1>1. ASSUME NEW s \in Sessions,
             \/ Open(s) \/ Frame(s) \/ Leave(s) \/ Lock(s) \/ LockPanics(s) \/ PushPanics(s)
             \/ Unlock(s) \/ Receive(s) \/ ServiceFrame(s) \/ End(s)
      PROVE  UNCHANGED <<cmd, net, billed>>
  BY <1>1
  DEF busVars, clientVars, peerVars, Open, Frame, Leave, Lock, LockPanics,
      PushPanics,
              Unlock, Receive, ServiceFrame, End
<1>2. ASSUME NEW g \in Gateways, NEW i, HandleMessage(g, i) \/ Lose(g, i)
      PROVE  UNCHANGED <<cmd, net, billed>> \/ Dies(g)
  BY <1>2
  DEF HandleMessage, busVars, clientVars, Dies, HandleConnect, ConnectPanics,
              HandleFrame, FramePanics, Deliver, DeliverPanics, Lose
<1>3. ASSUME ProviderLoop PROVE UNCHANGED <<cmd, net, billed>> \/ Dies(Provider)
  BY <1>3 DEF ProviderLoop, busVars, clientVars, Dies, TakeFromMain, EventTaken,
              ConnectAckPanics
<1>4. ASSUME MainStep PROVE UNCHANGED <<cmd, net, billed>>
  BY <1>4
  DEF MainStep, busVars, clientVars, MainTakesConnect, Connected, ConnectRefused,
              MainTakesFrame, AddressPanics, MainForwards, MainForwarded, ForwardPanics, MainDies
<1>5. CASE UNCHANGED vars
  BY <1>5 DEF vars, busVars, clientVars
<1> QED
  BY <1>1, <1>2, <1>3, <1>4, <1>5, ProviderAssumption
  DEF Next, ActorStep, TakeCommand

\* Every action keeps the guard with the actor that is inside started() or handle().
LEMMA NextGuard == TypeOK /\ GuardMatchesActor /\ [Next]_vars => GuardMatchesActor'
<1> SUFFICES ASSUME TypeOK, GuardMatchesActor, [Next]_vars PROVE GuardMatchesActor'
  OBVIOUS
<1> USE SessionType DEF GuardMatchesActor, Holding, Goto
<1>0. lock \in [Gateways -> Handlers \cup {NoHandler}] /\ pc \in [Sessions -> PcStates]
  BY DEF TypeOK
<1>1. ASSUME NEW s \in Sessions, Open(s) \/ Frame(s) \/ Leave(s) \/ LockPanics(s)
      PROVE  GuardMatchesActor'
  BY <1>0, <1>1 DEF Open, Frame, Leave, LockPanics, busVars
<1>2. ASSUME NEW s \in Sessions, Lock(s) PROVE GuardMatchesActor'
  BY <1>0, <1>2 DEF Lock, Acquire
<1>3. ASSUME NEW s \in Sessions, Start(s) \/ PushFrame(s) PROVE GuardMatchesActor'
  BY <1>0, <1>3 DEF Start, PushFrame, PushesTo
<1>4. ASSUME NEW s \in Sessions, PushPanics(s) PROVE GuardMatchesActor'
  BY <1>0, <1>4 DEF PushPanics, PanicWithGuard, Release
<1>5. ASSUME NEW s \in Sessions, Unlock(s) PROVE GuardMatchesActor'
  BY <1>0, <1>5 DEF Unlock, Release
<1>6. ASSUME NEW s \in Sessions, Receive(s) PROVE GuardMatchesActor'
  BY <1>0, <1>6 DEF Receive, busVars
<1>7. CASE UNCHANGED <<lock, pc>>
  BY <1>7
<1> QED
  BY <1>1, <1>2, <1>3, <1>4, <1>5, <1>6, <1>7, ActorSteps

\* The guard of command_sender belongs to the actor inside started() or handle().
THEOREM GuardCorrect == Spec => []GuardMatchesActor
<1>1. Init => GuardMatchesActor
  BY SessionType DEF Init, BusInit, GuardMatchesActor, Holding
<1>2. Types => TypeOK
  BY DEF Types
<1> QED
  BY <1>1, <1>2, InitTypes, NextTypes, NextGuard, PTL DEF Spec

\* Every action keeps a usage in the slot exactly until it is charged.
LEMMA NextUsage == TypeOK /\ Usage /\ [Next]_vars => Usage'
<1> SUFFICES ASSUME TypeOK, Usage, [Next]_vars PROVE Usage'
  OBVIOUS
<1> USE SessionType DEF Usage, Goto, Alive
<1>0. /\ cmd \in [Gateways -> Commands \cup {NoCmd}] /\ net \in [Gateways -> {"running", "dead"}]
      /\ pc \in [Sessions -> PcStates] /\ billed \in [Sessions -> Nat]
  BY DEF TypeOK
<1> DEFINE Quiet(s) == \/ Open(s) \/ Frame(s) \/ Leave(s) \/ Lock(s) \/ LockPanics(s)
                       \/ PushPanics(s) \/ Unlock(s) \/ Receive(s)
<1>1. ASSUME NEW s \in Sessions, Quiet(s) PROVE Usage'
  <2>1. UNCHANGED <<cmd, net, billed>>
    BY <1>1
    DEF Open, Frame, Leave, Lock, LockPanics, PushPanics, Unlock, Receive,
        busVars,
                peerVars
  <2>2. /\ \A t \in Sessions : pc'[t] \in {"idle", "locking", "pushUsage"} =>
              pc[t] \in {"idle", "locking", "pushUsage"}
        /\ \A t \in Sessions : pc'[t] = "flushUsage" => pc[t] = "flushUsage"
        /\ \A t \in Sessions : pc[t] = "flushUsage" =>
              pc'[t] = "flushUsage" \/ ~Alive(ClientOf[t])
    BY <1>0, <1>1
    DEF Open, Frame, Leave, Lock, LockPanics, PushPanics, Unlock, Receive,
                      PcStates, Blocking, Holding
  <2>3. \A t \in Sessions : NoCmd # UsageCmd(t)
    BY CommandFacts
  <2> QED
    BY <2>1, <2>2, <2>3
<1>2. ASSUME NEW s \in Sessions, PushesTo(s, "pushUsage", UsageCmd(s), "flushUsage")
      PROVE  Usage'
  <2>1. UNCHANGED <<net, billed>> /\ pc' = [pc EXCEPT ![s] = "flushUsage"] /\ pc[s] = "pushUsage"
    BY <1>2 DEF PushesTo, peerVars
  <2>2. cmd' = [cmd EXCEPT ![ClientOf[s]] = UsageCmd(s)] /\ net[ClientOf[s]] = "running"
    BY <1>2 DEF PushesTo, Push
  <2>3. \A t \in Sessions : NoCmd # UsageCmd(t) /\ (UsageCmd(t) = UsageCmd(s) => t = s)
    BY CommandFacts
  <2>4. cmd[ClientOf[s]] = NoCmd
    BY <1>2 DEF PushesTo, Push, SlotFree
  <2> QED
    BY <1>0, <2>1, <2>2, <2>3, <2>4
<1>3. ASSUME NEW s \in Sessions, NEW c, NEW from, NEW to, c.kind # "SubmitUsage",
             to \notin {"idle", "locking", "pushUsage", "flushUsage"}, PushesTo(s, from, c, to)
      PROVE  Usage'
  <2>1. UNCHANGED <<net, billed>> /\ pc' = [pc EXCEPT ![s] = to] /\ SlotFree(ClientOf[s])
    BY <1>3 DEF PushesTo, peerVars, Push
  <2>2. cmd' = [cmd EXCEPT ![ClientOf[s]] = c] /\ net[ClientOf[s]] = "running"
    BY <1>3 DEF PushesTo, Push
  <2>3. \A t \in Sessions : c # UsageCmd(t) /\ NoCmd # UsageCmd(t)
    BY <1>3, CommandFacts
  <2>4. cmd[ClientOf[s]] = NoCmd
    BY <2>1 DEF SlotFree
  <2> QED
    BY <1>0, <1>3, <2>1, <2>2, <2>3, <2>4
<1>4. ASSUME NEW s \in Sessions, Start(s) \/ PushFrame(s) PROVE Usage'
  <2>1. CASE PushesTo(s, "flushUsage", RequestCmd(s), "flushRequest")
    BY <1>3, <2>1, CommandFacts
  <2>2. CASE PushesTo(s, "pushFrame", FrameCmd(s, up[s]), "flushFrame")
    BY <1>3, <2>2, CommandFacts
  <2> QED
    BY <1>2, <1>4, <2>1, <2>2 DEF Start, PushFrame
<1>5. ASSUME NEW g \in Gateways, TakeUsage(g) PROVE Usage'
  <2>1. /\ cmd[g] \in Commands /\ cmd[g].kind = "SubmitUsage"
        /\ cmd' = [cmd EXCEPT ![g] = NoCmd] /\ net[g] = "running"
    BY <1>0, <1>5 DEF TakeUsage, Pop, SlotFree
  <2>2. PICK s \in Sessions : cmd[g] = UsageCmd(s)
    BY <2>1, CommandFacts
  <2>3. g = ClientOf[s] /\ billed[s] = 0 /\ pc[s] = "flushUsage" /\ cmd[g].by = s
    BY <2>2, CommandFacts
  <2>4. billed' = [billed EXCEPT ![s] = Fee]
    <3>1. CASE OnChain
      BY <1>0, <1>5, <2>3, <3>1 DEF TakeUsage, Fee
    <3>2. CASE ~OnChain
      BY <1>0, <1>5, <2>3, <3>2 DEF TakeUsage, Fee
    <3> QED
      BY <3>1, <3>2
  <2>5. UNCHANGED <<pc, net>>
    BY <1>5 DEF TakeUsage, Pop
  <2>6. \A t \in Sessions : NoCmd # UsageCmd(t) /\ (cmd[g] = UsageCmd(t) => t = s)
    BY <2>2, CommandFacts
  <2> QED
    BY <1>0, <2>1, <2>2, <2>3, <2>4, <2>5, <2>6
<1>6. ASSUME NEW g \in Gateways, ContractPanics(g) PROVE Usage'
  <2>1. /\ cmd[g].kind = "SubmitUsage" /\ cmd' = [cmd EXCEPT ![g] = NoCmd]
        /\ net' = [net EXCEPT ![g] = "dead"] /\ UNCHANGED pc
        /\ billed' \in {billed, [billed EXCEPT ![cmd[g].by] = @ + 1]}
    BY <1>6 DEF ContractPanics, LoopDies, LoopPanics
  <2>2. PICK s \in Sessions : cmd[g] = UsageCmd(s)
    BY <1>0, <2>1, CommandFacts
  <2>3. g = ClientOf[s] /\ billed[s] = 0 /\ pc[s] = "flushUsage" /\ cmd[g].by = s
    BY <2>2, CommandFacts
  <2>4. \A t \in Sessions \ {s} : billed'[t] = billed[t]
    BY <1>0, <2>1, <2>3
  <2>5. \A t \in Sessions : NoCmd # UsageCmd(t) /\ (UsageCmd(t) = UsageCmd(s) => t = s)
    BY CommandFacts
  <2> QED
    BY <1>0, <2>1, <2>2, <2>3, <2>4, <2>5
<1>7. ASSUME NEW g \in Gateways, TakeFromActor(g) PROVE Usage'
  <2>1. /\ cmd' = [cmd EXCEPT ![g] = NoCmd] /\ UNCHANGED <<pc, net, billed>>
        /\ cmd[g].kind # "SubmitUsage"
    BY <1>7 DEF TakeFromActor, Pop, clientVars
  <2>2. \A t \in Sessions : NoCmd # UsageCmd(t) /\ cmd[g] # UsageCmd(t)
    BY <2>1, CommandFacts
  <2> QED
    BY <1>0, <2>1, <2>2
<1>8. ASSUME NEW g \in Gateways, Dies(g) PROVE Usage'
  <2>1. /\ cmd' = [cmd EXCEPT ![g] = NoCmd] /\ net' = [net EXCEPT ![g] = "dead"]
        /\ UNCHANGED <<pc, billed>>
    BY <1>8 DEF Dies, LoopDies, LoopPanics
  <2>2. \A t \in Sessions : NoCmd # UsageCmd(t)
    BY CommandFacts
  <2> QED
    BY <1>0, <2>1, <2>2
<1>9. CASE UNCHANGED <<cmd, net, billed>> /\ UNCHANGED <<lock, pc>>
  BY <1>9
<1> QED
  BY <1>1, <1>4, <1>5, <1>6, <1>7, <1>8, <1>9, ActorSteps, BusSteps

-----------------------------------------------------------------------------
(* Messages on their way. *)

\* Message i on its way to g is taken, or lost.
Removes(g, i) == wire' = [wire EXCEPT ![g] = RemoveAt(@, i)]

\* The steps that change what is on its way.
LEMMA WireSteps ==
    ASSUME [Next]_vars
    PROVE  \/ UNCHANGED wire
           \/ \E g \in Gateways : \E i \in DOMAIN wire[g] : Removes(g, i)
           \/ \E g \in Gateways : TakeFromActor(g)
           \/ TakeFromMain
<1>1. ASSUME NEW g \in Gateways, NEW i \in DOMAIN wire[g], HandleMessage(g, i) \/ Lose(g, i)
      PROVE  Removes(g, i)
  BY <1>1
  DEF HandleMessage, HandleConnect, ConnectPanics, HandleFrame, FramePanics,
      Takes,
              Deliver, DeliverPanics, Lose, Removes
<1>2. ASSUME NEW s \in Sessions, \/ Open(s) \/ Frame(s) \/ Leave(s) \/ ServiceFrame(s) \/ End(s)
                                 \/ ActorStep(s)
      PROVE  UNCHANGED wire
  BY <1>2
  DEF Open, Frame, Leave, ServiceFrame, End, ActorStep, Lock, LockPanics, Start,
              PushFrame, PushesTo, PushPanics, Unlock, Receive, peerVars
<1>3. ASSUME NEW g \in Gateways, TakeCommand(g) PROVE UNCHANGED wire \/ TakeFromActor(g)
  BY <1>3 DEF TakeCommand, TakeUsage, ContractPanics
<1>4. ASSUME ProviderLoop \/ MainStep PROVE UNCHANGED wire \/ TakeFromMain
  BY <1>4
  DEF ProviderLoop, EventTaken, ConnectAckPanics, MainStep, MainTakesConnect,
      Connected,
              ConnectRefused, MainTakesFrame, AddressPanics, MainForwards, MainForwarded,
              ForwardPanics, MainDies
<1> QED
  BY <1>1, <1>2, <1>3, <1>4 DEF Next, vars

\* A message that is sent joins the others.
LEMMA AfterSend ==
    ASSUME TypeOK, NEW to \in Gateways, NEW k \in Messages, Send(to, k),
           NEW m, OnWire(m)'
    PROVE  OnWire(m) \/ m = k
<1>1. PICK g \in Gateways : \E i \in DOMAIN wire'[g] : wire'[g][i] = m
  BY DEF OnWire
<1>2. PICK i \in DOMAIN wire'[g] : wire'[g][i] = m
  BY <1>1
<1>3. wire[g] \in Seq(Messages) /\ wire' = [wire EXCEPT ![to] = Append(wire[to], k)]
  BY DEF TypeOK, Send
<1>4. CASE g # to
  BY <1>2, <1>3, <1>4 DEF TypeOK, OnWire
<1>5. CASE g = to
  <2>1. wire'[g] = Append(wire[g], k)
    BY <1>3, <1>5 DEF TypeOK
  <2>2. i \in 1..(Len(wire[g]) + 1)
    BY <1>2, <1>3, <2>1
  <2>3. CASE i = Len(wire[g]) + 1
    BY <1>2, <1>3, <2>1, <2>3
  <2>4. CASE i \in 1..Len(wire[g])
    BY <1>2, <1>3, <2>1, <2>4 DEF OnWire
  <2> QED
    BY <1>3, <2>2, <2>3, <2>4
<1> QED
  BY <1>4, <1>5

\* What is on its way when a message was taken was so before, elsewhere.
LEMMA AfterTake ==
    ASSUME TypeOK, NEW g \in Gateways, NEW i \in DOMAIN wire[g],
           Removes(g, i),
           NEW h \in Gateways, NEW j \in DOMAIN wire'[h]
    PROVE  \E l \in DOMAIN wire[h] :
              /\ wire'[h][j] = wire[h][l]
              /\ h = g => l # i /\ l = (IF j < i THEN j ELSE j + 1)
              /\ h # g => l = j
<1>1. wire[g] \in Seq(Messages) /\ i \in 1..Len(wire[g])
  BY DEF TypeOK
<1>2. CASE h # g
  BY <1>2 DEF TypeOK, Removes
<1>3. CASE h = g
  <2>1. wire'[h] = RemoveAt(wire[g], i)
    BY <1>3 DEF TypeOK, Removes
  <2>0. /\ RemoveAt(wire[g], i) \in Seq(Messages)
        /\ Len(RemoveAt(wire[g], i)) = Len(wire[g]) - 1
    BY <1>1, RemoveAtFacts
  <2>2. j \in 1..(Len(wire[g]) - 1) /\ RemoveAt(wire[g], i) \in Seq(Messages)
    BY <1>1, <2>0, <2>1
  <2>3. RemoveAt(wire[g], i)[j] = IF j < i THEN wire[g][j] ELSE wire[g][j + 1]
    BY <1>1, <2>2, RemoveAtFacts
  <2>4. CASE j < i
    BY <1>1, <1>3, <2>1, <2>2, <2>3, <2>4
  <2>5. CASE ~(j < i)
    <3>1. j + 1 \in 1..Len(wire[g]) /\ j + 1 # i
      BY <1>1, <2>2, <2>5
    <3> QED
      BY <1>1, <1>3, <2>1, <2>2, <2>3, <2>5, <3>1
  <2> QED
    BY <2>4, <2>5
<1> QED
  BY <1>2, <1>3

\* A message is on its way only when it was, or a command sent it.
LEMMA WireGrows ==
    ASSUME TypeOK, [Next]_vars, NEW m, OnWire(m)'
    PROVE  \/ OnWire(m)
           \/ \E g \in Gateways :
                 /\ TakeFromActor(g)
                 /\ \/ \E s \in Sessions : cmd[g] = RequestCmd(s) /\ m = Msg(0, s, 0)
                    \/ \E s \in Sessions, n \in Frames :
                          cmd[g] = FrameCmd(s, n) /\ m = Msg(1, s, n)
           \/ /\ TakeFromMain
              /\ mainCmd \in MainCommands /\ m = Msg(2, mainCmd.by, mainCmd.n)
<1>1. CASE UNCHANGED wire
  BY <1>1 DEF OnWire
<1>2. ASSUME NEW g \in Gateways, NEW i \in DOMAIN wire[g], Removes(g, i)
      PROVE  OnWire(m)
  <2>1. PICK h \in Gateways : \E j \in DOMAIN wire'[h] : wire'[h][j] = m
    BY DEF OnWire
  <2>2. PICK j \in DOMAIN wire'[h] : wire'[h][j] = m
    BY <2>1
  <2>3. \E l \in DOMAIN wire[h] : wire'[h][j] = wire[h][l]
    BY <1>2, <2>2, AfterTake
  <2> QED
    BY <2>2, <2>3 DEF OnWire
<1>3. ASSUME NEW g \in Gateways, TakeFromActor(g), ~OnWire(m)
      PROVE  \/ \E s \in Sessions : cmd[g] = RequestCmd(s) /\ m = Msg(0, s, 0)
             \/ \E s \in Sessions, n \in Frames : cmd[g] = FrameCmd(s, n) /\ m = Msg(1, s, n)
  <2>1. cmd[g] \in Commands
    BY <1>3 DEF TakeFromActor, Pop, SlotFree, TypeOK
  <2>2. CASE cmd[g].kind = "SendRequest" /\ Send(Provider, Msg(0, cmd[g].by, 0))
    <3>1. cmd[g].by \in Sessions /\ cmd[g] = RequestCmd(cmd[g].by)
      BY <2>1, <2>2, CommandFacts
    <3>2. m = Msg(0, cmd[g].by, 0)
      BY <1>3, <2>2, <3>1, AfterSend, MessageFacts, ProviderAssumption
    <3> QED
      BY <3>1, <3>2
  <2>3. CASE cmd[g].kind = "SendProxyData" /\ Send(Provider, Msg(1, cmd[g].by, cmd[g].n))
    <3>1. cmd[g].by \in Sessions /\ cmd[g].n \in Frames /\ cmd[g] = FrameCmd(cmd[g].by, cmd[g].n)
      BY <2>1, <2>3, CommandFacts
    <3>2. m = Msg(1, cmd[g].by, cmd[g].n)
      BY <1>3, <2>3, <3>1, AfterSend, MessageFacts, ProviderAssumption
    <3> QED
      BY <3>1, <3>2
  <2> QED
    BY <1>3, <2>2, <2>3 DEF TakeFromActor
<1>4. ASSUME TakeFromMain, ~OnWire(m)
      PROVE  mainCmd \in MainCommands /\ m = Msg(2, mainCmd.by, mainCmd.n)
  <2>1. mainCmd \in MainCommands /\ Send(mainCmd.to, Msg(2, mainCmd.by, mainCmd.n))
    BY <1>4 DEF TakeFromMain, TypeOK
  <2>2. mainCmd.to \in Gateways /\ Msg(2, mainCmd.by, mainCmd.n) \in Messages
    BY <2>1, MessageFacts DEF MainCommands
  <2> QED
    BY <1>4, <2>1, <2>2, AfterSend
<1> QED
  BY <1>1, <1>2, <1>3, <1>4, WireSteps

-----------------------------------------------------------------------------
(* The charge comes before the connection. *)

\* The steps that change what main, or a service, has.
LEMMA MainSteps ==
    ASSUME [Next]_vars
    PROVE  \/ UNCHANGED <<event, mainVars>>
           \/ \E i \in DOMAIN wire[Provider] : HandleConnect(i) \/ HandleFrame(i)
           \/ MainStep
           \/ \E s \in Sessions : ServiceFrame(s) \/ End(s)
<1>1. ASSUME NEW g \in Gateways, NEW i \in DOMAIN wire[g], HandleMessage(g, i) \/ Lose(g, i)
      PROVE  \/ UNCHANGED <<event, mainVars>>
             \/ g = Provider /\ (HandleConnect(i) \/ HandleFrame(i))
  BY <1>1
  DEF HandleMessage, ConnectPanics, FramePanics, LoopDies, Deliver, DeliverPanics,
      Lose
<1>2. ASSUME NEW s \in Sessions, Open(s) \/ Frame(s) \/ Leave(s) \/ ActorStep(s)
      PROVE  UNCHANGED <<event, mainVars>>
  BY <1>2
  DEF Open, Frame, Leave, ActorStep, Lock, LockPanics, Start, PushFrame, PushesTo,
              PushPanics, Unlock, Receive, peerVars
<1>3. ASSUME NEW g \in Gateways, TakeCommand(g) PROVE UNCHANGED <<event, mainVars>>
  BY <1>3 DEF TakeCommand, TakeUsage, ContractPanics, LoopDies, TakeFromActor
<1>4. ASSUME ProviderLoop PROVE UNCHANGED <<event, mainVars>>
  BY <1>4 DEF ProviderLoop, TakeFromMain, EventTaken, ConnectAckPanics, LoopDies
<1> QED
  BY <1>1, <1>2, <1>3, <1>4 DEF Next, vars

\* An actor behind its usage never gets back to it.
LEMMA NotCalledBack ==
    ASSUME TypeOK, [Next]_vars, NEW s \in Sessions,
           pc[s] \notin {"idle", "locking", "pushUsage", "flushUsage"}
    PROVE  pc'[s] \notin {"idle", "locking", "pushUsage", "flushUsage"}
<1>1. pc \in [Sessions -> PcStates]
  BY DEF TypeOK
<1>2. ASSUME NEW t \in Sessions,
             \/ Open(t) \/ Frame(t) \/ Leave(t) \/ Lock(t) \/ LockPanics(t) \/ Start(t)
             \/ PushFrame(t) \/ PushPanics(t) \/ Unlock(t) \/ Receive(t)
      PROVE  pc'[s] \notin {"idle", "locking", "pushUsage", "flushUsage"}
  BY <1>1, <1>2
  DEF Open, Frame, Leave, Lock, LockPanics, Start, PushFrame, PushesTo,
      PushPanics,
                    Unlock, Receive, Goto
<1> QED
  BY <1>2, ActorSteps

\* A session that was charged is not charged again.
LEMMA ChargedForEver ==
    ASSUME TypeOK, Usage, [Next]_vars, NEW s \in Sessions, Charged(s)
    PROVE  Charged(s)'
<1>1. /\ cmd \in [Gateways -> Commands \cup {NoCmd}]
      /\ billed \in [Sessions -> Nat]
  BY DEF TypeOK
<1>2. pc[s] \notin {"idle", "locking", "pushUsage", "flushUsage"}
  BY DEF Charged
<1>3. ASSUME NEW g \in Gateways, TakeUsage(g) \/ ContractPanics(g) PROVE billed'[s] = billed[s]
  <2>1. cmd[g] \in Commands /\ cmd[g].kind = "SubmitUsage"
    BY <1>1, <1>3, CommandFacts DEF TakeUsage, ContractPanics, Pop, SlotFree
  <2>2. cmd[g] = UsageCmd(cmd[g].by) /\ cmd[g].by \in Sessions
    BY <2>1, CommandFacts
  <2>3. pc[cmd[g].by] = "flushUsage"
    BY <2>2 DEF Usage
  <2>4. cmd[g].by # s
    BY <1>2, <2>3
  <2>5. billed' \in {billed, [billed EXCEPT ![cmd[g].by] = @ + 1]}
    BY <1>3 DEF TakeUsage, ContractPanics
  <2> QED
    BY <1>1, <2>2, <2>4, <2>5
<1>4. ASSUME NEW t \in Sessions, Start(t) \/ PushFrame(t) PROVE UNCHANGED billed
  BY <1>4 DEF Start, PushFrame, PushesTo, peerVars
<1>5. ASSUME NEW g \in Gateways, TakeFromActor(g) \/ Dies(g) PROVE UNCHANGED billed
  BY <1>5 DEF TakeFromActor, Dies, clientVars
<1>6. billed'[s] = billed[s]
  BY <1>3, <1>4, <1>5, BusSteps
<1> QED
  BY <1>2, <1>6, NotCalledBack DEF Charged, Fee

\* The connection request takes its way step by step, from the push on.
LEMMA RequestMoves ==
    ASSUME TypeOK, [Next]_vars, NEW s \in Sessions, Requested(s)'
    PROVE  Requested(s) \/ PushesTo(s, "flushUsage", RequestCmd(s), "flushRequest")
<1>1. ASSUME NEW g \in Gateways, cmd'[g] = RequestCmd(s)
      PROVE  \/ cmd[g] = RequestCmd(s)
             \/ PushesTo(s, "flushUsage", RequestCmd(s), "flushRequest")
  <2>1. cmd \in [Gateways -> Commands \cup {NoCmd}] /\ NoCmd # RequestCmd(s)
    BY CommandFacts DEF TypeOK
  <2>2. ASSUME NEW t \in Sessions, Start(t) \/ PushFrame(t), cmd'[g] # cmd[g]
        PROVE  PushesTo(s, "flushUsage", RequestCmd(s), "flushRequest")
    <3>1. CASE PushesTo(t, "pushUsage", UsageCmd(t), "flushUsage")
      BY <1>1, <2>1, <2>2, <3>1, CommandFacts DEF PushesTo, Push
    <3>2. CASE PushesTo(t, "pushFrame", FrameCmd(t, up[t]), "flushFrame")
      BY <1>1, <2>1, <2>2, <3>2, CommandFacts DEF PushesTo, Push
    <3>3. CASE PushesTo(t, "flushUsage", RequestCmd(t), "flushRequest")
      <4>1. RequestCmd(t) = RequestCmd(s)
        BY <1>1, <2>1, <2>2, <3>3 DEF PushesTo, Push
      <4>2. t = s
        BY <4>1, CommandFacts
      <4> QED
        BY <3>3, <4>2
    <3> QED
      BY <2>2, <3>1, <3>2, <3>3 DEF Start, PushFrame
  <2>3. ASSUME NEW h \in Gateways,
               TakeUsage(h) \/ ContractPanics(h) \/ TakeFromActor(h) \/ Dies(h)
        PROVE  cmd[g] = RequestCmd(s)
    BY <1>1, <2>1, <2>3
    DEF TakeUsage, ContractPanics, TakeFromActor, Dies, LoopDies, LoopPanics,
                            Pop
  <2> QED
    BY <1>1, <2>2, <2>3, BusSteps
<1>2. ASSUME OnWire(Msg(0, s, 0))' PROVE Requested(s)
  <2>1. PICK m : m = Msg(0, s, 0)
    OBVIOUS
  <2>2. OnWire(m)'
    BY <1>2, <2>1 DEF OnWire, Msg
  <2> QED
    BY <2>1, <2>2, WireGrows, MessageFacts DEF Requested
<1>3. ASSUME event' = Connect(s), event' # event PROVE Requested(s)
  <2>1. PICK i \in DOMAIN wire[Provider] : HandleConnect(i) \/ HandleFrame(i)
    BY <1>3, MainSteps, EventFacts
       DEF MainStep, MainTakesConnect, Connected, ConnectRefused, MainTakesFrame, AddressPanics,
           MainForwards, MainForwarded, ForwardPanics, MainDies, ServiceFrame, End
  <2>2. HandleConnect(i)
    BY <1>3, <2>1, EventFacts DEF HandleFrame
  <2>3. /\ wire[Provider][i] \in Messages /\ wire[Provider][i].schema = 0
        /\ event' = Connect(wire[Provider][i].by)
    BY <2>2, RemovalTypes, ProviderAssumption DEF HandleConnect, Takes
  <2>4. wire[Provider][i].by = s
    BY <1>3, <2>3 DEF Connect
  <2>5. wire[Provider][i] = Msg(0, s, 0)
    BY <2>3, <2>4, MessageFacts
  <2> QED
    BY <2>5, ProviderAssumption DEF Requested, OnWire
<1>4. ASSUME main'.at = "connecting", main'.by = s, main' # main PROVE Requested(s)
  <2>0. MainStep
    BY <1>4, MainSteps DEF HandleConnect, HandleFrame, mainVars, ServiceFrame, End
  <2>1. MainTakesConnect
    <3>1. main'.at \notin {"select", "sending", "dead"}
      BY <1>4
    <3> QED
      BY <1>4, <2>0, <3>1
         DEF MainStep, Connected, ConnectRefused, MainTakesFrame, AddressPanics, MainForwards,
             MainForwarded, ForwardPanics, MainDies, Select
  <2>2. event \in Events /\ event.kind = "connect" /\ event.by = s
    BY <1>4, <2>1, EventFacts DEF MainTakesConnect, TypeOK
  <2> QED
    BY <2>2, EventFacts DEF Requested
<1>5. ASSUME s \in addresses', s \notin addresses PROVE Requested(s)
  BY <1>5, MainSteps
     DEF MainStep, HandleConnect, HandleFrame, mainVars, MainTakesConnect, Connected,
         ConnectRefused, MainTakesFrame, AddressPanics, MainForwards, MainForwarded,
         ForwardPanics, MainDies, ServiceFrame, End, Requested
<1>6. ASSUME got'[s] # got[s] PROVE Requested(s)
  <2>1. MainTakesFrame
    BY <1>6, MainSteps
       DEF MainStep, HandleConnect, HandleFrame, mainVars, MainTakesConnect, Connected,
           ConnectRefused, AddressPanics, MainForwards, MainForwarded,
           ForwardPanics, MainDies, ServiceFrame, End
  <2>2. event.by = s
    BY <1>6, <2>1 DEF MainTakesFrame, TypeOK
  <2> QED
    BY <2>1, <2>2 DEF MainTakesFrame, Requested
<1> QED
  BY <1>1, <1>2, <1>3, <1>4, <1>5, <1>6 DEF Requested

\* Every request on its way is one of a session that was charged.
LEMMA NextRequests ==
    TypeOK /\ Usage /\ RequestsCharged /\ [Next]_vars => RequestsCharged'
<1> SUFFICES ASSUME TypeOK, Usage, RequestsCharged, [Next]_vars,
                    NEW s \in Sessions, Requested(s)'
             PROVE  Charged(s)'
  BY DEF RequestsCharged
<1>1. CASE Requested(s)
  BY <1>1, ChargedForEver DEF RequestsCharged
<1>2. CASE PushesTo(s, "flushUsage", RequestCmd(s), "flushRequest")
  <2>1. /\ pc[s] = "flushUsage" /\ Alive(ClientOf[s]) /\ cmd[ClientOf[s]] = NoCmd
        /\ pc' = [pc EXCEPT ![s] = "flushRequest"] /\ UNCHANGED billed
    BY <1>2 DEF PushesTo, Push, SlotFree, Goto, peerVars
  <2>2. billed[s] = Fee
    BY <2>1, CommandFacts DEF Usage
  <2>3. pc'[s] = "flushRequest"
    BY <2>1 DEF TypeOK
  <2> QED
    BY <2>1, <2>2, <2>3 DEF Charged, Fee
<1> QED
  BY <1>1, <1>2, RequestMoves

\* Nothing is on its way at the start.
LEMMA EmptyWire == Init => \A g \in Gateways : DOMAIN wire[g] = {}
<1> SUFFICES ASSUME Init PROVE \A g \in Gateways : DOMAIN wire[g] = {}
  OBVIOUS
<1>1. \A g \in Gateways : wire[g] = <<>>
  BY DEF Init
<1>2. <<>> \in Seq({}) /\ Len(<<>>) = 0
  BY EmptySeq
<1>3. DOMAIN <<>> = 1..Len(<<>>)
  BY <1>2, LenProperties
<1>4. DOMAIN <<>> = {}
  BY <1>2, <1>3
<1> QED
  BY <1>1, <1>4, Zenon

\* The invariant of the charges holds at the start.
LEMMA InitCharges == Init => Usage /\ RequestsCharged
<1> SUFFICES ASSUME Init PROVE Usage /\ RequestsCharged
  OBVIOUS
<1>1. Usage
  BY CommandFacts, SessionType DEF Init, BusInit, Usage, Alive
<1>2. \A g \in Gateways : DOMAIN wire[g] = {}
  BY EmptyWire
<1>3. \A s \in Sessions : ~Requested(s)
  BY <1>2, CommandFacts, EventFacts, SessionType
     DEF Init, BusInit, Requested, OnWire, Select
<1> QED
  BY <1>1, <1>3 DEF RequestsCharged

\* The service is reached only by sessions that were charged, once.
THEOREM ConnectionsCharged == Spec => []ChargedBeforeConnected
<1>1. RequestsCharged => ChargedBeforeConnected
  BY DEF RequestsCharged, Requested, Charged, ChargedBeforeConnected, Fee
<1>2. Types => TypeOK
  BY DEF Types
<1> QED
  BY <1>1, <1>2, InitTypes, NextTypes, InitCharges, NextUsage, NextRequests, PTL
  DEF Spec

-----------------------------------------------------------------------------
(* Nothing is there twice. *)

\* Appending a new element keeps a sequence free of repetitions.
LEMMA AppendDistinct ==
    ASSUME NEW S, NEW seq \in Seq(S), NEW x \in S
    PROVE  /\ \A y : Among(y, Append(seq, x)) <=> Among(y, seq) \/ y = x
           /\ Distinct(seq) /\ ~Among(x, seq) => Distinct(Append(seq, x))
<1>1. /\ DOMAIN seq = 1..Len(seq) /\ Len(seq) \in Nat
      /\ DOMAIN Append(seq, x) = 1..(Len(seq) + 1)
      /\ \A i \in 1..Len(seq) : Append(seq, x)[i] = seq[i]
      /\ Append(seq, x)[Len(seq) + 1] = x
  BY AppendProperties, LenProperties
<1> QED
  BY <1>1 DEF Among, Distinct

\* The head of a sequence without repetitions is not in its tail.
LEMMA TailDistinct ==
    ASSUME NEW S, NEW seq \in Seq(S), seq # <<>>
    PROVE  /\ Head(seq) \in S /\ Tail(seq) \in Seq(S) /\ Among(Head(seq), seq)
           /\ \A y : Among(y, Tail(seq)) => Among(y, seq)
           /\ Distinct(seq) => Distinct(Tail(seq)) /\ ~Among(Head(seq), Tail(seq))
<1>1. /\ DOMAIN seq = 1..Len(seq) /\ Len(seq) \in Nat \ {0}
      /\ Head(seq) \in S /\ Tail(seq) \in Seq(S)
      /\ DOMAIN Tail(seq) = 1..(Len(seq) - 1)
      /\ \A i \in 1..(Len(seq) - 1) : Tail(seq)[i] = seq[i + 1]
  BY HeadTailProperties, LenProperties, EmptySeq
<1>2. Head(seq) = seq[1] /\ 1 \in DOMAIN seq
  BY <1>1
<1> QED
  BY <1>1, <1>2 DEF Among, Distinct

\* Where a message is on the way after one was sent.
LEMMA SendPlaces ==
    ASSUME TypeOK, NEW to \in Gateways, NEW k \in Messages, Send(to, k),
           NEW h \in Gateways, NEW j \in DOMAIN wire'[h]
    PROVE  \/ j \in DOMAIN wire[h] /\ wire'[h][j] = wire[h][j]
           \/ h = to /\ j = Len(wire[to]) + 1 /\ wire'[h][j] = k
<1>1. wire[h] \in Seq(Messages) /\ wire' = [wire EXCEPT ![to] = Append(wire[to], k)]
  BY DEF TypeOK, Send
<1>2. CASE h # to
  BY <1>1, <1>2 DEF TypeOK
<1>3. CASE h = to
  <2>1. wire'[h] = Append(wire[h], k)
    BY <1>1, <1>3 DEF TypeOK
  <2>2. j \in 1..(Len(wire[h]) + 1)
    BY <1>1, <2>1
  <2>3. CASE j = Len(wire[h]) + 1
    BY <1>1, <1>3, <2>1, <2>3
  <2>4. CASE j \in 1..Len(wire[h])
    BY <1>1, <2>1, <2>4
  <2> QED
    BY <1>1, <2>2, <2>3, <2>4
<1> QED
  BY <1>2, <1>3

\* A message that is sent and is not on its way, or names no frame, is no repetition.
LEMMA SendDistinct ==
    ASSUME TypeOK, WireDistinct, NEW to \in Gateways, NEW k \in Messages, Send(to, k),
           k.schema = 0 \/ ~OnWire(k)
    PROVE  WireDistinct'
<1> SUFFICES ASSUME NEW g \in Gateways, NEW h \in Gateways,
                    NEW i \in DOMAIN wire'[g], NEW j \in DOMAIN wire'[h],
                    wire'[g][i] = wire'[h][j], wire'[g][i].schema # 0
             PROVE  g = h /\ i = j
  BY DEF WireDistinct
<1>1. \/ i \in DOMAIN wire[g] /\ wire'[g][i] = wire[g][i]
      \/ g = to /\ i = Len(wire[to]) + 1 /\ wire'[g][i] = k
  BY SendPlaces
<1>2. \/ j \in DOMAIN wire[h] /\ wire'[h][j] = wire[h][j]
      \/ h = to /\ j = Len(wire[to]) + 1 /\ wire'[h][j] = k
  BY SendPlaces
<1> QED
  BY <1>1, <1>2 DEF WireDistinct, OnWire

\* A message with a frame that was taken is no longer on its way.
LEMMA TakeDistinct ==
    ASSUME TypeOK, WireDistinct, NEW g \in Gateways, NEW i \in DOMAIN wire[g], Removes(g, i)
    PROVE  /\ WireDistinct'
           /\ \A m : m = wire[g][i] /\ m.schema # 0 => ~OnWire(m)'
<1>1. ASSUME NEW h \in Gateways, NEW j \in DOMAIN wire'[h]
      PROVE  \E l \in DOMAIN wire[h] :
                /\ wire'[h][j] = wire[h][l]
                /\ h = g => l # i /\ l = (IF j < i THEN j ELSE j + 1)
                /\ h # g => l = j
  BY AfterTake
<1>2. ASSUME NEW m, m = wire[g][i], m.schema # 0, OnWire(m)' PROVE FALSE
  <2>1. PICK h \in Gateways : \E j \in DOMAIN wire'[h] : wire'[h][j] = m
    BY <1>2 DEF OnWire
  <2>2. PICK j \in DOMAIN wire'[h] : wire'[h][j] = m
    BY <2>1
  <2>3. PICK l \in DOMAIN wire[h] : wire[h][l] = m /\ (h = g => l # i)
    BY <1>1, <2>2
  <2> QED
    BY <1>2, <2>3 DEF WireDistinct
<1>3. ASSUME NEW h \in Gateways, NEW k \in Gateways,
             NEW j \in DOMAIN wire'[h], NEW l \in DOMAIN wire'[k],
             wire'[h][j] = wire'[k][l], wire'[h][j].schema # 0
      PROVE  h = k /\ j = l
  <2>1. i \in Nat /\ j \in Nat /\ l \in Nat
    <3>1. \A f \in Gateways : wire[f] \in Seq(Messages)
      BY DEF TypeOK
    <3>2. wire[g] \in Seq(Messages) /\ RemoveAt(wire[g], i) \in Seq(Messages)
      BY <3>1, RemoveAtFacts
    <3>3. \A f \in Gateways : wire'[f] \in Seq(Messages)
      BY <3>1, <3>2 DEF Removes, TypeOK
    <3> QED
      BY <3>1, <3>3
  <2>2. PICK a \in DOMAIN wire[h] : /\ wire'[h][j] = wire[h][a]
                                    /\ h = g => a = (IF j < i THEN j ELSE j + 1)
                                    /\ h # g => a = j
    BY <1>1
  <2>3. PICK b \in DOMAIN wire[k] : /\ wire'[k][l] = wire[k][b]
                                    /\ k = g => b = (IF l < i THEN l ELSE l + 1)
                                    /\ k # g => b = l
    BY <1>1
  <2>4. h = k /\ a = b
    <3>1. wire[h][a] = wire[k][b] /\ wire[h][a].schema # 0
      BY <1>3, <2>2, <2>3
    <3> QED
      BY <3>1 DEF WireDistinct
  <2> QED
    BY <2>1, <2>2, <2>3, <2>4
<1> QED
  BY <1>2, <1>3 DEF WireDistinct

\* Every action keeps the messages with frames apart.
LEMMA NextWire ==
    TypeOK /\ WireDistinct /\ UpInOnePlace /\ DownInOnePlace /\ [Next]_vars => WireDistinct'
<1> SUFFICES ASSUME TypeOK, WireDistinct, UpInOnePlace, DownInOnePlace, [Next]_vars
             PROVE  WireDistinct'
  OBVIOUS
<1>1. CASE UNCHANGED wire
  BY <1>1 DEF WireDistinct
<1>2. ASSUME NEW g \in Gateways, NEW i \in DOMAIN wire[g], Removes(g, i) PROVE WireDistinct'
  BY <1>2, TakeDistinct
<1>3. ASSUME NEW g \in Gateways, TakeFromActor(g) PROVE WireDistinct'
  <2>1. cmd[g] \in Commands
    BY <1>3 DEF TakeFromActor, Pop, SlotFree, TypeOK
  <2>2. CASE cmd[g].kind = "SendRequest" /\ Send(Provider, Msg(0, cmd[g].by, 0))
    <3>1. cmd[g].by \in Sessions
      BY <2>1, CommandFacts
    <3> QED
      BY <2>2, <3>1, SendDistinct, MessageFacts, ProviderAssumption
  <2>3. CASE cmd[g].kind = "SendProxyData" /\ Send(Provider, Msg(1, cmd[g].by, cmd[g].n))
    <3>1. cmd[g].by \in Sessions /\ cmd[g].n \in Frames /\ cmd[g] = FrameCmd(cmd[g].by, cmd[g].n)
      BY <2>1, <2>3, CommandFacts
    <3>2. Pushed(cmd[g].by, cmd[g].n)
      BY <3>1 DEF Pushed
    <3>3. ~OnWire(Msg(1, cmd[g].by, cmd[g].n))
      BY <3>1, <3>2 DEF UpInOnePlace, Sent
    <3> QED
      BY <2>3, <3>1, <3>3, SendDistinct, MessageFacts, ProviderAssumption
  <2> QED
    BY <1>3, <2>2, <2>3 DEF TakeFromActor
<1>4. ASSUME TakeFromMain PROVE WireDistinct'
  <2>1. mainCmd \in MainCommands /\ Send(mainCmd.to, Msg(2, mainCmd.by, mainCmd.n))
    BY <1>4 DEF TakeFromMain, TypeOK
  <2>2. mainCmd.to \in Gateways /\ mainCmd.by \in Sessions /\ mainCmd.n \in Frames
    BY <2>1 DEF MainCommands
  <2>3. ~OnWire(Msg(2, mainCmd.by, mainCmd.n))
    BY <2>2 DEF DownInOnePlace, Returned, Forwarded
  <2> QED
    BY <2>1, <2>2, <2>3, SendDistinct, MessageFacts
<1> QED
  BY <1>1, <1>2, <1>3, <1>4, WireSteps

-----------------------------------------------------------------------------
(* The way of the user's frames. *)

\* A frame is in the slot only when it was, or its actor pushes it.
LEMMA PushMoves ==
    ASSUME TypeOK, [Next]_vars, NEW s \in Sessions, NEW n \in Frames, Pushed(s, n)'
    PROVE  Pushed(s, n) \/ (PushFrame(s) /\ n = up[s])
<1>1. cmd \in [Gateways -> Commands \cup {NoCmd}]
  BY DEF TypeOK
<1>2. PICK g \in Gateways : cmd'[g] = FrameCmd(s, n)
  BY DEF Pushed, FrameCmd
<1>3. NoCmd # FrameCmd(s, n)
  BY CommandFacts
<1>4. ASSUME NEW t \in Sessions, Start(t) PROVE cmd[g] = FrameCmd(s, n)
  BY <1>1, <1>2, <1>4, CommandFacts DEF Start, PushesTo, Push
<1>5. ASSUME NEW t \in Sessions, PushFrame(t), cmd[g] # FrameCmd(s, n)
      PROVE  t = s /\ n = up[s]
  <2>1. FrameCmd(t, up[t]) = FrameCmd(s, n)
    BY <1>1, <1>2, <1>5 DEF PushFrame, PushesTo, Push
  <2>2. t = s /\ up[t] = n
    BY <2>1 DEF FrameCmd
  <2> QED
    BY <2>2
<1>6. ASSUME NEW h \in Gateways,
             TakeUsage(h) \/ ContractPanics(h) \/ TakeFromActor(h) \/ Dies(h)
      PROVE  cmd[g] = FrameCmd(s, n)
  BY <1>1, <1>2, <1>3, <1>6
  DEF TakeUsage, ContractPanics, TakeFromActor, Dies, LoopDies,
                                LoopPanics, Pop
<1> QED
  BY <1>2, <1>4, <1>5, <1>6, BusSteps DEF Pushed

\* It is on its way only when it was, or the loop takes it out of the slot.
LEMMA SentMoves ==
    ASSUME TypeOK, UpInOnePlace, [Next]_vars, NEW s \in Sessions, NEW n \in Frames, Sent(s, n)'
    PROVE  Sent(s, n) \/ (Pushed(s, n) /\ ~Pushed(s, n)')
<1> SUFFICES ASSUME ~Sent(s, n) PROVE Pushed(s, n) /\ ~Pushed(s, n)'
  OBVIOUS
<1>1. PICK m : m = Msg(1, s, n)
  OBVIOUS
<1>2. OnWire(m)' /\ ~OnWire(m) /\ m.schema = 1 /\ m.by = s /\ m.n = n
  BY <1>1 DEF Sent, OnWire, Msg
<1>3. PICK g \in Gateways, t \in Sessions, k \in Frames :
         TakeFromActor(g) /\ cmd[g] = FrameCmd(t, k) /\ m = Msg(1, t, k)
  BY <1>2, WireGrows, MessageFacts
<1>4. t = s /\ k = n
  BY <1>2, <1>3, MessageFacts
<1>5. cmd' = [cmd EXCEPT ![g] = NoCmd] /\ cmd \in [Gateways -> Commands \cup {NoCmd}]
  BY <1>3 DEF TakeFromActor, Pop, TypeOK
<1>6. ASSUME NEW h \in Gateways, cmd[h] = FrameCmd(s, n) PROVE h = ClientOf[s]
  BY <1>6, CommandFacts DEF UpInOnePlace
<1>7. \A h \in Gateways : cmd'[h] # FrameCmd(s, n)
  BY <1>3, <1>4, <1>5, <1>6, CommandFacts
<1> QED
  BY <1>3, <1>4, <1>7 DEF Pushed, FrameCmd

\* It is handed to main only when it was, or it arrives.
LEMMA HandedMoves ==
    ASSUME TypeOK, WireDistinct, [Next]_vars,
           NEW s \in Sessions, NEW n \in Frames, Handed(s, n)'
    PROVE  Handed(s, n) \/ (Sent(s, n) /\ ~Sent(s, n)')
<1> SUFFICES ASSUME ~Handed(s, n) PROVE Sent(s, n) /\ ~Sent(s, n)'
  OBVIOUS
<1>1. event' = Data(s, n) /\ event' # event
  BY DEF Handed, Data
<1>2. PICK i \in DOMAIN wire[Provider] : HandleConnect(i) \/ HandleFrame(i)
  BY <1>1, MainSteps, EventFacts
     DEF MainStep, MainTakesConnect, Connected, ConnectRefused, MainTakesFrame, AddressPanics,
         MainForwards, MainForwarded, ForwardPanics, MainDies, ServiceFrame, End
<1>3. HandleFrame(i)
  BY <1>1, <1>2 DEF HandleConnect, Connect, Data
<1>4. PICK m : m = wire[Provider][i]
  OBVIOUS
<1>5. m \in Messages /\ m.schema = 1 /\ Removes(Provider, i) /\ event' = Data(m.by, m.n)
  BY <1>3, <1>4, RemovalTypes, ProviderAssumption DEF HandleFrame, Takes, Removes
<1>6. m.by = s /\ m.n = n
  BY <1>1, <1>5 DEF Data
<1>7. m = Msg(1, s, n)
  BY <1>5, <1>6, MessageFacts
<1>8. ~OnWire(m)'
  BY <1>4, <1>5, TakeDistinct, ProviderAssumption
<1>9. OnWire(m)
  BY <1>4, ProviderAssumption DEF OnWire
<1> QED
  BY <1>7, <1>8, <1>9 DEF Sent, OnWire, Msg

\* The steps that change what the services have got.
LEMMA GotSteps ==
    ASSUME [Next]_vars
    PROVE  UNCHANGED got \/ MainTakesFrame
BY MainSteps
   DEF MainStep, HandleConnect, HandleFrame, mainVars, MainTakesConnect, Connected,
       ConnectRefused, AddressPanics, MainForwards, MainForwarded, ForwardPanics, MainDies,
       ServiceFrame, End

\* The service gets a frame only when main takes the event.
LEMMA GotMoves ==
    ASSUME TypeOK, [Next]_vars, NEW s \in Sessions
    PROVE  \/ got'[s] = got[s]
           \/ \E n \in Frames :
                 Handed(s, n) /\ (\A k \in Frames : ~Handed(s, k)') /\ got'[s] = Append(got[s], n)
<1>1. CASE MainTakesFrame
  <2>1. event \in Events /\ event' = NoEvent
    BY <1>1, EventFacts DEF MainTakesFrame, TypeOK
  <2>2. event.by \in Sessions /\ event.n \in Frames /\ event = Data(event.by, event.n)
    BY <1>1, <2>1, EventFacts DEF MainTakesFrame
  <2>3. \A k \in Frames : ~Handed(s, k)'
    BY <2>1 DEF Handed, Data, NoEvent
  <2>4. CASE event.by = s
    BY <1>1, <2>2, <2>3, <2>4 DEF MainTakesFrame, TypeOK, Handed
  <2>5. CASE event.by # s
    BY <1>1, <2>5 DEF MainTakesFrame, TypeOK
  <2> QED
    BY <2>4, <2>5
<1> QED
  BY <1>1, GotSteps

\* Only the user changes what it has sent.
LEMMA UpSteps ==
    ASSUME [Next]_vars
    PROVE  UNCHANGED up \/ \E t \in Sessions : Frame(t)
BY
DEF Next, vars, ActorStep, TakeCommand, HandleMessage, ProviderLoop, MainStep,
    clientVars,
       Open, Leave, ServiceFrame, End, Lock, LockPanics, Start, PushFrame, PushesTo,
       PushPanics, Unlock, Receive, TakeUsage, ContractPanics, TakeFromActor, LoopDies,
       HandleConnect, ConnectPanics, HandleFrame, FramePanics, Deliver, DeliverPanics, Lose,
       TakeFromMain, EventTaken, ConnectAckPanics, MainTakesConnect, Connected,
       ConnectRefused, MainTakesFrame, AddressPanics, MainForwards, MainForwarded,
       ForwardPanics, MainDies

\* What is behind stays behind, and a frame that is pushed is behind then.
LEMMA BehindForEver ==
    ASSUME TypeOK, [Next]_vars, NEW s \in Sessions, NEW n \in Frames,
           Behind(s, n) \/ (PushFrame(s) /\ n = up[s])
    PROVE  Behind(s, n)'
<1>1. /\ pc \in [Sessions -> PcStates] /\ up \in [Sessions -> 0..MaxFrames]
      /\ MaxFrames \in Nat /\ n \in Nat
  BY SessionType DEF TypeOK, Frames
<1>2. CASE PushFrame(s) /\ n = up[s]
  BY <1>1, <1>2 DEF PushFrame, PushesTo, Goto, Behind
<1>3. CASE UNCHANGED <<lock, pc>> /\ UNCHANGED up
  BY <1>1, <1>2, <1>3 DEF Behind, PushFrame, PushesTo, Goto
<1>4. ASSUME NEW t \in Sessions, Frame(t), Behind(s, n) PROVE Behind(s, n)'
  BY <1>1, <1>4 DEF Frame, Goto, Behind
<1>5. ASSUME NEW t \in Sessions,
             \/ Open(t) \/ Leave(t) \/ Lock(t) \/ LockPanics(t) \/ Start(t)
             \/ PushFrame(t) \/ PushPanics(t) \/ Unlock(t) \/ Receive(t),
             Behind(s, n)
      PROVE  Behind(s, n)'
  <2>1. UNCHANGED up
    BY <1>5
    DEF Open, Leave, Lock, LockPanics, Start, PushFrame, PushesTo, PushPanics,
        Unlock,
                Receive
  <2>2. pc'[s] \in {"frameLocking", "pushFrame"} => pc[s] \in {"frameLocking", "pushFrame"}
    BY <1>1, <1>5
    DEF Open, Leave, Lock, LockPanics, Start, PushFrame, PushesTo, PushPanics,
                      Unlock, Receive, Goto
  <2> QED
    BY <1>5, <2>1, <2>2 DEF Behind
<1> QED
  BY <1>2, <1>3, <1>4, <1>5, UpSteps, ActorSteps

\* A frame in the slot is in the slot of its user's gateway.
LEMMA NextSlot ==
    ASSUME TypeOK, [Next]_vars,
           \A g \in Gateways : cmd[g].kind = "SendProxyData" => ClientOf[cmd[g].by] = g
    PROVE  \A g \in Gateways : cmd'[g].kind = "SendProxyData" => ClientOf[cmd'[g].by] = g
<1>1. cmd \in [Gateways -> Commands \cup {NoCmd}] /\ NoCmd.kind # "SendProxyData"
  BY CommandFacts DEF TypeOK
<1>2. ASSUME NEW s \in Sessions, Start(s) \/ PushFrame(s),
             NEW g \in Gateways, cmd'[g].kind = "SendProxyData"
      PROVE  ClientOf[cmd'[g].by] = g
  <2>1. PICK c : cmd' = [cmd EXCEPT ![ClientOf[s]] = c] /\ c.by = s
    BY <1>2, CommandFacts DEF Start, PushFrame, PushesTo, Push
  <2> QED
    BY <1>1, <1>2, <2>1, SessionType
<1>3. ASSUME NEW h \in Gateways,
             TakeUsage(h) \/ ContractPanics(h) \/ TakeFromActor(h) \/ Dies(h),
             NEW g \in Gateways, cmd'[g].kind = "SendProxyData"
      PROVE  ClientOf[cmd'[g].by] = g
  <2>1. cmd' = [cmd EXCEPT ![h] = NoCmd]
    BY <1>3
    DEF TakeUsage, ContractPanics, TakeFromActor, Dies, LoopDies, LoopPanics, Pop
  <2> QED
    BY <1>1, <1>3, <2>1
<1> QED
  BY <1>2, <1>3, BusSteps

\* A frame that the service gets was handed to main, which has no other then.
LEMMA GotNew ==
    ASSUME TypeOK, [Next]_vars, NEW s \in Sessions, NEW n \in Frames, Got(s, n)'
    PROVE  Got(s, n) \/ (Handed(s, n) /\ \A k \in Frames : ~Handed(s, k)')
<1>1. got[s] \in Seq(Frames) /\ Among(n, got'[s])
  BY DEF TypeOK, Got, Among
<1>2. CASE got'[s] = got[s]
  BY <1>1, <1>2 DEF Got
<1>3. ASSUME NEW k \in Frames, Handed(s, k), \A l \in Frames : ~Handed(s, l)',
             got'[s] = Append(got[s], k)
      PROVE  Got(s, n) \/ (Handed(s, n) /\ \A l \in Frames : ~Handed(s, l)')
  <2>1. Among(n, got[s]) \/ n = k
    BY <1>1, <1>3, AppendDistinct
  <2> QED
    BY <1>3, <2>1 DEF Got
<1> QED
  BY <1>2, <1>3, GotMoves

\* Every action keeps a frame of the user in one place.
LEMMA NextUp == TypeOK /\ WireDistinct /\ UpInOnePlace /\ [Next]_vars => UpInOnePlace'
<1> SUFFICES ASSUME TypeOK, WireDistinct, UpInOnePlace, [Next]_vars PROVE UpInOnePlace'
  OBVIOUS
<1>1. \A g \in Gateways : cmd'[g].kind = "SendProxyData" => ClientOf[cmd'[g].by] = g
  BY NextSlot DEF UpInOnePlace
<1>2. ASSUME NEW s \in Sessions PROVE Distinct(got'[s])
  <2>1. got[s] \in Seq(Frames) /\ Distinct(got[s])
    BY DEF TypeOK, UpInOnePlace
  <2>2. ASSUME NEW n \in Frames, Handed(s, n), got'[s] = Append(got[s], n)
        PROVE  Distinct(got'[s])
    BY <2>1, <2>2, AppendDistinct DEF UpInOnePlace, Got
  <2> QED
    BY <2>1, <2>2, GotMoves
<1>4. ASSUME NEW s \in Sessions, NEW n \in Frames
      PROVE  /\ Pushed(s, n)' => ~Sent(s, n)' /\ ~Handed(s, n)' /\ ~Got(s, n)'
             /\ Sent(s, n)' => ~Handed(s, n)' /\ ~Got(s, n)'
             /\ Handed(s, n)' => ~Got(s, n)'
             /\ Pushed(s, n)' \/ Sent(s, n)' \/ Handed(s, n)' \/ Got(s, n)' => Behind(s, n)'
  <2>1. /\ Pushed(s, n) => ~Sent(s, n) /\ ~Handed(s, n) /\ ~Got(s, n)
        /\ Sent(s, n) => ~Handed(s, n) /\ ~Got(s, n)
        /\ Handed(s, n) => ~Got(s, n)
        /\ Pushed(s, n) \/ Sent(s, n) \/ Handed(s, n) \/ Got(s, n) => Behind(s, n)
    BY DEF UpInOnePlace
  <2>2. Behind(s, n) => ~(PushFrame(s) /\ n = up[s])
    BY DEF Behind, PushFrame, PushesTo
  <2>3. Pushed(s, n)' => Pushed(s, n) \/ (PushFrame(s) /\ n = up[s])
    BY PushMoves
  <2>4. Sent(s, n)' => Sent(s, n) \/ (Pushed(s, n) /\ ~Pushed(s, n)')
    BY SentMoves
  <2>5. Handed(s, n)' => Handed(s, n) \/ (Sent(s, n) /\ ~Sent(s, n)')
    BY HandedMoves
  <2>6. Got(s, n)' => Got(s, n) \/ (Handed(s, n) /\ ~Handed(s, n)')
    BY GotNew
  <2>7. Behind(s, n) \/ (PushFrame(s) /\ n = up[s]) => Behind(s, n)'
    BY BehindForEver
  <2> QED
    BY <2>1, <2>2, <2>3, <2>4, <2>5, <2>6, <2>7
<1> QED
  BY <1>1, <1>2, <1>4 DEF UpInOnePlace

-----------------------------------------------------------------------------
(* The way of the frames of the service. *)

\* A loop comes to wait for a session only with a frame that arrives.
LEMMA WaitMoves ==
    ASSUME TypeOK, [Next]_vars, NEW g \in Gateways,
           waiting'[g] # waiting[g], waiting'[g].at = "session"
    PROVE  \E i \in DOMAIN wire[g] : Deliver(g, i)
<1>0. waiting \in [Gateways -> Waits] /\ Idle.at # "session"
      /\ \A s : EventOf(s).at # "session"
  BY WaitFacts DEF TypeOK, EventOf
<1>1. ASSUME NEW h \in Gateways, LoopDies(h) PROVE FALSE
  BY <1>0, <1>1 DEF LoopDies
<1>2. ASSUME NEW h \in Gateways, NEW i \in DOMAIN wire[h], HandleMessage(h, i) \/ Lose(h, i)
      PROVE  h = g /\ Deliver(g, i)
  BY <1>0, <1>1, <1>2
  DEF HandleMessage, HandleConnect, ConnectPanics, HandleFrame, FramePanics,
                          DeliverPanics, Deliver, Lose
<1>3. ASSUME NEW s \in Sessions, ActorStep(s) PROVE FALSE
  BY <1>0, <1>3
  DEF ActorStep, Lock, LockPanics, Start, PushFrame, PushesTo, PushPanics, Unlock,
                    Receive, peerVars
<1>4. ASSUME NEW s \in Sessions, Open(s) \/ Frame(s) \/ Leave(s) \/ ServiceFrame(s) \/ End(s)
      PROVE  FALSE
  BY <1>4 DEF Open, Frame, Leave, ServiceFrame, End, peerVars
<1>5. ASSUME NEW h \in Gateways, TakeCommand(h) PROVE FALSE
  BY <1>1, <1>5 DEF TakeCommand, TakeUsage, ContractPanics, TakeFromActor
<1>6. ASSUME ProviderLoop PROVE FALSE
  BY <1>0, <1>1, <1>6, ProviderAssumption
     DEF ProviderLoop, TakeFromMain, EventTaken, ConnectAckPanics
<1>7. ASSUME MainStep PROVE FALSE
  BY <1>7 DEF MainStep, MainTakesConnect, Connected, ConnectRefused, MainTakesFrame,
              AddressPanics, MainForwards, MainForwarded, ForwardPanics, MainDies
<1> QED
  BY <1>2, <1>3, <1>4, <1>5, <1>6, <1>7 DEF Next, vars

\* A loop waits only for a session of its gateway.
LEMMA NextWait ==
    ASSUME TypeOK, [Next]_vars,
           \A g \in Gateways : waiting[g].at = "session" => ClientOf[waiting[g].by] = g
    PROVE  \A g \in Gateways : waiting'[g].at = "session" => ClientOf[waiting'[g].by] = g
<1> SUFFICES ASSUME NEW g \in Gateways, waiting'[g].at = "session", waiting'[g] # waiting[g]
             PROVE  ClientOf[waiting'[g].by] = g
  OBVIOUS
<1>1. PICK i \in DOMAIN wire[g] : Deliver(g, i)
  BY WaitMoves
<1>2. /\ waiting'[g] = SessionTakes(wire[g][i].by, wire[g][i].n)
      /\ ClientOf[wire[g][i].by] = g
  BY <1>1 DEF Deliver, Registered, TypeOK
<1> QED
  BY <1>2, WaitFacts

\* A loop waits with a frame only when it did, or the frame arrives.
LEMMA AwaitedMoves ==
    ASSUME TypeOK, WireDistinct, [Next]_vars,
           NEW s \in Sessions, NEW n \in Frames, Awaited(s, n)'
    PROVE  Awaited(s, n) \/ (Returned(s, n) /\ ~Returned(s, n)')
<1> SUFFICES ASSUME ~Awaited(s, n) PROVE Returned(s, n) /\ ~Returned(s, n)'
  OBVIOUS
<1>1. PICK g \in Gateways : waiting'[g] = SessionTakes(s, n)
  BY DEF Awaited, SessionTakes
<1>2. waiting'[g] # waiting[g] /\ waiting'[g].at = "session"
  BY <1>1, WaitFacts DEF Awaited
<1>3. PICK i \in DOMAIN wire[g] : Deliver(g, i)
  BY <1>2, WaitMoves
<1>4. PICK m : m = wire[g][i]
  OBVIOUS
<1>5. m \in Messages /\ m.schema = 2 /\ Removes(g, i) /\ waiting'[g] = SessionTakes(m.by, m.n)
  BY <1>3, <1>4, RemovalTypes DEF Deliver, Takes, Removes, TypeOK
<1>6. m.by = s /\ m.n = n
  BY <1>1, <1>5 DEF SessionTakes
<1>7. m = Msg(2, s, n)
  BY <1>5, <1>6, MessageFacts
<1>8. ~OnWire(m)'
  BY <1>4, <1>5, TakeDistinct
<1>9. OnWire(m)
  BY <1>4 DEF OnWire
<1> QED
  BY <1>7, <1>8, <1>9 DEF Returned, OnWire, Msg

\* The steps that change what the users have got.
LEMMA ShownSteps ==
    ASSUME [Next]_vars
    PROVE  UNCHANGED shown \/ \E t \in Sessions : Receive(t)
BY
DEF Next, vars, ActorStep, TakeCommand, HandleMessage, ProviderLoop, MainStep,
    clientVars,
       peerVars, Open, Frame, Leave, ServiceFrame, End, Lock, LockPanics, Start, PushFrame,
       PushesTo, PushPanics, Unlock, TakeUsage, ContractPanics, TakeFromActor, LoopDies,
       HandleConnect, ConnectPanics, HandleFrame, FramePanics, Deliver, DeliverPanics, Lose,
       TakeFromMain, EventTaken, ConnectAckPanics, MainTakesConnect, Connected,
       ConnectRefused, MainTakesFrame, AddressPanics, MainForwards, MainForwarded,
       ForwardPanics, MainDies

\* The user gets a frame only when the receiving task takes it from the loop.
LEMMA ShownMoves ==
    ASSUME TypeOK, DownInOnePlace, [Next]_vars, NEW s \in Sessions
    PROVE  \/ shown'[s] = shown[s]
           \/ \E n \in Frames :
                 /\ Awaited(s, n) /\ (\A k \in Frames : ~Awaited(s, k)')
                 /\ shown'[s] = Append(shown[s], n)
<1>0. waiting \in [Gateways -> Waits] /\ shown \in [Sessions -> Seq(Frames)]
  BY DEF TypeOK
<1>2. ASSUME NEW t \in Sessions, Receive(t), t # s PROVE shown'[s] = shown[s]
  BY <1>0, <1>2 DEF Receive
<1>3. CASE Receive(s)
  <2> DEFINE g == ClientOf[s]
             n == waiting[g].n
  <2>1. g \in Gateways /\ waiting[g] = SessionTakes(s, n) /\ n \in Frames
    BY <1>0, <1>3, SessionType, WaitFacts DEF Receive
  <2>2. Awaited(s, n)
    BY <2>1 DEF Awaited
  <2>3. waiting' = [waiting EXCEPT ![g] = Idle]
    BY <1>3 DEF Receive
  <2>4. ASSUME NEW k \in Frames, Awaited(s, k)' PROVE FALSE
    <3>1. PICK h \in Gateways : waiting'[h] = SessionTakes(s, k)
      BY <2>4 DEF Awaited, SessionTakes
    <3>2. waiting'[h].at = "session" /\ waiting'[h].by = s
      BY <3>1 DEF SessionTakes
    <3>3. h # g
      BY <1>0, <2>1, <2>3, <3>2, WaitFacts
    <3>4. waiting[h] = waiting'[h]
      BY <1>0, <2>3, <3>3
    <3> QED
      BY <3>2, <3>3, <3>4 DEF DownInOnePlace
  <2>5. shown'[s] \in {shown[s], Append(shown[s], n)}
    BY <1>0, <1>3 DEF Receive
  <2> QED
    BY <2>1, <2>2, <2>4, <2>5
<1> QED
  BY <1>2, <1>3, ShownSteps

\* A frame that the user gets was the one its gateway's loop waited with.
LEMMA ShownNew ==
    ASSUME TypeOK, DownInOnePlace, [Next]_vars,
           NEW s \in Sessions, NEW n \in Frames, Shown(s, n)'
    PROVE  Shown(s, n) \/ (Awaited(s, n) /\ \A k \in Frames : ~Awaited(s, k)')
<1>1. shown[s] \in Seq(Frames) /\ Among(n, shown'[s])
  BY DEF TypeOK, Shown, Among
<1>2. CASE shown'[s] = shown[s]
  BY <1>1, <1>2 DEF Shown
<1>3. ASSUME NEW k \in Frames, Awaited(s, k), \A l \in Frames : ~Awaited(s, l)',
             shown'[s] = Append(shown[s], k)
      PROVE  Shown(s, n) \/ (Awaited(s, n) /\ \A l \in Frames : ~Awaited(s, l)')
  <2>1. Among(n, shown[s]) \/ n = k
    BY <1>1, <1>3, AppendDistinct
  <2> QED
    BY <1>3, <2>1 DEF Shown
<1> QED
  BY <1>2, <1>3, ShownMoves

\* The messages of main's own sender.
LEMMA MainCmdSteps ==
    ASSUME [Next]_vars
    PROVE  mainCmd' \in {mainCmd, NoMainCmd} \/ MainForwards
<1>1. ASSUME NEW g \in Gateways, NEW i \in DOMAIN wire[g], HandleMessage(g, i) \/ Lose(g, i)
      PROVE  mainCmd' \in {mainCmd, NoMainCmd}
  BY <1>1 DEF HandleMessage, HandleConnect, ConnectPanics, HandleFrame, FramePanics,
              DeliverPanics, Deliver, Lose, LoopDies
<1>2. ASSUME NEW s \in Sessions, ActorStep(s) PROVE UNCHANGED mainCmd
  BY <1>2
  DEF ActorStep, Lock, LockPanics, Start, PushFrame, PushesTo, PushPanics, Unlock,
              Receive, peerVars
<1>3. ASSUME NEW s \in Sessions, Open(s) \/ Frame(s) \/ Leave(s) \/ ServiceFrame(s) \/ End(s)
      PROVE  UNCHANGED mainCmd
  BY <1>3 DEF Open, Frame, Leave, ServiceFrame, End, peerVars
<1>4. ASSUME NEW h \in Gateways, TakeCommand(h) PROVE mainCmd' \in {mainCmd, NoMainCmd}
  BY <1>4 DEF TakeCommand, TakeUsage, ContractPanics, TakeFromActor, LoopDies
<1>5. ASSUME ProviderLoop PROVE mainCmd' \in {mainCmd, NoMainCmd}
  BY <1>5 DEF ProviderLoop, TakeFromMain, EventTaken, ConnectAckPanics, LoopDies
<1>6. ASSUME MainStep, ~MainForwards PROVE UNCHANGED mainCmd
  BY <1>6 DEF MainStep, MainTakesConnect, Connected, ConnectRefused, MainTakesFrame,
              AddressPanics, MainForwarded, ForwardPanics, MainDies
<1> QED
  BY <1>1, <1>2, <1>3, <1>4, <1>5, <1>6 DEF Next, vars

\* Main forwards a frame only when it was, or it takes it out of the channel.
LEMMA ForwardedMoves ==
    ASSUME TypeOK, DownInOnePlace, [Next]_vars,
           NEW s \in Sessions, NEW n \in Frames, Forwarded(s, n)'
    PROVE  Forwarded(s, n) \/ (Queued(s, n) /\ ~Queued(s, n)')
<1> SUFFICES ASSUME ~Forwarded(s, n) PROVE Queued(s, n) /\ ~Queued(s, n)'
  OBVIOUS
<1>1. mainCmd'.by = s /\ mainCmd'.n = n
  BY DEF Forwarded
<1>2. mainCmd' # mainCmd /\ mainCmd' # NoMainCmd
  BY <1>1, SessionType DEF Forwarded, NoMainCmd
<1>3. MainForwards
  BY <1>2, MainCmdSteps
<1>4. /\ frames # <<>> /\ frames' = Tail(frames)
      /\ mainCmd' = [by |-> Head(frames).by, n |-> Head(frames).n, to |-> peer]
  BY <1>3 DEF MainForwards
<1>5. frames \in Seq([by : Sessions, n : Frames]) /\ Distinct(frames)
  BY DEF TypeOK, DownInOnePlace
<1>6. /\ Head(frames) \in [by : Sessions, n : Frames] /\ Among(Head(frames), frames)
      /\ ~Among(Head(frames), Tail(frames))
  BY <1>4, <1>5, TailDistinct
<1>7. Head(frames) = [by |-> s, n |-> n]
  BY <1>1, <1>4, <1>6
<1> QED
  BY <1>4, <1>6, <1>7 DEF Queued, Among

\* A frame of the service is on its way only when it was, or the loop takes it from main.
LEMMA ReturnedMoves ==
    ASSUME TypeOK, [Next]_vars, NEW s \in Sessions, NEW n \in Frames, Returned(s, n)'
    PROVE  Returned(s, n) \/ (Forwarded(s, n) /\ ~Forwarded(s, n)')
<1> SUFFICES ASSUME ~Returned(s, n) PROVE Forwarded(s, n) /\ ~Forwarded(s, n)'
  OBVIOUS
<1>1. PICK m : m = Msg(2, s, n)
  OBVIOUS
<1>2. OnWire(m)' /\ ~OnWire(m) /\ m.schema = 2 /\ m.by = s /\ m.n = n
  BY <1>1 DEF Returned, OnWire, Msg
<1>3. TakeFromMain /\ m = Msg(2, mainCmd.by, mainCmd.n)
  BY <1>2, WireGrows, MessageFacts
<1>4. mainCmd.by = s /\ mainCmd.n = n
  BY <1>2, <1>3 DEF Msg
<1>5. mainCmd' = NoMainCmd
  BY <1>3 DEF TakeFromMain
<1> QED
  BY <1>4, <1>5, SessionType DEF Forwarded, NoMainCmd

\* The channel holds a frame only when it did, or the service sends it.
LEMMA QueuedMoves ==
    ASSUME TypeOK, [Next]_vars
    PROVE  \/ frames' = frames /\ down' = down
           \/ frames' = <<>> /\ down' = down
           \/ frames # <<>> /\ frames' = Tail(frames) /\ down' = down
           \/ \E s \in Sessions :
                 /\ down[s] + 1 \in Frames /\ down' = [down EXCEPT ![s] = down[s] + 1]
                 /\ frames' \in {frames, Append(frames, [by |-> s, n |-> down[s] + 1])}
<1>1. ASSUME NEW s \in Sessions, ServiceFrame(s)
      PROVE  /\ down[s] + 1 \in Frames /\ down' = [down EXCEPT ![s] = down[s] + 1]
             /\ frames' \in {frames, Append(frames, [by |-> s, n |-> down[s] + 1])}
  <2>1. down \in [Sessions -> 0..MaxFrames]
    BY DEF TypeOK
  <2>2. down[s] + 1 \in Frames
    BY <1>1, <2>1, NextFrame DEF ServiceFrame
  <2>3. down' = [down EXCEPT ![s] = down[s] + 1] /\ down'[s] = down[s] + 1
    BY <1>1, <2>1 DEF ServiceFrame
  <2> QED
    BY <1>1, <2>2, <2>3 DEF ServiceFrame
<1>2. ASSUME MainStep, ~MainForwards PROVE frames' \in {frames, <<>>} /\ down' = down
  BY <1>2 DEF MainStep, MainTakesConnect, Connected, ConnectRefused, MainTakesFrame,
              AddressPanics, MainForwarded, ForwardPanics, MainDies
<1>3. CASE MainForwards
  BY <1>3 DEF MainForwards
<1>4. CASE UNCHANGED <<event, mainVars>>
  BY <1>4 DEF mainVars
<1>5. ASSUME NEW i \in DOMAIN wire[Provider], HandleConnect(i) \/ HandleFrame(i)
      PROVE  frames' = frames /\ down' = down
  BY <1>5 DEF HandleConnect, HandleFrame, mainVars
<1>6. ASSUME NEW s \in Sessions, End(s) PROVE frames' = frames /\ down' = down
  BY <1>6 DEF End
<1> QED
  BY <1>1, <1>2, <1>3, <1>4, <1>5, <1>6, MainSteps

\* A frame that joins the channel is the next one of its service.
LEMMA QueuedNew ==
    ASSUME TypeOK, [Next]_vars, NEW s \in Sessions, NEW n \in Frames, Queued(s, n)'
    PROVE  Queued(s, n) \/ (n = down[s] + 1 /\ n <= down'[s])
<1>0. /\ frames \in Seq([by : Sessions, n : Frames])
      /\ down \in [Sessions -> 0..MaxFrames] /\ MaxFrames \in Nat
  BY FramesAssumption DEF TypeOK
<1>1. Among([by |-> s, n |-> n], frames')
  BY DEF Queued, Among
<1>2. CASE frames' = frames
  BY <1>1, <1>2 DEF Queued
<1>3. CASE frames' = <<>>
  BY <1>1, <1>3 DEF Among
<1>4. CASE frames # <<>> /\ frames' = Tail(frames)
  BY <1>0, <1>1, <1>4, TailDistinct DEF Queued
<1>5. ASSUME NEW t \in Sessions, down[t] + 1 \in Frames,
             down' = [down EXCEPT ![t] = down[t] + 1],
             frames' = Append(frames, [by |-> t, n |-> down[t] + 1])
      PROVE  Queued(s, n) \/ (n = down[s] + 1 /\ n <= down'[s])
  <2>1. [by |-> t, n |-> down[t] + 1] \in [by : Sessions, n : Frames]
    BY <1>5
  <2>2. Queued(s, n) \/ [by |-> s, n |-> n] = [by |-> t, n |-> down[t] + 1]
    <3> DEFINE old == [by |-> s, n |-> n]
               new == [by |-> t, n |-> down[t] + 1]
               All == [by : Sessions, n : Frames]
    <3>1. Among(old, Append(frames, new))
      BY <1>1, <1>5
    <3>2. new \in All /\ frames \in Seq(All)
      BY <1>0, <2>1
    <3> HIDE DEF old, new, All
    <3>3. \A y : Among(y, Append(frames, new)) <=> Among(y, frames) \/ y = new
      BY <3>2, AppendDistinct
    <3>4. Among(old, frames) \/ old = new
      BY <3>1, <3>3
    <3> QED
      BY <3>4 DEF Queued, old, new
  <2>3. Queued(s, n) \/ (s = t /\ n = down[t] + 1)
    BY <2>2
  <2> QED
    BY <1>0, <1>5, <2>3
<1> QED
  BY <1>2, <1>3, <1>4, <1>5, QueuedMoves

\* Every action keeps a frame of the service in one place.
LEMMA NextDown == TypeOK /\ WireDistinct /\ DownInOnePlace /\ [Next]_vars => DownInOnePlace'
<1> SUFFICES ASSUME TypeOK, WireDistinct, DownInOnePlace, [Next]_vars PROVE DownInOnePlace'
  OBVIOUS
<1>0. /\ frames \in Seq([by : Sessions, n : Frames]) /\ Distinct(frames)
      /\ down \in [Sessions -> 0..MaxFrames] /\ MaxFrames \in Nat
      /\ \A s \in Sessions : shown[s] \in Seq(Frames) /\ Distinct(shown[s])
  BY FramesAssumption DEF TypeOK, DownInOnePlace
<1>1. \A g \in Gateways : waiting'[g].at = "session" => ClientOf[waiting'[g].by] = g
  BY NextWait DEF DownInOnePlace
<1>2. ASSUME NEW s \in Sessions, NEW n \in Frames, Queued(s, n), n > down[s] PROVE FALSE
  BY <1>0, <1>2 DEF DownInOnePlace, Frames
<1>3. Distinct(frames')
  <2>1. CASE frames # <<>> /\ frames' = Tail(frames)
    BY <1>0, <2>1, TailDistinct
  <2>2. ASSUME NEW s \in Sessions, down[s] + 1 \in Frames,
               frames' = Append(frames, [by |-> s, n |-> down[s] + 1])
        PROVE  Distinct(frames')
    <3>1. ~Queued(s, down[s] + 1)
      BY <1>0, <1>2, <2>2
    <3>2. [by |-> s, n |-> down[s] + 1] \in [by : Sessions, n : Frames]
      BY <2>2
    <3> DEFINE new == [by |-> s, n |-> down[s] + 1]
               All == [by : Sessions, n : Frames]
    <3>3. /\ frames \in Seq(All) /\ new \in All /\ ~Among(new, frames)
          /\ frames' = Append(frames, new)
      BY <1>0, <2>2, <3>1, <3>2 DEF Queued
    <3> HIDE DEF new, All
    <3> QED
      BY <1>0, <3>3, AppendDistinct
  <2>3. Distinct(<<>>)
    BY DEF Distinct
  <2> QED
    BY <1>0, <2>1, <2>2, <2>3, QueuedMoves
<1>4. ASSUME NEW s \in Sessions PROVE Distinct(shown'[s])
  <2>1. ASSUME NEW n \in Frames, Awaited(s, n), shown'[s] = Append(shown[s], n)
        PROVE  Distinct(shown'[s])
    BY <1>0, <2>1, AppendDistinct DEF DownInOnePlace, Shown
  <2> QED
    BY <1>0, <2>1, ShownMoves
<1>7. ASSUME NEW s \in Sessions PROVE down'[s] \in Nat /\ down[s] \in Nat /\ down[s] <= down'[s]
  <2>1. down' = down \/ \E t \in Sessions : down' = [down EXCEPT ![t] = down[t] + 1]
    BY QueuedMoves
  <2> QED
    BY <1>0, <2>1
<1>8. ASSUME NEW s \in Sessions, NEW n \in Frames
      PROVE  /\ Queued(s, n)' =>
                   ~Forwarded(s, n)' /\ ~Returned(s, n)' /\ ~Awaited(s, n)' /\ ~Shown(s, n)'
             /\ Forwarded(s, n)' => ~Returned(s, n)' /\ ~Awaited(s, n)' /\ ~Shown(s, n)'
             /\ Returned(s, n)' => ~Awaited(s, n)' /\ ~Shown(s, n)'
             /\ Awaited(s, n)' => ~Shown(s, n)'
             /\ \/ Queued(s, n)' \/ Forwarded(s, n)' \/ Returned(s, n)' \/ Awaited(s, n)'
                \/ Shown(s, n)'
                => n <= down'[s]
  <2> DEFINE in == \/ Queued(s, n) \/ Forwarded(s, n) \/ Returned(s, n) \/ Awaited(s, n)
                   \/ Shown(s, n)
  <2>1. /\ Queued(s, n) =>
              ~Forwarded(s, n) /\ ~Returned(s, n) /\ ~Awaited(s, n) /\ ~Shown(s, n)
        /\ Forwarded(s, n) => ~Returned(s, n) /\ ~Awaited(s, n) /\ ~Shown(s, n)
        /\ Returned(s, n) => ~Awaited(s, n) /\ ~Shown(s, n)
        /\ Awaited(s, n) => ~Shown(s, n)
        /\ in => n <= down[s]
    BY DEF DownInOnePlace
  <2>2. in => n # down[s] + 1 /\ n <= down'[s]
    BY <1>7, <2>1 DEF Frames
  <2>3. Queued(s, n)' => Queued(s, n) \/ (n = down[s] + 1 /\ n <= down'[s])
    BY QueuedNew
  <2>4. Forwarded(s, n)' => Forwarded(s, n) \/ (Queued(s, n) /\ ~Queued(s, n)')
    BY ForwardedMoves
  <2>5. Returned(s, n)' => Returned(s, n) \/ (Forwarded(s, n) /\ ~Forwarded(s, n)')
    BY ReturnedMoves
  <2>6. Awaited(s, n)' => Awaited(s, n) \/ (Returned(s, n) /\ ~Returned(s, n)')
    BY AwaitedMoves
  <2>7. Shown(s, n)' => Shown(s, n) \/ (Awaited(s, n) /\ ~Awaited(s, n)')
    BY ShownNew
  <2> QED
    BY <2>1, <2>2, <2>3, <2>4, <2>5, <2>6, <2>7
<1> QED
  BY <1>1, <1>3, <1>4, <1>8 DEF DownInOnePlace

\* The inductive invariant holds at the start.
LEMMA InitInvariant == Init => IInv
<1> SUFFICES ASSUME Init PROVE IInv
  OBVIOUS
<1>1. Types /\ Usage /\ RequestsCharged
  BY InitTypes, InitCharges
<1>2. GuardMatchesActor
  BY SessionType DEF Init, BusInit, GuardMatchesActor, Holding
<1>3. \A g \in Gateways : DOMAIN wire[g] = {}
  BY EmptyWire
<1>4. WireDistinct /\ \A m : ~OnWire(m)
  BY <1>3 DEF WireDistinct, OnWire
<1>5. Distinct(<<>>) /\ \A n : ~Among(n, <<>>)
  BY DEF Distinct, Among
<1>6. UpInOnePlace
  BY <1>4, <1>5, CommandFacts, EventFacts
     DEF Init, BusInit, UpInOnePlace, Pushed, Sent, Handed, Got
<1>7. DownInOnePlace
  <2>1. /\ frames = <<>> /\ mainCmd.by = NoHandler
        /\ \A s \in Sessions : shown[s] = <<>>
        /\ \A g \in Gateways : waiting[g].at = "idle"
    BY WaitFacts DEF Init, NoMainCmd
  <2> QED
    BY <1>4, <1>5, <2>1, SessionType, WaitFacts
       DEF DownInOnePlace, Queued, Forwarded, Returned, Awaited, Shown
<1> QED
  BY <1>1, <1>2, <1>4, <1>6, <1>7 DEF IInv

\* Every action keeps the inductive invariant.
LEMMA NextInvariant == IInv /\ [Next]_vars => IInv'
<1>1. Types => TypeOK
  BY DEF Types
<1> QED
  BY <1>1, NextTypes, NextGuard, NextUsage, NextRequests, NextWire, NextUp,
     NextDown DEF IInv

\* No frame comes out twice, in any order of the messages.
THEOREM FramesOnce == Spec => []NoFrameTwice
<1>1. IInv => NoFrameTwice
  BY DEF IInv, UpInOnePlace, DownInOnePlace, Distinct, NoFrameTwice
<1> QED
  BY <1>1, InitInvariant, NextInvariant, PTL DEF Spec

=============================================================================
