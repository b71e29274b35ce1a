--------------------------- MODULE WsOrder_proofs ---------------------------
(***************************************************************************)
(* Proof that WsForward implements LossyPipe in both directions when the   *)
(* messages between two gateways arrive in order, whatever is lost or      *)
(* fails.                                                                  *)
(***************************************************************************)
EXTENDS WsForward_proofs

\* Connection requests and the frames of users travel to the provider only.
ToProvider == \A g \in Gateways : \A i \in DOMAIN wire[g] : wire[g][i].schema # 2 => g = Provider

\* Frames with the same schema and session are on their way in their order.
WireOrder ==
    \A g \in Gateways : \A i, j \in DOMAIN wire[g] :
        /\ i < j /\ wire[g][i].schema # 0
        /\ wire[g][i].schema = wire[g][j].schema /\ wire[g][i].by = wire[g][j].by
        => wire[g][i].n < wire[g][j].n

Increasing(seq) == \A i, j \in DOMAIN seq : i < j => seq[i] < seq[j]

\* The frames of a user, from the slot to the service: what is further on its way
\* comes before what follows.
UpOrder ==
    \A s \in Sessions :
        /\ Increasing(got[s])
        /\ \A k, n \in Frames :
              /\ Got(s, k) /\ (Handed(s, n) \/ Sent(s, n) \/ Pushed(s, n)) => k < n
              /\ Handed(s, k) /\ (Sent(s, n) \/ Pushed(s, n)) => k < n
              /\ Sent(s, k) /\ Pushed(s, n) => k < n

\* A frame of the service on its way to the gateway of its user. One that was
\* sent to another gateway is never shown.
Coming(s, n) == \E i \in DOMAIN wire[ClientOf[s]] : wire[ClientOf[s]][i] = Msg(2, s, n)

\* The frames of a session are in the channel in their order.
FramesOrder ==
    \A i, j \in DOMAIN frames : i < j /\ frames[i].by = frames[j].by => frames[i].n < frames[j].n

\* The frames of a service, from its channel to the user.
DownOrder ==
    \A s \in Sessions :
        /\ Increasing(shown[s])
        /\ \A k, n \in Frames :
              /\ /\ Shown(s, k)
                 /\ Awaited(s, n) \/ Coming(s, n) \/ Forwarded(s, n) \/ Queued(s, n)
                 => k < n
              /\ Awaited(s, k) /\ (Coming(s, n) \/ Forwarded(s, n) \/ Queued(s, n)) => k < n
              /\ Returned(s, k) /\ (Forwarded(s, n) \/ Queued(s, n)) => k < n
              /\ Forwarded(s, k) /\ Queued(s, n) => k < n

OInv == IInv /\ ToProvider /\ WireOrder /\ UpOrder /\ FramesOrder /\ DownOrder

-----------------------------------------------------------------------------
(* The order on the way. *)

\* The positions on the wires are numbers.
LEMMA WirePlaces ==
    ASSUME TypeOK, NEW g \in Gateways, NEW i \in DOMAIN wire[g]
    PROVE  /\ wire[g] \in Seq(Messages) /\ i \in 1..Len(wire[g]) /\ Len(wire[g]) \in Nat
           /\ wire[g][i] \in Messages
BY DEF TypeOK

\* The same after a step that keeps the types.
LEMMA WirePlacesNext ==
    ASSUME TypeOK', NEW g \in Gateways, NEW i \in DOMAIN wire'[g]
    PROVE  /\ wire'[g] \in Seq(Messages) /\ i \in 1..Len(wire'[g]) /\ Len(wire'[g]) \in Nat
           /\ wire'[g][i] \in Messages
BY DEF TypeOK

\* A message that is taken in order is the first of its session and schema.
LEMMA TakenFirst ==
    ASSUME TypeOK, TypeOK', Ordered, WireOrder,
           NEW g \in Gateways, NEW i \in DOMAIN wire[g], Removes(g, i), InOrder(g, i),
           wire[g][i].schema # 0,
           NEW j \in DOMAIN wire'[g],
           wire'[g][j].schema = wire[g][i].schema, wire'[g][j].by = wire[g][i].by
    PROVE  wire[g][i].n < wire'[g][j].n
<1>1. PICK l \in DOMAIN wire[g] : wire'[g][j] = wire[g][l] /\ l # i
  BY AfterTake
<1>2. i \in Nat /\ l \in Nat
  BY WirePlaces
<1>3. Sender(wire[g][l]) = Sender(wire[g][i])
  BY <1>1 DEF Sender
<1>4. ~(l < i)
  BY <1>2, <1>3, WirePlaces DEF InOrder
<1> QED
  BY <1>1, <1>2, <1>4 DEF WireOrder

\* A message that is sent after the others of its session and schema keeps the order.
LEMMA SendOrder ==
    ASSUME TypeOK, TypeOK', WireOrder, NEW to \in Gateways, NEW k \in Messages, Send(to, k),
           \A i \in DOMAIN wire[to] :
              k.schema # 0 /\ wire[to][i].schema = k.schema /\ wire[to][i].by = k.by =>
                 wire[to][i].n < k.n
    PROVE  WireOrder'
<1> SUFFICES ASSUME NEW g \in Gateways, NEW i \in DOMAIN wire'[g], NEW j \in DOMAIN wire'[g],
                    i < j, wire'[g][i].schema # 0,
                    wire'[g][i].schema = wire'[g][j].schema, wire'[g][i].by = wire'[g][j].by
             PROVE  wire'[g][i].n < wire'[g][j].n
  BY DEF WireOrder
<1>1. \/ i \in DOMAIN wire[g] /\ wire'[g][i] = wire[g][i]
      \/ g = to /\ i = Len(wire[to]) + 1 /\ wire'[g][i] = k
  BY SendPlaces
<1>2. \/ j \in DOMAIN wire[g] /\ wire'[g][j] = wire[g][j]
      \/ g = to /\ j = Len(wire[to]) + 1 /\ wire'[g][j] = k
  BY SendPlaces
<1>3. i \in Nat /\ j \in Nat /\ Len(wire[g]) \in Nat /\ DOMAIN wire[g] = 1..Len(wire[g])
  <2>1. i \in Nat /\ j \in Nat
    BY WirePlacesNext
  <2>2. wire[g] \in Seq(Messages)
    BY DEF TypeOK
  <2> QED
    BY <2>1, <2>2, LenProperties
<1>4. ~(i = Len(wire[g]) + 1 /\ g = to)
  BY <1>2, <1>3
<1> QED
  BY <1>1, <1>2, <1>4 DEF WireOrder

\* Every action keeps the order on the way.
LEMMA NextWireOrder ==
    TypeOK /\ TypeOK' /\ WireOrder /\ UpOrder /\ DownOrder /\ [Next]_vars => WireOrder'
<1> SUFFICES ASSUME TypeOK, TypeOK', WireOrder, UpOrder, DownOrder, [Next]_vars
             PROVE  WireOrder'
  OBVIOUS
<1>1. CASE UNCHANGED wire
  BY <1>1 DEF WireOrder
<1>2. ASSUME NEW g \in Gateways, NEW i \in DOMAIN wire[g], Removes(g, i) PROVE WireOrder'
  <2> SUFFICES ASSUME NEW h \in Gateways,
                      NEW a \in DOMAIN wire'[h], NEW b \in DOMAIN wire'[h],
                      a < b, wire'[h][a].schema # 0,
                      wire'[h][a].schema = wire'[h][b].schema, wire'[h][a].by = wire'[h][b].by
               PROVE  wire'[h][a].n < wire'[h][b].n
    BY DEF WireOrder
  <2>1. a \in Nat /\ b \in Nat /\ i \in Nat
    BY WirePlaces, WirePlacesNext
  <2>2. PICK c \in DOMAIN wire[h] : /\ wire'[h][a] = wire[h][c]
                                    /\ h = g => c = (IF a < i THEN a ELSE a + 1)
                                    /\ h # g => c = a
    BY <1>2, AfterTake
  <2>3. PICK d \in DOMAIN wire[h] : /\ wire'[h][b] = wire[h][d]
                                    /\ h = g => d = (IF b < i THEN b ELSE b + 1)
                                    /\ h # g => d = b
    BY <1>2, AfterTake
  <2>4. c < d
    BY <2>1, <2>2, <2>3
  <2> QED
    BY <2>2, <2>3, <2>4 DEF WireOrder
<1>3. ASSUME NEW g \in Gateways, TakeFromActor(g) PROVE WireOrder'
  <2>1. cmd[g] \in Commands
    BY <1>3 DEF TakeFromActor, Pop, SlotFree, TypeOK
  <2>2. CASE cmd[g].kind = "SendRequest" /\ Send(Provider, Msg(0, cmd[g].by, 0))
    BY <2>1, <2>2, SendOrder, CommandFacts, MessageFacts, ProviderAssumption
  <2>3. CASE cmd[g].kind = "SendProxyData" /\ Send(Provider, Msg(1, cmd[g].by, cmd[g].n))
    <3>1. PICK s \in Sessions, n \in Frames : cmd[g] = FrameCmd(s, n)
      BY <2>1, <2>3, CommandFacts
    <3>2. Pushed(s, n) /\ Send(Provider, Msg(1, s, n)) /\ Msg(1, s, n) \in Messages
      BY <2>3, <3>1, CommandFacts, MessageFacts DEF Pushed
    <3>3. ASSUME NEW i \in DOMAIN wire[Provider],
                 wire[Provider][i].schema = 1, wire[Provider][i].by = s
          PROVE  wire[Provider][i].n < n
      <4>1. wire[Provider][i].n \in Frames /\ wire[Provider][i] = Msg(1, s, wire[Provider][i].n)
        BY <3>3, WirePlaces, MessageFacts, ProviderAssumption
      <4>2. Sent(s, wire[Provider][i].n)
        BY <4>1, ProviderAssumption DEF Sent, OnWire
      <4> QED
        BY <3>2, <4>1, <4>2 DEF UpOrder
    <3> QED
      BY <3>2, <3>3, SendOrder, MessageFacts, ProviderAssumption
  <2> QED
    BY <1>3, <2>2, <2>3 DEF TakeFromActor
<1>4. ASSUME TakeFromMain PROVE WireOrder'
  <2>1. mainCmd \in MainCommands /\ Send(mainCmd.to, Msg(2, mainCmd.by, mainCmd.n))
    BY <1>4 DEF TakeFromMain, TypeOK
  <2> DEFINE to == mainCmd.to
             s == mainCmd.by
             n == mainCmd.n
  <2>2. to \in Gateways /\ s \in Sessions /\ n \in Frames /\ Msg(2, s, n) \in Messages
    BY <2>1, MessageFacts DEF MainCommands
  <2>3. Forwarded(s, n)
    BY DEF Forwarded
  <2>4. ASSUME NEW i \in DOMAIN wire[to], wire[to][i].schema = 2, wire[to][i].by = s
        PROVE  wire[to][i].n < n
    <3>1. wire[to][i].n \in Frames /\ wire[to][i] = Msg(2, s, wire[to][i].n)
      BY <2>2, <2>4, WirePlaces, MessageFacts
    <3>2. Returned(s, wire[to][i].n)
      BY <2>2, <3>1 DEF Returned, OnWire
    <3> QED
      BY <2>2, <2>3, <3>1, <3>2 DEF DownOrder
  <2> QED
    BY <2>1, <2>2, <2>4, SendOrder, MessageFacts
<1> QED
  BY <1>1, <1>2, <1>3, <1>4, WireSteps

\* Every action keeps them to the provider.
LEMMA NextToProvider == TypeOK /\ ToProvider /\ [Next]_vars => ToProvider'
<1> SUFFICES ASSUME TypeOK, ToProvider, [Next]_vars,
                    NEW h \in Gateways, NEW j \in DOMAIN wire'[h], wire'[h][j].schema # 2
             PROVE  h = Provider
  BY DEF ToProvider
<1>1. CASE UNCHANGED wire
  BY <1>1 DEF ToProvider
<1>2. ASSUME NEW g \in Gateways, NEW i \in DOMAIN wire[g], Removes(g, i) PROVE h = Provider
  <2>1. PICK l \in DOMAIN wire[h] : wire'[h][j] = wire[h][l]
    BY <1>2, AfterTake
  <2> QED
    BY <2>1 DEF ToProvider
<1>3. ASSUME NEW g \in Gateways, TakeFromActor(g) PROVE h = Provider
  BY <1>3 DEF TakeFromActor, Send, TypeOK, ToProvider
<1>4. ASSUME TakeFromMain PROVE h = Provider
  <2>1. mainCmd \in MainCommands /\ Send(mainCmd.to, Msg(2, mainCmd.by, mainCmd.n))
    BY <1>4 DEF TakeFromMain, TypeOK
  <2>2. /\ mainCmd.to \in Gateways /\ Msg(2, mainCmd.by, mainCmd.n) \in Messages
        /\ Msg(2, mainCmd.by, mainCmd.n).schema = 2
    BY <2>1, MessageFacts DEF MainCommands
  <2>3. j \in DOMAIN wire[h] /\ wire'[h][j] = wire[h][j]
    BY <2>1, <2>2, SendPlaces
  <2> QED
    BY <2>3 DEF ToProvider
<1> QED
  BY <1>1, <1>2, <1>3, <1>4, WireSteps

-----------------------------------------------------------------------------
(* The order of the user's frames. *)

\* There is one frame of a session in the slot, and its actor waits with the next.
LEMMA OnePushed ==
    ASSUME TypeOK, UpInOnePlace, NEW s \in Sessions, NEW n \in Frames, Pushed(s, n)
    PROVE  /\ \A k \in Frames : Pushed(s, k) => k = n
           /\ ~PushFrame(s)
<1>1. \A k \in Frames : Pushed(s, k) => cmd[ClientOf[s]] = FrameCmd(s, k)
  BY CommandFacts DEF Pushed, UpInOnePlace
<1>2. cmd[ClientOf[s]] = FrameCmd(s, n)
  BY <1>1
<1> QED
  BY <1>1, <1>2, CommandFacts DEF PushFrame, PushesTo, Push, SlotFree

\* The frame that is sent is the only one of its session that was in the slot.
LEMMA SentLast ==
    ASSUME TypeOK, UpInOnePlace, [Next]_vars, NEW s \in Sessions, NEW n \in Frames,
           Sent(s, n)', ~Sent(s, n)
    PROVE  Pushed(s, n) /\ \A k \in Frames : ~Pushed(s, k)'
<1>1. Pushed(s, n) /\ ~Pushed(s, n)'
  BY SentMoves
<1>2. ASSUME NEW k \in Frames, Pushed(s, k)' PROVE FALSE
  BY <1>1, <1>2, PushMoves, OnePushed
<1> QED
  BY <1>1, <1>2

\* The frame that is handed to main is the first of its session on the way.
LEMMA HandedFirst ==
    ASSUME TypeOK, TypeOK', Ordered, ToProvider, WireOrder, [Next]_vars,
           NEW s \in Sessions, NEW n \in Frames, Handed(s, n)', ~Handed(s, n)
    PROVE  Sent(s, n) /\ \A k \in Frames : Sent(s, k)' => n < k
<1>1. event' = Data(s, n) /\ event' # event
  BY DEF Handed, Data
<1>2. PICK i \in DOMAIN wire[Provider] : HandleConnect(i) \/ HandleFrame(i)
  BY <1>1, MainSteps, EventFacts
     DEF MainStep, MainTakesConnect, Connected, ConnectRefused, MainTakesFrame, AddressPanics,
         MainForwards, MainForwarded, ForwardPanics, MainDies, ServiceFrame, End
<1>3. HandleFrame(i)
  BY <1>1, <1>2 DEF HandleConnect, Connect, Data
<1>4. /\ wire[Provider][i] \in Messages /\ wire[Provider][i].schema = 1
      /\ Removes(Provider, i) /\ InOrder(Provider, i)
      /\ event' = Data(wire[Provider][i].by, wire[Provider][i].n)
  BY <1>3, RemovalTypes, ProviderAssumption DEF HandleFrame, Takes, Removes
<1>5. wire[Provider][i].by = s /\ wire[Provider][i].n = n
  BY <1>1, <1>4 DEF Data
<1>6. Sent(s, n)
  BY <1>4, <1>5, MessageFacts, ProviderAssumption DEF Sent, OnWire
<1>7. ASSUME NEW k \in Frames, Sent(s, k)' PROVE n < k
  <2>1. PICK h \in Gateways : \E j \in DOMAIN wire'[h] : wire'[h][j] = Msg(1, s, k)
    BY <1>7 DEF Sent, OnWire, Msg
  <2>2. PICK j \in DOMAIN wire'[h] : wire'[h][j] = Msg(1, s, k)
    BY <2>1
  <2>3. wire'[h][j].schema = 1 /\ wire'[h][j].by = s /\ wire'[h][j].n = k
    BY <2>2, MessageFacts
  <2>4. h = Provider
    BY <2>3, NextToProvider DEF ToProvider
  <2> QED
    BY <1>4, <1>5, <2>3, <2>4, TakenFirst, ProviderAssumption
<1> QED
  BY <1>6, <1>7

\* Appending a larger element keeps a sequence increasing.
LEMMA AppendIncreasing ==
    ASSUME NEW seq \in Seq(Frames), Increasing(seq), NEW x \in Frames,
           \A y \in Frames : Among(y, seq) => y < x
    PROVE  Increasing(Append(seq, x))
<1>1. /\ DOMAIN seq = 1..Len(seq) /\ Len(seq) \in Nat
      /\ DOMAIN Append(seq, x) = 1..(Len(seq) + 1)
      /\ \A i \in 1..Len(seq) : Append(seq, x)[i] = seq[i] /\ seq[i] \in Frames
      /\ Append(seq, x)[Len(seq) + 1] = x
  BY AppendProperties, LenProperties
<1>2. \A i \in 1..Len(seq) : seq[i] < x
  BY <1>1 DEF Among
<1> QED
  BY <1>1, <1>2 DEF Increasing

\* Every action keeps the order of the user's frames.
LEMMA NextUpOrder ==
    Ordered =>
        (/\ TypeOK /\ TypeOK' /\ WireDistinct /\ UpInOnePlace /\ ToProvider /\ WireOrder
         /\ UpOrder /\ [Next]_vars
         => UpOrder')
<1> SUFFICES ASSUME Ordered, TypeOK, TypeOK', WireDistinct, UpInOnePlace, ToProvider, WireOrder,
                    UpOrder, [Next]_vars,
                    NEW s \in Sessions
             PROVE  /\ Increasing(got'[s])
                    /\ \A k, n \in Frames :
                          /\ Got(s, k)' /\ (Handed(s, n)' \/ Sent(s, n)' \/ Pushed(s, n)') => k < n
                          /\ Handed(s, k)' /\ (Sent(s, n)' \/ Pushed(s, n)') => k < n
                          /\ Sent(s, k)' /\ Pushed(s, n)' => k < n
  BY DEF UpOrder
<1>1. Increasing(got'[s])
  <2>1. got[s] \in Seq(Frames) /\ Increasing(got[s])
    BY DEF TypeOK, UpOrder
  <2>2. ASSUME NEW n \in Frames, Handed(s, n), got'[s] = Append(got[s], n)
        PROVE  Increasing(got'[s])
    <3>1. \A y \in Frames : Among(y, got[s]) => y < n
      BY <2>2 DEF UpOrder, Got
    <3> QED
      BY <2>1, <2>2, <3>1, AppendIncreasing
  <2> QED
    BY <2>1, <2>2, GotMoves
<1>2. ASSUME NEW n \in Frames
      PROVE  Got(s, n)' => Got(s, n) \/ (Handed(s, n) /\ \A k \in Frames : ~Handed(s, k)')
  BY GotNew
<1>3. ASSUME NEW k \in Frames, NEW n \in Frames
      PROVE  /\ Got(s, k)' /\ (Handed(s, n)' \/ Sent(s, n)' \/ Pushed(s, n)') => k < n
             /\ Handed(s, k)' /\ (Sent(s, n)' \/ Pushed(s, n)') => k < n
             /\ Sent(s, k)' /\ Pushed(s, n)' => k < n
  <2>1. /\ Got(s, k) /\ (Handed(s, n) \/ Sent(s, n) \/ Pushed(s, n)) => k < n
        /\ Handed(s, k) /\ (Sent(s, n) \/ Pushed(s, n)) => k < n
        /\ Sent(s, k) /\ Pushed(s, n) => k < n
    BY DEF UpOrder
  <2>2. Pushed(s, n)' => Pushed(s, n) \/ (PushFrame(s) /\ n = up[s])
    BY PushMoves
  <2>3. PushFrame(s) /\ n = up[s] /\ (Pushed(s, k) \/ Sent(s, k) \/ Handed(s, k) \/ Got(s, k)) =>
           k < n
    <3>1. Pushed(s, k) \/ Sent(s, k) \/ Handed(s, k) \/ Got(s, k) => Behind(s, k)
      BY DEF UpInOnePlace
    <3> QED
      BY <3>1 DEF Behind, PushFrame, PushesTo, Frames
  <2>4. Sent(s, n)' => Sent(s, n) \/ Pushed(s, n)
    BY SentLast
  <2>5. Sent(s, k)' => Sent(s, k) \/ (Pushed(s, k) /\ ~Pushed(s, n)')
    BY SentLast
  <2>6. Handed(s, n)' => Handed(s, n) \/ Sent(s, n)
    BY HandedFirst
  <2>7. Handed(s, k)' => Handed(s, k) \/ (Sent(s, k) /\ (Sent(s, n)' => k < n))
    BY HandedFirst
  <2>8. Got(s, k)' => Got(s, k) \/ (Handed(s, k) /\ ~Handed(s, n)')
    BY <1>2
  <2> QED
    BY <2>1, <2>2, <2>3, <2>4, <2>5, <2>6, <2>7, <2>8
<1> QED
  BY <1>1, <1>3

-----------------------------------------------------------------------------
(* The order of the frames of the service. *)

\* Every action keeps the order in the channel of main.
LEMMA NextFramesOrder ==
    TypeOK /\ DownInOnePlace /\ FramesOrder /\ [Next]_vars => FramesOrder'
<1> SUFFICES ASSUME TypeOK, DownInOnePlace, FramesOrder, [Next]_vars PROVE FramesOrder'
  OBVIOUS
<1>0. /\ frames \in Seq([by : Sessions, n : Frames]) /\ MaxFrames \in Nat
      /\ down \in [Sessions -> 0..MaxFrames]
  BY FramesAssumption DEF TypeOK
<1>1. CASE frames' = frames
  BY <1>1 DEF FramesOrder
<1>2. CASE frames' = <<>>
  BY <1>2 DEF FramesOrder
<1>3. CASE frames # <<>> /\ frames' = Tail(frames)
  <2>1. /\ DOMAIN frames = 1..Len(frames) /\ Len(frames) \in Nat \ {0}
        /\ DOMAIN frames' = 1..(Len(frames) - 1)
        /\ \A i \in 1..(Len(frames) - 1) : frames'[i] = frames[i + 1]
    BY <1>0, <1>3, HeadTailProperties, LenProperties, EmptySeq
  <2>2. ASSUME NEW i \in DOMAIN frames', NEW j \in DOMAIN frames',
               i < j, frames'[i].by = frames'[j].by
        PROVE  frames'[i].n < frames'[j].n
    <3>1. /\ i + 1 \in DOMAIN frames /\ j + 1 \in DOMAIN frames /\ i + 1 < j + 1
          /\ frames'[i] = frames[i + 1] /\ frames'[j] = frames[j + 1]
      BY <2>1, <2>2
    <3> QED
      BY <2>2, <3>1 DEF FramesOrder
  <2> QED
    BY <2>2 DEF FramesOrder
<1>4. ASSUME NEW s \in Sessions, down[s] + 1 \in Frames,
             frames' = Append(frames, [by |-> s, n |-> down[s] + 1])
      PROVE  FramesOrder'
  <2> DEFINE new == [by |-> s, n |-> down[s] + 1]
  <2>1. new \in [by : Sessions, n : Frames] /\ new.by = s /\ new.n = down[s] + 1
    BY <1>4
  <2>2. /\ DOMAIN frames = 1..Len(frames) /\ Len(frames) \in Nat
        /\ DOMAIN frames' = 1..(Len(frames) + 1)
        /\ \A i \in 1..Len(frames) : frames'[i] = frames[i]
        /\ frames'[Len(frames) + 1] = new
    BY <1>0, <1>4, <2>1, AppendProperties, LenProperties
  <2>3. ASSUME NEW i \in 1..Len(frames), frames[i].by = s PROVE frames[i].n < down[s] + 1
    <3>0. frames[i] \in [by : Sessions, n : Frames]
      BY <1>0, ElementOfSeq
    <3>1. frames[i] = [by |-> s, n |-> frames[i].n] /\ frames[i].n \in Frames
      BY <2>3, <3>0
    <3>2. Queued(s, frames[i].n)
      BY <2>2, <3>1 DEF Queued, Among
    <3>3. frames[i].n <= down[s]
      BY <3>1, <3>2 DEF DownInOnePlace
    <3> QED
      BY <1>0, <3>1, <3>3 DEF Frames
  <2> HIDE DEF new
  <2> SUFFICES ASSUME NEW i \in DOMAIN frames', NEW j \in DOMAIN frames', i < j,
                      frames'[i].by = frames'[j].by
               PROVE  frames'[i].n < frames'[j].n
    BY DEF FramesOrder
  <2>4. i \in 1..Len(frames) /\ frames'[i] = frames[i]
    BY <2>2
  <2>5. CASE j = Len(frames) + 1
    BY <2>1, <2>2, <2>3, <2>4, <2>5
  <2>6. CASE j \in 1..Len(frames)
    BY <2>2, <2>4, <2>6 DEF FramesOrder
  <2> QED
    BY <2>2, <2>5, <2>6
<1> QED
  BY <1>1, <1>2, <1>3, <1>4, QueuedMoves

\* The frame that main forwards is the first of its session in the channel.
LEMMA ForwardedFirst ==
    ASSUME TypeOK, DownInOnePlace, FramesOrder, [Next]_vars,
           NEW s \in Sessions, NEW n \in Frames, Forwarded(s, n)', ~Forwarded(s, n)
    PROVE  Queued(s, n) /\ \A k \in Frames : Queued(s, k)' => n < k
<1>1. mainCmd'.by = s /\ mainCmd'.n = n
  BY DEF Forwarded
<1>2. mainCmd' # mainCmd /\ mainCmd' # NoMainCmd
  BY <1>1, SessionType DEF Forwarded, NoMainCmd
<1>3. MainForwards
  BY <1>2, MainCmdSteps
<1>4. /\ frames # <<>> /\ frames' = Tail(frames)
      /\ mainCmd' = [by |-> Head(frames).by, n |-> Head(frames).n, to |-> peer]
  BY <1>3 DEF MainForwards
<1>5. frames \in Seq([by : Sessions, n : Frames])
  BY DEF TypeOK
<1>6. /\ DOMAIN frames = 1..Len(frames) /\ Len(frames) \in Nat \ {0}
      /\ Head(frames) = frames[1] /\ frames[1] \in [by : Sessions, n : Frames]
      /\ DOMAIN frames' = 1..(Len(frames) - 1)
      /\ \A i \in 1..(Len(frames) - 1) : frames'[i] = frames[i + 1]
  <2>1. /\ DOMAIN frames = 1..Len(frames) /\ Len(frames) \in Nat \ {0}
        /\ DOMAIN frames' = 1..(Len(frames) - 1)
        /\ \A i \in 1..(Len(frames) - 1) : frames'[i] = frames[i + 1]
    BY <1>4, <1>5, HeadTailProperties, LenProperties, EmptySeq
  <2>2. Head(frames) = frames[1]
    OBVIOUS
  <2>3. frames[1] \in [by : Sessions, n : Frames]
    <3>1. 1 \in 1..Len(frames)
      BY <2>1
    <3> QED
      BY <1>5, <3>1, ElementOfSeq
  <2> QED
    BY <2>1, <2>2, <2>3
<1>7. frames[1].by = s /\ frames[1].n = n /\ frames[1] = [by |-> s, n |-> n]
  BY <1>1, <1>4, <1>6
<1>8. Queued(s, n)
  BY <1>6, <1>7 DEF Queued, Among
<1>9. ASSUME NEW k \in Frames, Queued(s, k)' PROVE n < k
  <2>1. PICK i \in DOMAIN frames' : frames'[i] = [by |-> s, n |-> k]
    BY <1>9 DEF Queued, Among
  <2>2. i + 1 \in DOMAIN frames /\ 1 < i + 1 /\ frames[i + 1] = [by |-> s, n |-> k]
    BY <1>6, <2>1
  <2> QED
    BY <1>6, <1>7, <2>2 DEF FramesOrder
<1> QED
  BY <1>8, <1>9

\* The frame that is sent back is the only one that main had forwarded.
LEMMA ReturnedLast ==
    ASSUME TypeOK, [Next]_vars, NEW s \in Sessions, NEW n \in Frames,
           \/ Returned(s, n)' /\ ~Returned(s, n)
           \/ Coming(s, n)' /\ ~Coming(s, n)
    PROVE  Forwarded(s, n) /\ \A k \in Frames : ~Forwarded(s, k)'
<1>0. PICK m : m = Msg(2, s, n)
  OBVIOUS
<1>1. m.schema = 2 /\ m.by = s /\ m.n = n
  BY <1>0 DEF Msg
<1>2. ASSUME TakeFromMain, m = Msg(2, mainCmd.by, mainCmd.n)
      PROVE  Forwarded(s, n) /\ \A k \in Frames : ~Forwarded(s, k)'
  BY <1>1, <1>2, SessionType DEF Msg, TakeFromMain, Forwarded, NoMainCmd
<1>3. CASE Returned(s, n)' /\ ~Returned(s, n)
  <2>1. OnWire(m)' /\ ~OnWire(m)
    BY <1>0, <1>3 DEF Returned, OnWire, Msg
  <2> QED
    BY <1>1, <1>2, <2>1, WireGrows, MessageFacts
<1>4. CASE Coming(s, n)' /\ ~Coming(s, n)
  <2> DEFINE h == ClientOf[s]
  <2>1. PICK j \in DOMAIN wire'[h] : wire'[h][j] = m
    BY <1>0, <1>4 DEF Coming, Msg
  <2>2. \A i \in DOMAIN wire[h] : wire[h][i] # m
    BY <1>0, <1>4 DEF Coming
  <2>3. h \in Gateways /\ wire'[h] # wire[h]
    BY <2>1, <2>2, SessionType
  <2>4. ASSUME NEW g \in Gateways, NEW i \in DOMAIN wire[g], Removes(g, i) PROVE FALSE
    BY <2>1, <2>2, <2>3, <2>4, AfterTake
  <2>5. ASSUME NEW g \in Gateways, TakeFromActor(g) PROVE FALSE
    BY <2>3, <2>5, SessionType DEF TakeFromActor, Send, TypeOK
  <2>6. CASE TakeFromMain
    <3>1. mainCmd \in MainCommands /\ Send(mainCmd.to, Msg(2, mainCmd.by, mainCmd.n))
      BY <2>6 DEF TakeFromMain, TypeOK
    <3>2. mainCmd.to \in Gateways /\ Msg(2, mainCmd.by, mainCmd.n) \in Messages
      BY <3>1, MessageFacts DEF MainCommands
    <3>3. m = Msg(2, mainCmd.by, mainCmd.n)
      BY <2>1, <2>2, <2>3, <3>1, <3>2, SendPlaces
    <3> QED
      BY <1>2, <2>6, <3>3
  <2> QED
    BY <2>3, <2>4, <2>5, <2>6, WireSteps
<1> QED
  BY <1>3, <1>4

\* The frame that a loop comes to wait with is the first of its session on the
\* way to the gateway of its user.
LEMMA AwaitedFirst ==
    ASSUME TypeOK, TypeOK', Ordered, WireOrder, [Next]_vars,
           NEW s \in Sessions, NEW n \in Frames, Awaited(s, n)', ~Awaited(s, n)
    PROVE  Coming(s, n) /\ \A k \in Frames : Coming(s, k)' => n < k
<1>1. PICK g \in Gateways : waiting'[g] = SessionTakes(s, n)
  BY DEF Awaited, SessionTakes
<1>2. waiting'[g] # waiting[g] /\ waiting'[g].at = "session"
  BY <1>1, WaitFacts DEF Awaited
<1>3. PICK i \in DOMAIN wire[g] : Deliver(g, i)
  BY <1>2, WaitMoves
<1>4. /\ wire[g][i] \in Messages /\ wire[g][i].schema = 2
      /\ Removes(g, i) /\ InOrder(g, i) /\ ClientOf[wire[g][i].by] = g
      /\ waiting'[g] = SessionTakes(wire[g][i].by, wire[g][i].n)
  BY <1>3, RemovalTypes DEF Deliver, Takes, Removes, Registered, TypeOK
<1>5. wire[g][i].by = s /\ wire[g][i].n = n /\ ClientOf[s] = g
  BY <1>1, <1>4 DEF SessionTakes
<1>6. Coming(s, n)
  BY <1>4, <1>5, MessageFacts DEF Coming
<1>7. ASSUME NEW k \in Frames, Coming(s, k)' PROVE n < k
  <2>1. PICK j \in DOMAIN wire'[g] : wire'[g][j] = Msg(2, s, k)
    BY <1>5, <1>7 DEF Coming, Msg
  <2>2. wire'[g][j].schema = 2 /\ wire'[g][j].by = s /\ wire'[g][j].n = k
    BY <2>1, MessageFacts
  <2> QED
    BY <1>4, <1>5, <2>2, TakenFirst
<1> QED
  BY <1>6, <1>7

\* Every action keeps the order of the frames of the service.
LEMMA NextDownOrder ==
    Ordered =>
        (/\ TypeOK /\ TypeOK' /\ DownInOnePlace /\ WireOrder /\ FramesOrder /\ DownOrder
         /\ [Next]_vars
         => DownOrder')
<1> SUFFICES ASSUME Ordered, TypeOK, TypeOK', DownInOnePlace, WireOrder, FramesOrder, DownOrder,
                    [Next]_vars, NEW s \in Sessions
             PROVE  /\ Increasing(shown'[s])
                    /\ \A k, n \in Frames :
                          /\ /\ Shown(s, k)'
                             /\ \/ Awaited(s, n)' \/ Coming(s, n)' \/ Forwarded(s, n)'
                                \/ Queued(s, n)'
                             => k < n
                          /\ /\ Awaited(s, k)'
                             /\ Coming(s, n)' \/ Forwarded(s, n)' \/ Queued(s, n)'
                             => k < n
                          /\ Returned(s, k)' /\ (Forwarded(s, n)' \/ Queued(s, n)') => k < n
                          /\ Forwarded(s, k)' /\ Queued(s, n)' => k < n
  BY DEF DownOrder
<1>1. Increasing(shown'[s])
  <2>1. shown[s] \in Seq(Frames) /\ Increasing(shown[s])
    BY DEF TypeOK, DownOrder
  <2>2. ASSUME NEW n \in Frames, Awaited(s, n), shown'[s] = Append(shown[s], n)
        PROVE  Increasing(shown'[s])
    <3>1. \A y \in Frames : Among(y, shown[s]) => y < n
      BY <2>2 DEF DownOrder, Shown
    <3> QED
      BY <2>1, <2>2, <3>1, AppendIncreasing
  <2> QED
    BY <2>1, <2>2, ShownMoves
<1>2. ASSUME NEW k \in Frames, NEW n \in Frames
      PROVE  /\ /\ Shown(s, k)'
                /\ Awaited(s, n)' \/ Coming(s, n)' \/ Forwarded(s, n)' \/ Queued(s, n)'
                => k < n
             /\ Awaited(s, k)' /\ (Coming(s, n)' \/ Forwarded(s, n)' \/ Queued(s, n)') => k < n
             /\ Returned(s, k)' /\ (Forwarded(s, n)' \/ Queued(s, n)') => k < n
             /\ Forwarded(s, k)' /\ Queued(s, n)' => k < n
  <2>1. /\ Shown(s, k) /\ (Awaited(s, n) \/ Coming(s, n) \/ Forwarded(s, n) \/ Queued(s, n)) =>
              k < n
        /\ Awaited(s, k) /\ (Coming(s, n) \/ Forwarded(s, n) \/ Queued(s, n)) => k < n
        /\ Returned(s, k) /\ (Forwarded(s, n) \/ Queued(s, n)) => k < n
        /\ Forwarded(s, k) /\ Queued(s, n) => k < n
    BY DEF DownOrder
  <2>2. /\ \/ Queued(s, k) \/ Forwarded(s, k) \/ Returned(s, k) \/ Awaited(s, k)
           \/ Shown(s, k)
        => k <= down[s]
    BY DEF DownInOnePlace
  <2>3. k <= down[s] => k < down[s] + 1
    BY SessionType DEF TypeOK, Frames
  <2>4. Coming(s, k) => Returned(s, k)
    BY SessionType DEF Coming, Returned, OnWire
  <2>5. Queued(s, n)' => Queued(s, n) \/ n = down[s] + 1
    BY QueuedNew
  <2>6. Forwarded(s, n)' => Forwarded(s, n) \/ Queued(s, n)
    BY ForwardedFirst
  <2>7. Forwarded(s, k)' => Forwarded(s, k) \/ (Queued(s, k) /\ (Queued(s, n)' => k < n))
    BY ForwardedFirst
  <2>8. Returned(s, k)' => Returned(s, k) \/ (Forwarded(s, k) /\ ~Forwarded(s, n)')
    BY ReturnedLast
  <2>9. Coming(s, n)' => Coming(s, n) \/ Forwarded(s, n)
    BY ReturnedLast
  <2>10. Awaited(s, n)' => Awaited(s, n) \/ Coming(s, n)
    BY AwaitedFirst
  <2>11. Awaited(s, k)' => Awaited(s, k) \/ (Coming(s, k) /\ (Coming(s, n)' => k < n))
    BY AwaitedFirst
  <2>12. Shown(s, k)' => Shown(s, k) \/ (Awaited(s, k) /\ ~Awaited(s, n)')
    BY ShownNew
  <2> QED
    BY <2>1, <2>2, <2>3, <2>4, <2>5, <2>6, <2>7, <2>8, <2>9, <2>10, <2>11, <2>12
<1> QED
  BY <1>1, <1>2

-----------------------------------------------------------------------------
(* Every step is one of the pipes, or none. *)

\* The order holds at the start.
LEMMA InitOrder == Init => OInv
<1> SUFFICES ASSUME Init PROVE OInv
  OBVIOUS
<1>1. IInv
  BY InitInvariant
<1>2. \A g \in Gateways : DOMAIN wire[g] = {}
  BY EmptyWire
<1>3. ToProvider /\ WireOrder /\ \A m : ~OnWire(m)
  BY <1>2 DEF ToProvider, WireOrder, OnWire
<1>4. Increasing(<<>>) /\ \A x : ~Among(x, <<>>)
  BY DEF Increasing, Among
<1>5. \A s \in Sessions, n \in Frames : ~Handed(s, n) /\ ~Sent(s, n) /\ ~Got(s, n)
  BY <1>3, <1>4 DEF Init, Handed, Data, NoEvent, Sent, Got
<1>6. UpOrder
  BY <1>4, <1>5 DEF UpOrder, Init
<1>7. frames = <<>> /\ mainCmd.by = NoHandler /\ \A g \in Gateways : waiting[g] = Idle
  BY DEF Init, NoMainCmd
<1>8. \A s \in Sessions, n \in Frames :
         /\ ~Shown(s, n) /\ ~Awaited(s, n) /\ ~Coming(s, n) /\ ~Returned(s, n)
         /\ ~Forwarded(s, n) /\ ~Queued(s, n)
  BY <1>2, <1>3, <1>4, <1>7, SessionType
     DEF Init, Shown, Awaited, Coming, Returned, Forwarded, Queued, Idle, SessionTakes
<1>9. FramesOrder /\ DownOrder
  BY <1>4, <1>7, <1>8 DEF FramesOrder, DownOrder, Init
<1> QED
  BY <1>1, <1>3, <1>6, <1>9 DEF OInv

\* Every action keeps the order.
LEMMA NextOrder == Ordered => (OInv /\ [Next]_vars => OInv')
<1> SUFFICES ASSUME Ordered, OInv, [Next]_vars PROVE OInv'
  OBVIOUS
<1>1. IInv /\ IInv'
  BY NextInvariant DEF OInv
<1>2. TypeOK /\ TypeOK' /\ WireDistinct /\ UpInOnePlace /\ DownInOnePlace
  BY <1>1 DEF IInv, Types
<1> QED
  BY <1>1, <1>2, NextToProvider, NextWireOrder, NextUpOrder, NextFramesOrder,
     NextDownOrder
     DEF OInv

\* Only a frame that main takes comes out of the pipe to the service.
LEMMA UpStep ==
    ASSUME IInv, UpOrder, [Next]_vars
    PROVE  [UpPipe!Next]_(UpPipe!vars)
<1>0. /\ TypeOK /\ up \in [Sessions -> 0..MaxFrames] /\ MaxFrames \in Nat
      /\ got \in [Sessions -> Seq(Frames)]
  BY FramesAssumption DEF IInv, Types, TypeOK
<1>1. CASE MainTakesFrame
  <2>1. event.by \in Sessions /\ event.n \in Frames /\ event = Data(event.by, event.n)
    BY <1>0, <1>1, EventFacts DEF MainTakesFrame, TypeOK
  <2> DEFINE s == event.by
             n == event.n
  <2>2. Handed(s, n)
    BY <2>1 DEF Handed
  <2>3. UNCHANGED up
    BY <1>1 DEF MainTakesFrame, clientVars
  <2>4. n <= up[s] /\ n \in Nat /\ up[s] \in Nat
    BY <1>0, <2>1, <2>2 DEF IInv, UpInOnePlace, Behind, Frames
  <2>5. UpPipe!Latest(s) \in Nat /\ UpPipe!Latest(s) < n
    <3>1. CASE got[s] = <<>>
      BY <2>1, <3>1 DEF UpPipe!Latest, Frames
    <3>2. CASE got[s] # <<>>
      <4>1. got[s] \in Seq(Frames) /\ Len(got[s]) \in 1..Len(got[s]) /\ Len(got[s]) \in DOMAIN got[s]
        BY <1>0, <2>1, <3>2, EmptySeq, LenProperties
      <4>2. got[s][Len(got[s])] \in Frames
        BY <4>1, ElementOfSeq
      <4>3. Got(s, got[s][Len(got[s])])
        BY <4>1 DEF Got, Among
      <4> QED
        BY <2>1, <2>2, <3>2, <4>2, <4>3 DEF UpOrder, UpPipe!Latest, Frames
    <3> QED
      BY <3>1, <3>2
  <2>6. n \in (UpPipe!Latest(s) + 1)..up[s]
    BY <2>4, <2>5
  <2>7. CASE s \in ended
    BY <1>1, <2>3, <2>7 DEF MainTakesFrame, UpPipe!vars
  <2>8. CASE s \notin ended
    <3>1. got' = [got EXCEPT ![s] = Append(@, n)]
      BY <1>1, <2>8 DEF MainTakesFrame
    <3>2. UpPipe!Get(s)
      BY <2>3, <2>6, <3>1 DEF UpPipe!Get
    <3> QED
      BY <2>1, <3>2 DEF UpPipe!Next
  <2> QED
    BY <2>7, <2>8
<1>2. ASSUME NEW s \in Sessions, Frame(s) PROVE UpPipe!Put(s)
  BY <1>2 DEF Frame, peerVars, mainVars, UpPipe!Put
<1>3. CASE UNCHANGED up /\ UNCHANGED got
  BY <1>3 DEF UpPipe!vars
<1>4. ASSUME NEW s \in Sessions, Frame(s) PROVE UNCHANGED got
  BY <1>4 DEF Frame, peerVars, mainVars
<1> QED
  BY <1>1, <1>2, <1>3, <1>4, UpSteps, GotSteps DEF UpPipe!Next

\* Only a frame that the user is shown comes out of the pipe to the user.
LEMMA DownStep ==
    ASSUME IInv, DownOrder, [Next]_vars
    PROVE  [DownPipe!Next]_(DownPipe!vars)
<1>0. /\ TypeOK /\ down \in [Sessions -> 0..MaxFrames] /\ MaxFrames \in Nat
      /\ shown \in [Sessions -> Seq(Frames)] /\ waiting \in [Gateways -> Waits]
  BY FramesAssumption DEF IInv, Types, TypeOK
<1>1. ASSUME NEW s \in Sessions, Receive(s) PROVE [DownPipe!Next]_(DownPipe!vars)
  <2> DEFINE g == ClientOf[s]
             n == waiting[g].n
  <2>1. g \in Gateways /\ waiting[g] = SessionTakes(s, n) /\ n \in Frames
    BY <1>0, <1>1, SessionType, WaitFacts DEF Receive
  <2>2. Awaited(s, n)
    BY <2>1 DEF Awaited
  <2>3. UNCHANGED down /\ (shown' = [shown EXCEPT ![s] = Append(@, n)] \/ UNCHANGED shown)
    BY <1>1 DEF Receive, mainVars
  <2>4. n <= down[s] /\ n \in Nat /\ down[s] \in Nat
    BY <1>0, <2>1, <2>2 DEF IInv, DownInOnePlace, Frames
  <2>5. DownPipe!Latest(s) \in Nat /\ DownPipe!Latest(s) < n
    <3>1. CASE shown[s] = <<>>
      BY <2>1, <3>1 DEF DownPipe!Latest, Frames
    <3>2. CASE shown[s] # <<>>
      <4>1. /\ shown[s] \in Seq(Frames) /\ Len(shown[s]) \in 1..Len(shown[s])
            /\ Len(shown[s]) \in DOMAIN shown[s]
        BY <1>0, <3>2, EmptySeq, LenProperties
      <4>2. shown[s][Len(shown[s])] \in Frames
        BY <4>1, ElementOfSeq
      <4>3. Shown(s, shown[s][Len(shown[s])])
        BY <4>1 DEF Shown, Among
      <4> QED
        BY <2>1, <2>2, <3>2, <4>2, <4>3 DEF DownOrder, DownPipe!Latest, Frames
    <3> QED
      BY <3>1, <3>2
  <2>6. n \in (DownPipe!Latest(s) + 1)..down[s]
    BY <2>4, <2>5
  <2>7. CASE UNCHANGED shown
    BY <2>3, <2>7 DEF DownPipe!vars
  <2>8. CASE shown' = [shown EXCEPT ![s] = Append(@, n)]
    BY <2>3, <2>6, <2>8 DEF DownPipe!Get, DownPipe!Next
  <2> QED
    BY <2>3, <2>7, <2>8
<1>2. CASE UNCHANGED shown
  <2>1. down' = down \/ \E s \in Sessions : down' = [down EXCEPT ![s] = @ + 1]
    BY <1>0, QueuedMoves
  <2> QED
    BY <1>2, <2>1 DEF DownPipe!Put, DownPipe!Next, DownPipe!vars
<1> QED
  BY <1>1, <1>2, ShownSteps

\* When messages arrive in order, the frames of a user reach the service in order
\* and once, however many are lost.
THEOREM UpImplementsPipe == Ordered => (Spec => UpInOrder)
<1> SUFFICES ASSUME Ordered PROVE Spec => UpInOrder
  OBVIOUS
<1>1. Init => UpPipe!Init
  BY DEF Init, UpPipe!Init
<1>2. OInv /\ [Next]_vars => OInv' /\ [UpPipe!Next]_(UpPipe!vars)
  BY NextOrder, UpStep DEF OInv
<1> QED
  BY <1>1, <1>2, InitOrder, PTL DEF Spec, UpInOrder, UpPipe!Spec

\* Likewise the frames of a service reach the user, and no other user.
THEOREM DownImplementsPipe == Ordered => (Spec => DownInOrder)
<1> SUFFICES ASSUME Ordered PROVE Spec => DownInOrder
  OBVIOUS
<1>1. Init => DownPipe!Init
  BY DEF Init, DownPipe!Init
<1>2. OInv /\ [Next]_vars => OInv' /\ [DownPipe!Next]_(DownPipe!vars)
  BY NextOrder, DownStep DEF OInv
<1> QED
  BY <1>1, <1>2, InitOrder, PTL DEF Spec, DownInOrder, DownPipe!Spec

=============================================================================
