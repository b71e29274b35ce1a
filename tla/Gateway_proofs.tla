--------------------------- MODULE Gateway_proofs ---------------------------
(***************************************************************************)
(* Proofs about Gateway, for any set of gateways, any requests and changes *)
(* of any services on any threads.                                         *)
(***************************************************************************)
EXTENDS GatewayHistory, TLAPS

\* What the constants promise.
LEMMA FwdConstants ==
    \A r \in Requests :
        r # NoHandler /\ r \notin Ops /\ Home[r] \in Gateways /\ ServiceOf[r] \in Keys
BY HandlersAssumption, NoHandlerAssumption, PlacementAssumption

\* Each change is called at one gateway and names one service.
LEMMA MgmtConstants ==
    \A o \in Ops :
        /\ o # NoHandler /\ o \notin Requests
        /\ Mgmt!At(o) = Info[o].at /\ Info[o].at \in Gateways
        /\ Mgmt!Key(o) = Info[o].key /\ Info[o].key \in Keys
        /\ Info[o].kind \in {"put", "delete"}
        /\ Info[o].peer \in Gateways \cup {NoPeer}
        /\ Info[o].deleted \in Mgmt!Flags
        /\ Info[o].providers \in BOOLEAN
BY RegistryAssumption, HandlersAssumption, NoHandlerAssumption
DEF Mgmt!InfoRecords, Mgmt!At, Mgmt!Key

\* Commands are records that name their handler; those of the two servers and
\* the empty slot differ.
LEMMA CommandFacts ==
    /\ \A r \in Requests :
          /\ Http!SendRequestCmd(r) \in Http!Commands /\ Http!SubmitUsageCmd(r) \in Http!Commands
          /\ Http!SendRequestCmd(r).by = r /\ Http!SubmitUsageCmd(r).by = r
          /\ Http!SendRequestCmd(r).kind = "SendRequest"
          /\ Http!SubmitUsageCmd(r).kind = "SubmitUsage"
    /\ \A q, r \in Requests : Http!SendRequestCmd(q) # Http!SubmitUsageCmd(r)
    /\ \A c \in Http!Commands :
          /\ c.by \in Requests
          /\ c = Http!SendRequestCmd(c.by) \/ c = Http!SubmitUsageCmd(c.by)
    /\ \A o \in Ops :
          /\ Mgmt!GossipCmd(o) \in Mgmt!Commands /\ Mgmt!AddServiceCmd(o) \in Mgmt!Commands
          /\ Mgmt!GossipCmd(o).by = o /\ Mgmt!AddServiceCmd(o).by = o
          /\ Mgmt!GossipCmd(o).kind = "PublishGossip"
          /\ Mgmt!AddServiceCmd(o).kind = "AddService"
    /\ \A c \in Mgmt!Commands :
          /\ c.by \in Ops
          /\ c = Mgmt!GossipCmd(c.by) \/ c = Mgmt!AddServiceCmd(c.by)
    /\ NoCmd \notin Http!Commands /\ NoCmd \notin Mgmt!Commands
    /\ NoCmd.by = NoHandler /\ NoCmd.kind = "none"
    /\ Http!Commands \cap Mgmt!Commands = {}
    /\ Http!NoCmd = NoCmd /\ Mgmt!NoCmd = NoCmd
BY DEF Http!SendRequestCmd, Http!SubmitUsageCmd, Http!Commands, Mgmt!GossipCmd,
       Mgmt!AddServiceCmd, Mgmt!Commands, NoCmd, Http!NoCmd, Mgmt!NoCmd

\* A command that the loop takes is what its kind says.
LEMMA CommandKinds ==
    \A c \in Http!Commands \cup Mgmt!Commands \cup {NoCmd} :
        /\ c.kind = "SendRequest" => c.by \in Requests /\ c = Http!SendRequestCmd(c.by)
        /\ c.kind = "SubmitUsage" => c.by \in Requests /\ c = Http!SubmitUsageCmd(c.by)
        /\ c.kind = "PublishGossip" => c.by \in Ops /\ c = Mgmt!GossipCmd(c.by)
        /\ c.kind = "AddService" => c.by \in Ops /\ c = Mgmt!AddServiceCmd(c.by)
<1> SUFFICES ASSUME NEW c \in Http!Commands \cup Mgmt!Commands \cup {NoCmd}
             PROVE  /\ c.kind = "SendRequest" => c.by \in Requests /\ c = Http!SendRequestCmd(c.by)
                    /\ c.kind = "SubmitUsage" => c.by \in Requests /\ c = Http!SubmitUsageCmd(c.by)
                    /\ c.kind = "PublishGossip" => c.by \in Ops /\ c = Mgmt!GossipCmd(c.by)
                    /\ c.kind = "AddService" => c.by \in Ops /\ c = Mgmt!AddServiceCmd(c.by)
  OBVIOUS
<1>1. CASE c \in Http!Commands
  BY <1>1 DEF Http!Commands, Http!SendRequestCmd, Http!SubmitUsageCmd
<1>2. CASE c \in Mgmt!Commands
  BY <1>2 DEF Mgmt!Commands, Mgmt!GossipCmd, Mgmt!AddServiceCmd
<1>3. CASE c = NoCmd
  BY <1>3 DEF NoCmd
<1> QED
  BY <1>1, <1>2, <1>3

\* A message names its schema and its request.
LEMMA MessageFacts ==
    /\ \A r \in Requests : Http!RequestMsg(r) \in Http!Messages /\ Http!ResponseMsg(r) \in Http!Messages
    /\ \A q, r \in Requests :
          /\ Http!RequestMsg(q) = Http!RequestMsg(r) => q = r
          /\ Http!ResponseMsg(q) = Http!ResponseMsg(r) => q = r
          /\ Http!RequestMsg(q) # Http!ResponseMsg(r)
BY DEF Http!RequestMsg, Http!ResponseMsg, Http!Messages

\* A POST of a new service makes a service record.
LEMMA CreateType ==
    \A o \in Ops :
        /\ Mgmt!Create(o) \in Mgmt!ServiceRecords
        /\ Mgmt!Create(o).providers = Info[o].providers
BY MgmtConstants DEF Mgmt!Create, Mgmt!ServiceRecords

\* So does a POST of any entry, and a provider that it names is kept.
LEMMA PutType ==
    ASSUME NEW o \in Ops, NEW s \in Mgmt!ServiceRecords \cup {NoService}
    PROVE  /\ Mgmt!Put(s, o) \in Mgmt!ServiceRecords
           /\ Info[o].providers => Mgmt!Put(s, o).providers
<1>1. CASE s = NoService
  BY <1>1, CreateType DEF Mgmt!Put
<1>2. CASE s # NoService
  <2>1. Mgmt!Put(s, o) = Mgmt!Update(s, o) /\ s \in Mgmt!ServiceRecords
    BY <1>2 DEF Mgmt!Put
  <2>2. (s.providers \/ Info[o].providers) \in BOOLEAN
    OBVIOUS
  <2>3. Mgmt!Update(s, o) \in Mgmt!ServiceRecords
    BY <2>1, <2>2, MgmtConstants DEF Mgmt!Update, Mgmt!ServiceRecords
  <2>4. Info[o].providers => Mgmt!Update(s, o).providers
    BY DEF Mgmt!Update
  <2> QED
    BY <2>1, <2>3, <2>4
<1> QED
  BY <1>1, <1>2

\* The preloaded entries are made by requests that are done.
LEMMA PreloadFacts ==
    ASSUME NEW k \in Keys
    PROVE  \/ /\ Mgmt!Preload(k) = NoService
              /\ ~ \E o \in Preloaded : Info[o].key = k
           \/ \E o \in Preloaded :
                 o \in Ops /\ Info[o].key = k /\ Mgmt!Preload(k) = Mgmt!Create(o)
<1>1. CASE \E o \in Preloaded : Mgmt!Key(o) = k
  <2> DEFINE c == CHOOSE o \in Preloaded : Mgmt!Key(o) = k
  <2>1. c \in Preloaded /\ c \in Ops /\ Mgmt!Key(c) = k
    BY <1>1, RegistryAssumption
  <2>2. Mgmt!Preload(k) = Mgmt!Create(c)
    BY <1>1 DEF Mgmt!Preload
  <2> HIDE DEF c
  <2> QED
    BY <2>1, <2>2, MgmtConstants
<1>2. CASE ~ \E o \in Preloaded : Mgmt!Key(o) = k
  BY <1>2, RegistryAssumption, MgmtConstants DEF Mgmt!Preload
<1> QED
  BY <1>1, <1>2

-----------------------------------------------------------------------------
(* Types. *)

\* The values the variables range over.
TypeOK ==
    /\ lock \in [Gateways -> Handlers \cup {NoHandler}]
    /\ poisoned \in [Gateways -> BOOLEAN]
    /\ cmd \in [Gateways -> Http!Commands \cup Mgmt!Commands \cup {NoCmd}]
    /\ net \in [Gateways -> {"running", "dead"}]
    /\ fwd \in [Requests -> Http!PcStates]
    /\ sessions \in [Gateways -> SUBSET Requests]
    /\ delivering \in [Gateways -> Requests \cup {NoHandler}]
    /\ wire \subseteq Http!Messages
    /\ served \in [Requests -> Nat]
    /\ billed \in [Requests -> Nat]
    /\ mgmt \in [Ops -> Mgmt!PcStates]
    /\ local \in [Ops -> Mgmt!ServiceRecords \cup {NoService}]
    /\ registry \in [Gateways -> [Keys -> Mgmt!ServiceRecords \cup {NoService}]]
    /\ gossip \subseteq Mgmt!Messages
    /\ published \in [Ops -> Nat]
    /\ seq \in [Gateways -> Nat]
    /\ taken \in [Gateways -> Mgmt!Commands \cup {NoCmd}]
    /\ applying \in [Gateways -> Ops \cup {NoHandler}]
    /\ known \in [Gateways -> BOOLEAN]
    /\ listed \subseteq Ops

\* Types at the start.
LEMMA InitTypeOK == Init => TypeOK
<1> SUFFICES ASSUME Init PROVE TypeOK
  OBVIOUS
<1>1. \A k \in Keys : Mgmt!Preload(k) \in Mgmt!ServiceRecords \cup {NoService}
  BY PreloadFacts, CreateType
<1> QED
  BY <1>1, CreateType, CommandFacts
  DEF Init, Mgmt!Init, Http!Init, Mgmt!BusInit, TypeOK, Http!PcStates,
      Mgmt!PcStates, Mgmt!Holding, Mgmt!Done

\* The steps of the forwarding server, without those that only faults enable.
FwdNext ==
    /\ UNCHANGED registryVars
    /\ \/ \E r \in Requests :
             \/ Http!Refuse(r) \/ Http!Accept(r) \/ Http!Disconnect(r)
             \/ Http!AcquireLock(r) \/ Http!LockPanics(r)
             \/ Http!PushRequest(r) \/ Http!PushUsage(r) \/ Http!PushPanics(r)
             \/ Http!FlushUsage(r) \/ Http!ReceiveResponse(r)
             \/ Http!ServeHttp(r) \/ Http!ServePanics(r)
             \/ HasHttpProvider(r) /\ Http!LookupPanics(r)
             \/ NoProviderPanics(r)
             \/ Http!Deliver(r) \/ Http!DeliverPanics(r)
       \/ \E g \in Gateways : Http!TakeSendRequest(g) \/ Http!TakeSubmitUsage(g)

\* Those of the management server.
MgmtNext ==
    /\ UNCHANGED httpVars
    /\ \/ \E o \in Ops :
             \/ Mgmt!Read(o) \/ Mgmt!Remove(o) \/ Mgmt!RemoveNothing(o)
             \/ Mgmt!Store(o) \/ Mgmt!AcquireLock(o) \/ Mgmt!LockPanics(o)
             \/ Mgmt!PushGossip(o) \/ Mgmt!PushListing(o)
             \/ Mgmt!HandlerPanics(o) \/ Mgmt!Respond(o)
       \/ \E g \in Gateways :
             \/ Mgmt!ReceiveCommand(g)
             \/ Mgmt!PublishGossip(g) \/ Mgmt!ListService(g) \/ Mgmt!Apply(g)
       \/ \E m \in gossip : Mgmt!LookUp(m)

\* Every step is one of the two, and the faults' steps are none.
LEMMA Steps == Next => FwdNext \/ MgmtNext
<1>1. /\ \A g \in Gateways : ~Http!ContractPanics(g)
      /\ \A g \in Gateways : ~Mgmt!PublishPanics(g) /\ ~Mgmt!ListingPanics(g)
  BY DEF Http!ContractPanics, Mgmt!PublishPanics, Mgmt!ListingPanics
<1> QED
  BY <1>1
  DEF Next, FwdNext, MgmtNext, FwdArrives, FwdDisconnect, FwdStep, FwdCommand,
      FwdRequest, FwdResponse, NoProviderPanics, MgmtArrives, MgmtStep, MgmtCommand,
      MgmtLookUp, MgmtApply, Http!HandlerStep, Http!TakeCommand, Http!HandleRequest,
      Http!HandleResponse, Mgmt!HandlerStep, Mgmt!TakeCommand

\* Forwarding keeps the types.
LEMMA FwdTypes == TypeOK /\ FwdNext => TypeOK'
<1> SUFFICES ASSUME TypeOK, FwdNext PROVE TypeOK'
  OBVIOUS
<1>0. UNCHANGED registryVars
  BY DEF FwdNext
<1> USE <1>0, FwdConstants, CommandFacts, MessageFacts
    DEF TypeOK, Http!PcStates, Http!Listening, Http!Holding, Http!Done, Http!Goto,
        Http!busVars, registryVars
<1>1. ASSUME NEW r \in Requests, Http!Refuse(r) PROVE TypeOK'
  BY <1>1 DEF Http!Refuse
<1>2. ASSUME NEW r \in Requests, Http!Accept(r) PROVE TypeOK'
  BY <1>2 DEF Http!Accept
<1>3. ASSUME NEW r \in Requests, Http!Disconnect(r) PROVE TypeOK'
  BY <1>3 DEF Http!Disconnect, Http!Release
<1>4. ASSUME NEW r \in Requests, Http!AcquireLock(r) PROVE TypeOK'
  BY <1>4, HandlersAssumption DEF Http!AcquireLock, Http!Acquire
<1>5. ASSUME NEW r \in Requests, Http!LockPanics(r) PROVE TypeOK'
  BY <1>5 DEF Http!LockPanics
<1>6. ASSUME NEW r \in Requests, Http!PushRequest(r) PROVE TypeOK'
  BY <1>6 DEF Http!PushRequest, Http!Push
<1>7. ASSUME NEW r \in Requests, Http!PushUsage(r) PROVE TypeOK'
  BY <1>7 DEF Http!PushUsage, Http!Push
<1>8. ASSUME NEW r \in Requests, Http!PushPanics(r) PROVE TypeOK'
  BY <1>8 DEF Http!PushPanics, Http!PanicWithGuard, Http!Release
<1>9. ASSUME NEW r \in Requests, Http!FlushUsage(r) PROVE TypeOK'
  BY <1>9 DEF Http!FlushUsage
<1>10. ASSUME NEW r \in Requests, Http!ReceiveResponse(r) PROVE TypeOK'
  BY <1>10 DEF Http!ReceiveResponse, Http!Release
<1>11. ASSUME NEW g \in Gateways, Http!TakeSendRequest(g) PROVE TypeOK'
  <2>1. cmd[g].by \in Requests
    BY <1>11, CommandKinds DEF Http!TakeSendRequest
  <2> QED
    BY <1>11, <2>1 DEF Http!TakeSendRequest, Http!Pop, Http!Outgoing
<1>12. ASSUME NEW g \in Gateways, Http!TakeSubmitUsage(g) PROVE TypeOK'
  <2>1. cmd[g].by \in Requests
    BY <1>12, CommandKinds DEF Http!TakeSubmitUsage
  <2> QED
    BY <1>12, <2>1 DEF Http!TakeSubmitUsage, Http!Pop
<1>13. ASSUME NEW r \in Requests, Http!ServeHttp(r) PROVE TypeOK'
  BY <1>13 DEF Http!ServeHttp
<1>14. ASSUME NEW g \in Gateways, Http!LoopPanics(g)
       PROVE  /\ net' \in [Gateways -> {"running", "dead"}]
              /\ cmd' \in [Gateways -> Http!Commands \cup Mgmt!Commands \cup {NoCmd}]
  BY <1>14 DEF Http!LoopPanics
<1>15. ASSUME NEW r \in Requests, Http!ServePanics(r) PROVE TypeOK'
  <2>1. served' \in [Requests -> Nat]
    <3>1. served' = served \/ served' = [served EXCEPT ![r] = @ + 1]
      BY <1>15 DEF Http!ServePanics
    <3> QED
      BY <3>1
  <2>2. wire' \subseteq Http!Messages
    BY <1>15 DEF Http!ServePanics
  <2> QED
    BY <1>14, <1>15, <2>1, <2>2, PlacementAssumption
    DEF Http!ServePanics, Http!LoopDies
<1>16. ASSUME NEW r \in Requests, Http!LookupPanics(r) \/ NoProviderPanics(r) PROVE TypeOK'
  BY <1>14, <1>16, PlacementAssumption
  DEF Http!LookupPanics, NoProviderPanics, Http!LoopDies
<1>17. ASSUME NEW r \in Requests, Http!Deliver(r) PROVE TypeOK'
  BY <1>17 DEF Http!Deliver
<1>18. ASSUME NEW r \in Requests, Http!DeliverPanics(r) PROVE TypeOK'
  BY <1>14, <1>18 DEF Http!DeliverPanics, Http!LoopDies
<1> QED
  BY <1>1, <1>2, <1>3, <1>4, <1>5, <1>6, <1>7, <1>8, <1>9, <1>10, <1>11, <1>12,
     <1>13, <1>15, <1>16, <1>17, <1>18
  DEF FwdNext

\* So does the management API.
LEMMA MgmtTypes == TypeOK /\ MgmtNext => TypeOK'
<1> SUFFICES ASSUME TypeOK, MgmtNext PROVE TypeOK'
  OBVIOUS
<1>0. UNCHANGED httpVars
  BY DEF MgmtNext
<1> USE <1>0, MgmtConstants, CommandFacts
    DEF TypeOK, Mgmt!PcStates, Mgmt!Holding, Mgmt!Done, Mgmt!Goto, Mgmt!busVars,
        Mgmt!loopVars, httpVars
<1>1. ASSUME NEW o \in Ops, Mgmt!Read(o) PROVE TypeOK'
  <2>1. registry[Info[o].at][Info[o].key] \in Mgmt!ServiceRecords \cup {NoService}
    OBVIOUS
  <2> QED
    BY <1>1, <2>1 DEF Mgmt!Read
<1>2. ASSUME NEW o \in Ops, Mgmt!Store(o) PROVE TypeOK'
  <2> DEFINE new == Mgmt!Put(local[o], o)
  <2>1. new \in Mgmt!ServiceRecords
    BY PutType
  <2>0. PICK g \in Gateways, k \in Keys : g = Mgmt!At(o) /\ k = Mgmt!Key(o)
    BY ONLY MgmtConstants
  <2>2. /\ local' = [local EXCEPT ![o] = new]
        /\ registry' = [registry EXCEPT ![g][k] = new]
    BY <1>2, <2>0 DEF Mgmt!Store
  <2> HIDE DEF new
  <2>3. local' \in [Ops -> Mgmt!ServiceRecords \cup {NoService}]
    BY <2>1, <2>2
  <2>4. registry' \in [Gateways -> [Keys -> Mgmt!ServiceRecords \cup {NoService}]]
    BY <2>1, <2>2
  <2> QED
    BY <1>2, <2>3, <2>4 DEF Mgmt!Store
<1>3. ASSUME NEW o \in Ops, Mgmt!Remove(o) PROVE TypeOK'
  <2> DEFINE gone == [registry[Info[o].at][Info[o].key] EXCEPT !.deleted = "true"]
  <2>1. registry[Info[o].at][Info[o].key] \in Mgmt!ServiceRecords
    BY <1>3 DEF Mgmt!Remove
  <2>2. gone \in Mgmt!ServiceRecords
    BY <2>1 DEF Mgmt!ServiceRecords, Mgmt!Flags
  <2>0. PICK g \in Gateways, k \in Keys : g = Mgmt!At(o) /\ k = Mgmt!Key(o)
    BY ONLY MgmtConstants
  <2>3. /\ local' = [local EXCEPT ![o] = gone]
        /\ registry' = [registry EXCEPT ![g][k] = NoService]
    BY <1>3, <2>0 DEF Mgmt!Remove
  <2> HIDE DEF gone
  <2>4. local' \in [Ops -> Mgmt!ServiceRecords \cup {NoService}]
    BY <2>2, <2>3
  <2>5. registry' \in [Gateways -> [Keys -> Mgmt!ServiceRecords \cup {NoService}]]
    BY <2>3
  <2> QED
    BY <1>3, <2>4, <2>5 DEF Mgmt!Remove
<1>4. ASSUME NEW o \in Ops, Mgmt!RemoveNothing(o) PROVE TypeOK'
  BY <1>4 DEF Mgmt!RemoveNothing
<1>5. ASSUME NEW o \in Ops, Mgmt!AcquireLock(o) PROVE TypeOK'
  BY <1>5, HandlersAssumption DEF Mgmt!AcquireLock, Mgmt!Acquire
<1>6. ASSUME NEW o \in Ops, Mgmt!LockPanics(o) PROVE TypeOK'
  BY <1>6 DEF Mgmt!LockPanics
<1>7. ASSUME NEW o \in Ops, Mgmt!PushGossip(o) PROVE TypeOK'
  BY <1>7 DEF Mgmt!PushGossip, Mgmt!Push
<1>8. ASSUME NEW o \in Ops, Mgmt!PushListing(o) PROVE TypeOK'
  BY <1>8 DEF Mgmt!PushListing, Mgmt!Push
<1>9. ASSUME NEW o \in Ops, Mgmt!HandlerPanics(o) PROVE TypeOK'
  BY <1>9 DEF Mgmt!HandlerPanics, Mgmt!PanicWithGuard, Mgmt!Release
<1>10. ASSUME NEW o \in Ops, Mgmt!Respond(o) PROVE TypeOK'
  BY <1>10 DEF Mgmt!Respond, Mgmt!Release
<1>11. ASSUME NEW g \in Gateways, Mgmt!PublishGossip(g) PROVE TypeOK'
  <2>1. taken[g].by \in Ops
    BY <1>11 DEF Mgmt!PublishGossip, Mgmt!Executing
  <2>2. seq' \in [Gateways -> Nat] /\ published' \in [Ops -> Nat]
    BY <1>11, <2>1 DEF Mgmt!PublishGossip
  <2>3. gossip' \subseteq Mgmt!Messages
    BY <1>11, <2>1 DEF Mgmt!PublishGossip, Mgmt!Messages
  <2> QED
    BY <1>11, <2>2, <2>3 DEF Mgmt!PublishGossip
<1>12. ASSUME NEW g \in Gateways, Mgmt!ListService(g) PROVE TypeOK'
  <2>1. taken[g].by \in Ops
    BY <1>12 DEF Mgmt!ListService, Mgmt!Executing
  <2> QED
    BY <1>12, <2>1 DEF Mgmt!ListService
<1>13. ASSUME NEW g \in Gateways, Mgmt!Apply(g) PROVE TypeOK'
  <2>1. PICK o \in Ops : applying[g] = o
    BY <1>13 DEF Mgmt!Apply
  <2>2. PICK k \in Keys : k = Mgmt!Key(o)
    BY ONLY MgmtConstants DEF Mgmt!Key
  <2> DEFINE entry == IF known[g] /\ local[o].deleted = "true" THEN NoService ELSE local[o]
  <2>3. registry' = [registry EXCEPT ![g][k] = entry]
    BY <1>13, <2>1, <2>2 DEF Mgmt!Apply
  <2>4. entry \in Mgmt!ServiceRecords \cup {NoService}
    OBVIOUS
  <2> HIDE DEF entry
  <2>5. registry' \in [Gateways -> [Keys -> Mgmt!ServiceRecords \cup {NoService}]]
    BY <2>3, <2>4
  <2>6. applying' \in [Gateways -> Ops \cup {NoHandler}]
    BY <1>13 DEF Mgmt!Apply
  <2> QED
    BY <1>13, <2>5, <2>6 DEF Mgmt!Apply
<1>14. ASSUME NEW m \in gossip, Mgmt!LookUp(m) PROVE TypeOK'
  BY <1>14 DEF Mgmt!LookUp, Mgmt!Messages
<1>15. ASSUME NEW g \in Gateways, Mgmt!ReceiveCommand(g) PROVE TypeOK'
  <2>1. cmd[g].kind \in {"PublishGossip", "AddService"}
    BY <1>15 DEF Mgmt!ReceiveCommand
  <2>2. cmd[g].by \in Ops
        /\ (cmd[g] = Mgmt!GossipCmd(cmd[g].by) \/ cmd[g] = Mgmt!AddServiceCmd(cmd[g].by))
    BY <2>1, CommandKinds
  <2>3. cmd[g] \in Mgmt!Commands
    BY <2>2, CommandFacts
  <2> QED
    BY <1>15, <2>3 DEF Mgmt!ReceiveCommand, Mgmt!Pop
<1> QED
  BY <1>1, <1>2, <1>3, <1>4, <1>5, <1>6, <1>7, <1>8, <1>9, <1>10, <1>11, <1>12,
     <1>13, <1>14, <1>15
  DEF MgmtNext

\* The variables keep their types.
LEMMA NextTypeOK == TypeOK /\ [Next]_vars => TypeOK'
<1>1. TypeOK /\ UNCHANGED vars => TypeOK'
  BY DEF TypeOK, vars, busVars, httpVars, registryVars
<1> QED
  BY <1>1, Steps, FwdTypes, MgmtTypes

-----------------------------------------------------------------------------
(* Forwarding on the shared bus. *)

\* The mutex and the slot serve this gateway's handlers; a dead loop has an empty
\* slot and waits for nobody.
FwdBus ==
    /\ \A g \in Gateways : lock[g] \in Requests => Home[lock[g]] = g
    /\ \A g \in Gateways : cmd[g] \in Http!Commands => Home[cmd[g].by] = g
    /\ \A g \in Gateways : cmd[g] # NoCmd => Alive(g)
    /\ \A g \in Gateways : delivering[g] # NoHandler => Alive(g)

\* An answer is the last that is heard of a request; a handler that panicked at
\* a running loop has sent nothing.
FwdEnded ==
    \A r \in Requests :
        /\ fwd[r] = "answered" => Http!ResponseMsg(r) \notin wire
        /\ fwd[r] = "panicked" /\ Alive(Home[r]) =>
              /\ cmd[Home[r]] = NoCmd \/ cmd[Home[r]].by # r
              /\ Http!RequestMsg(r) \notin wire /\ Http!ResponseMsg(r) \notin wire

\* HttpForward's invariant without what the other server may break: the mutex
\* is not always a request's, and poisoned at running loops as well.
FwdInv ==
    /\ FwdBus
    /\ Http!GuardMatchesHandler
    /\ Http!LoopWaitsForHolder
    /\ Http!OnePlace
    /\ Http!Charged
    /\ Http!Registered
    /\ Http!ServedAtMostOnce
    /\ Http!AnsweredIsServedAndBilled
    /\ FwdEnded

\* At the start no request has been sent.
LEMMA InitFwdInv == Init => FwdInv
BY FwdConstants, CommandFacts, RegistryAssumption, ModeAssumption
DEF Init, Http!Init, Http!BusInit, FwdInv, FwdBus, Http!GuardMatchesHandler,
    Http!LoopWaitsForHolder, Http!OnePlace, Http!Charged, Http!Registered,
    Http!ServedAtMostOnce, Http!AnsweredIsServedAndBilled, FwdEnded, Http!SlotFree,
    Alive, Http!Alive, Http!Holding, Http!Unsent, Http!Charge

\* Forwarding keeps its invariant: one step per action, and under it the
\* conjuncts that the action could disturb.
LEMMA FwdInductive == TypeOK /\ FwdInv /\ FwdNext /\ TypeOK' => FwdInv'
<1> SUFFICES ASSUME TypeOK, FwdInv, FwdNext, TypeOK' PROVE FwdInv'
  OBVIOUS
<1> USE FwdConstants, CommandFacts, CommandKinds, MessageFacts, PlacementAssumption
    DEF TypeOK, FwdInv, Http!PcStates, Http!Listening, Http!Holding, Http!Done,
        Http!Unsent, Http!Charge, Http!Goto, Alive, Http!Alive, Http!SlotFree,
        Http!busVars, Http!Arriving, Http!Acquire, Http!AcquireFails, Http!Release,
        Http!PanicWithGuard, Http!Push, Http!Pop, Http!Outgoing, Http!LoopIdle,
        Http!LoopPanics, Http!LoopDies, Http!Arrived, Http!AckFails
<1>1. ASSUME NEW r \in Requests, Http!Refuse(r) PROVE FwdInv'
  BY <1>1
  DEF Http!Refuse, FwdBus, Http!GuardMatchesHandler, Http!LoopWaitsForHolder,
      Http!OnePlace, Http!Charged, Http!Registered, Http!ServedAtMostOnce,
      Http!AnsweredIsServedAndBilled, FwdEnded
\* The session is there from now on; nothing has been sent.
<1>2. ASSUME NEW r \in Requests, Http!Accept(r) PROVE FwdInv'
  <2>1. Http!OnePlace'
    BY <1>2 DEF Http!Accept, Http!OnePlace
  <2>2. Http!Registered'
    BY <1>2 DEF Http!Accept, Http!Registered
  <2> QED
    BY <1>2, <2>1, <2>2
    DEF Http!Accept, FwdBus, Http!GuardMatchesHandler, Http!LoopWaitsForHolder,
        Http!Charged, Http!ServedAtMostOnce, Http!AnsweredIsServedAndBilled, FwdEnded
\* The guard and a pending handover end together; the command may stay in the
\* slot.
<1>3. ASSUME NEW r \in Requests, Http!Disconnect(r) PROVE FwdInv'
  <2>1. Http!GuardMatchesHandler'
    BY <1>3 DEF Http!Disconnect, Http!GuardMatchesHandler
  <2>2. Http!LoopWaitsForHolder'
    BY <1>3
    DEF Http!Disconnect, FwdBus, Http!GuardMatchesHandler, Http!LoopWaitsForHolder
  <2>3. Http!OnePlace'
    BY <1>3 DEF Http!Disconnect, Http!OnePlace
  <2>4. Http!Charged'
    BY <1>3 DEF Http!Disconnect, Http!Charged
  <2>5. FwdEnded'
    BY <1>3 DEF Http!Disconnect, FwdEnded
  <2> QED
    BY <1>3, <2>1, <2>2, <2>3, <2>4, <2>5
    DEF Http!Disconnect, FwdBus, Http!Registered, Http!ServedAtMostOnce,
        Http!AnsweredIsServedAndBilled
\* No loop waits for a handler while the mutex is free, so none waits for
\* another one now.
<1>4. ASSUME NEW r \in Requests, Http!AcquireLock(r) PROVE FwdInv'
  <2>1. FwdBus'
    BY <1>4 DEF Http!AcquireLock, FwdBus
  <2>2. Http!GuardMatchesHandler'
    BY <1>4 DEF Http!AcquireLock, Http!GuardMatchesHandler
  <2>3. Http!LoopWaitsForHolder'
    BY <1>4 DEF Http!AcquireLock, Http!LoopWaitsForHolder
  <2> QED
    BY <1>4, <2>1, <2>2, <2>3
    DEF Http!AcquireLock, Http!OnePlace, Http!Charged, Http!Registered,
        Http!ServedAtMostOnce, Http!AnsweredIsServedAndBilled, FwdEnded
<1>5. ASSUME NEW r \in Requests, Http!LockPanics(r) PROVE FwdInv'
  BY <1>5
  DEF Http!LockPanics, FwdBus, Http!GuardMatchesHandler, Http!LoopWaitsForHolder,
      Http!OnePlace, Http!Charged, Http!Registered, Http!ServedAtMostOnce,
      Http!AnsweredIsServedAndBilled, FwdEnded
\* The holder is the only one whose command can be in the slot.
<1>6. ASSUME NEW r \in Requests, Http!PushRequest(r) PROVE FwdInv'
  <2>1. FwdBus'
    BY <1>6 DEF Http!PushRequest, FwdBus
  <2>2. Http!OnePlace'
    BY <1>6 DEF Http!PushRequest, Http!OnePlace
  <2>3. Http!Charged'
    <3>1. cmd' = [cmd EXCEPT ![Home[r]] = Http!SendRequestCmd(r)] /\ cmd[Home[r]] = NoCmd
      BY <1>6 DEF Http!PushRequest
    <3>2. \A q \in Requests \ {r} : Home[q] = Home[r] => fwd[q] \notin Http!Holding
      BY <1>6 DEF Http!PushRequest, Http!GuardMatchesHandler
    <3>3. billed'[r] = billed[r] /\ billed[r] = 0 /\ fwd'[r] = "flushRequest"
      BY <1>6 DEF Http!PushRequest, Http!OnePlace
    <3>4. \A q \in Requests \ {r} : fwd'[q] = fwd[q] /\ billed'[q] = billed[q]
      BY <1>6 DEF Http!PushRequest
    <3>5. net' = net
      BY <1>6 DEF Http!PushRequest
    <3>6. \A q \in Requests : Http!SubmitUsageCmd(q) # Http!SendRequestCmd(r)
      OBVIOUS
    <3>7. ASSUME NEW q \in Requests, Home[q] # Home[r] PROVE cmd'[Home[q]] = cmd[Home[q]] /\ q # r
      BY <3>1, <3>7
    <3>8. ASSUME NEW q \in Requests, Home[q] = Home[r] PROVE cmd'[Home[q]] # Http!SubmitUsageCmd(q)
      BY <3>1, <3>6, <3>8
    <3> QED
      BY ONLY Http!Charged, <3>2, <3>3, <3>4, <3>5, <3>7, <3>8
      DEF Http!Charged, Http!Holding, Http!Charge, Http!Alive
  <2> QED
    BY <1>6, <2>1, <2>2, <2>3
    DEF Http!PushRequest, Http!GuardMatchesHandler, Http!LoopWaitsForHolder,
        Http!Registered, Http!ServedAtMostOnce, Http!AnsweredIsServedAndBilled,
        FwdEnded
\* The slot was free: the request has left it.
<1>7. ASSUME NEW r \in Requests, Http!PushUsage(r) PROVE FwdInv'
  <2>1. FwdBus'
    BY <1>7 DEF Http!PushUsage, FwdBus
  <2> DEFINE new == Http!SubmitUsageCmd(r)
  <2>2. /\ cmd' = [cmd EXCEPT ![Home[r]] = new] /\ cmd[Home[r]] = NoCmd
        /\ UNCHANGED <<net, wire, served, billed, delivering>>
        /\ fwd[r] = "flushRequest" /\ fwd' = [fwd EXCEPT ![r] = "flushUsage"]
    BY <1>7 DEF Http!PushUsage
  <2>3. new.by = r /\ \A q \in Requests : new # Http!SendRequestCmd(q)
    BY DEF Http!SendRequestCmd, Http!SubmitUsageCmd
  <2>4. \A q \in Requests : Http!SubmitUsageCmd(q) = new => q = r
    BY DEF Http!SubmitUsageCmd
  <2> HIDE DEF new
  <2>5. Http!OnePlace'
    BY <2>2, <2>3 DEF Http!OnePlace
  <2>6. Http!Charged'
    <3>1. \A q \in Requests \ {r} : Home[q] = Home[r] => fwd[q] \notin Http!Holding
      BY <1>7 DEF Http!PushUsage, Http!GuardMatchesHandler
    <3>2. new = Http!SubmitUsageCmd(r)
      BY DEF new
    <3> QED
      BY <2>2, <2>4, <3>1, <3>2 DEF Http!Charged
  <2> QED
    BY <1>7, <2>1, <2>5, <2>6
    DEF Http!PushUsage, Http!GuardMatchesHandler, Http!LoopWaitsForHolder,
        Http!Registered, Http!ServedAtMostOnce, Http!AnsweredIsServedAndBilled,
        FwdEnded
\* A push fails only when the loop is dead.
<1>8. ASSUME NEW r \in Requests, Http!PushPanics(r) PROVE FwdInv'
  <2>1. Http!GuardMatchesHandler'
    BY <1>8 DEF Http!PushPanics, Http!GuardMatchesHandler
  <2>2. Http!LoopWaitsForHolder'
    BY <1>8
    DEF Http!PushPanics, FwdBus, Http!GuardMatchesHandler, Http!LoopWaitsForHolder
  <2>3. FwdEnded'
    BY <1>8 DEF Http!PushPanics, FwdEnded
  <2> QED
    BY <1>8, <2>1, <2>2, <2>3
    DEF Http!PushPanics, FwdBus, Http!OnePlace, Http!Charged, Http!Registered,
        Http!ServedAtMostOnce, Http!AnsweredIsServedAndBilled
\* An empty slot means a charge made, or a dead loop.
<1>9. ASSUME NEW r \in Requests, Http!FlushUsage(r) PROVE FwdInv'
  <2>1. Http!Charged'
    BY <1>9 DEF Http!FlushUsage, Http!Charged
  <2> QED
    BY <1>9, <2>1
    DEF Http!FlushUsage, FwdBus, Http!GuardMatchesHandler,
        Http!LoopWaitsForHolder, Http!OnePlace, Http!Registered,
        Http!ServedAtMostOnce, Http!AnsweredIsServedAndBilled, FwdEnded
\* A loop that hands over is alive, so the charge was made.
<1>10. ASSUME NEW r \in Requests, Http!ReceiveResponse(r) PROVE FwdInv'
  <2>1. Http!GuardMatchesHandler'
    BY <1>10 DEF Http!ReceiveResponse, Http!GuardMatchesHandler
  <2>2. Http!LoopWaitsForHolder'
    BY <1>10 DEF Http!ReceiveResponse, Http!LoopWaitsForHolder
  <2>3. Http!OnePlace'
    BY <1>10 DEF Http!ReceiveResponse, Http!OnePlace
  <2>4. Http!AnsweredIsServedAndBilled'
    BY <1>10
    DEF Http!ReceiveResponse, FwdBus, Http!GuardMatchesHandler,
        Http!LoopWaitsForHolder, Http!OnePlace, Http!Charged,
        Http!AnsweredIsServedAndBilled, FwdEnded
  <2>5. FwdEnded'
    BY <1>10
    DEF Http!ReceiveResponse, FwdBus, Http!GuardMatchesHandler,
        Http!LoopWaitsForHolder, Http!OnePlace, FwdEnded
  <2> QED
    BY <1>10, <2>1, <2>2, <2>3, <2>4, <2>5
    DEF Http!ReceiveResponse, FwdBus, Http!Charged, Http!Registered,
        Http!ServedAtMostOnce
\* From the slot to the wire.
<1>11. ASSUME NEW g \in Gateways, Http!TakeSendRequest(g) PROVE FwdInv'
  <2>1. FwdBus'
    BY <1>11 DEF Http!TakeSendRequest, FwdBus
  <2> DEFINE r == cmd[g].by
  <2>2. r \in Requests /\ cmd[g] = Http!SendRequestCmd(r) /\ Home[r] = g
    BY <1>11 DEF Http!TakeSendRequest, FwdBus
  <2> HIDE DEF r
  <2>3. /\ cmd' = [cmd EXCEPT ![g] = NoCmd]
        /\ wire' \in {wire, wire \cup {Http!RequestMsg(r)}}
        /\ UNCHANGED <<net, fwd, served, billed, delivering>>
    BY <1>11 DEF Http!TakeSendRequest, r
  <2>4. served[r] = 0 /\ Http!ResponseMsg(r) \notin wire /\ fwd[r] \in {"flushRequest", "cancelled"}
    BY <2>2 DEF Http!OnePlace
  <2>5. Http!OnePlace'
    BY <2>2, <2>3, <2>4 DEF Http!OnePlace
  <2>6. Http!Charged'
    BY <2>2, <2>3 DEF Http!Charged
  <2>7. FwdEnded'
    BY <2>2, <2>3, <2>4 DEF FwdEnded
  <2> QED
    BY <1>11, <2>1, <2>5, <2>6, <2>7
    DEF Http!TakeSendRequest, Http!GuardMatchesHandler, Http!LoopWaitsForHolder,
        Http!Registered, Http!ServedAtMostOnce, Http!AnsweredIsServedAndBilled
\* The command in the slot is the first charge of its request.
<1>12. ASSUME NEW g \in Gateways, Http!TakeSubmitUsage(g) PROVE FwdInv'
  <2>1. FwdBus'
    BY <1>12 DEF Http!TakeSubmitUsage, FwdBus
  <2>2. Http!OnePlace'
    BY <1>12
    DEF Http!TakeSubmitUsage, FwdBus, Http!GuardMatchesHandler, Http!OnePlace
  <2>3. Http!Charged'
    BY <1>12
    DEF Http!TakeSubmitUsage, FwdBus, Http!GuardMatchesHandler, Http!Charged
  <2>4. Http!AnsweredIsServedAndBilled'
    BY <1>12
    DEF Http!TakeSubmitUsage, FwdBus, Http!GuardMatchesHandler,
        Http!LoopWaitsForHolder, Http!OnePlace, Http!Charged,
        Http!AnsweredIsServedAndBilled, FwdEnded
  <2> QED
    BY <1>12, <2>1, <2>2, <2>3, <2>4
    DEF Http!TakeSubmitUsage, Http!GuardMatchesHandler, Http!LoopWaitsForHolder,
        Http!Registered, Http!ServedAtMostOnce, FwdEnded
\* A request on the wire has not been served.
<1>13. ASSUME NEW r \in Requests, Http!ServeHttp(r) PROVE FwdInv'
  <2>1. Http!OnePlace'
    BY <1>13 DEF Http!ServeHttp, Http!OnePlace
  <2>2. Http!ServedAtMostOnce'
    BY <1>13
    DEF Http!ServeHttp, FwdBus, Http!GuardMatchesHandler, Http!LoopWaitsForHolder,
        Http!OnePlace, Http!ServedAtMostOnce
  <2>3. Http!AnsweredIsServedAndBilled'
    BY <1>13
    DEF Http!ServeHttp, FwdBus, Http!GuardMatchesHandler, Http!LoopWaitsForHolder,
        Http!OnePlace, Http!AnsweredIsServedAndBilled
  <2>4. FwdEnded'
    BY <1>13
    DEF Http!ServeHttp, FwdBus, Http!GuardMatchesHandler, Http!LoopWaitsForHolder,
        Http!OnePlace, Http!Charged, Http!Registered, Http!ServedAtMostOnce,
        Http!AnsweredIsServedAndBilled, FwdEnded
  <2> QED
    BY <1>13, <2>1, <2>2, <2>3, <2>4
    DEF Http!ServeHttp, FwdBus, Http!GuardMatchesHandler, Http!LoopWaitsForHolder,
        Http!Charged, Http!Registered
<1>14. ASSUME NEW r \in Requests, Http!LookupPanics(r) \/ NoProviderPanics(r) PROVE FwdInv'
  <2>1. /\ Http!Arrived(Provider, Http!RequestMsg(r))
        /\ wire' = wire \ {Http!RequestMsg(r)}
        /\ Http!LoopDies(Provider)
        /\ UNCHANGED <<served, billed>>
    BY <1>14 DEF Http!LookupPanics, NoProviderPanics
  <2>2. FwdBus'
    BY <2>1 DEF FwdBus
  <2>3. Http!OnePlace'
    BY <2>1 DEF Http!OnePlace
  <2>4. Http!Charged'
    BY <2>1 DEF Http!Charged
  <2>5. FwdEnded'
    BY <2>1 DEF FwdEnded
  <2> QED
    BY <2>1, <2>2, <2>3, <2>4, <2>5
    DEF Http!GuardMatchesHandler, Http!LoopWaitsForHolder, Http!Registered,
        Http!ServedAtMostOnce, Http!AnsweredIsServedAndBilled
\* Whether or not the call was made, no response is sent.
<1>15. ASSUME NEW r \in Requests, Http!ServePanics(r) PROVE FwdInv'
  <2>1. FwdBus'
    BY <1>15 DEF Http!ServePanics, FwdBus
  <2>2. Http!OnePlace'
    BY <1>15 DEF Http!ServePanics, Http!OnePlace
  <2>3. Http!ServedAtMostOnce'
    <3>1. served[r] = 0
      BY <1>15 DEF Http!ServePanics, Http!OnePlace
    <3>2. served' = served \/ served' = [served EXCEPT ![r] = @ + 1]
      BY <1>15 DEF Http!ServePanics
    <3>3. \A q \in Requests : served'[q] = served[q] \/ served'[q] = 1
      BY <3>1, <3>2
    <3>4. \A q \in Requests : served[q] <= 1
      BY DEF Http!ServedAtMostOnce
    <3> QED
      BY ONLY <3>3, <3>4 DEF Http!ServedAtMostOnce
  <2>4. Http!AnsweredIsServedAndBilled'
    BY <1>15
    DEF Http!ServePanics, FwdBus, Http!GuardMatchesHandler,
        Http!LoopWaitsForHolder, Http!OnePlace, Http!AnsweredIsServedAndBilled
  <2> QED
    BY <1>15, <2>1, <2>2, <2>3, <2>4
    DEF Http!ServePanics, Http!GuardMatchesHandler, Http!LoopWaitsForHolder,
        Http!Charged, Http!Registered, FwdEnded
\* A listening handler with a response on the wire has sent its request: it
\* holds the mutex.
<1>16. ASSUME NEW r \in Requests, Http!Deliver(r) PROVE FwdInv'
  <2>1. FwdBus'
    BY <1>16 DEF Http!Deliver, FwdBus
  <2>2. Http!LoopWaitsForHolder'
    BY <1>16
    DEF Http!Deliver, FwdBus, Http!GuardMatchesHandler, Http!LoopWaitsForHolder,
        Http!OnePlace
  <2>3. Http!OnePlace'
    BY <1>16 DEF Http!Deliver, Http!OnePlace
  <2> QED
    BY <1>16, <2>1, <2>2, <2>3
    DEF Http!Deliver, Http!GuardMatchesHandler, Http!Charged, Http!Registered,
        Http!ServedAtMostOnce, Http!AnsweredIsServedAndBilled, FwdEnded
<1>17. ASSUME NEW r \in Requests, Http!DeliverPanics(r) PROVE FwdInv'
  <2>1. FwdBus'
    BY <1>17 DEF Http!DeliverPanics, FwdBus
  <2>2. Http!OnePlace'
    BY <1>17 DEF Http!DeliverPanics, Http!OnePlace
  <2>3. FwdEnded'
    BY <1>17 DEF Http!DeliverPanics, FwdEnded
  <2> QED
    BY <1>17, <2>1, <2>2, <2>3
    DEF Http!DeliverPanics, Http!GuardMatchesHandler, Http!LoopWaitsForHolder,
        Http!Charged, Http!Registered, Http!ServedAtMostOnce,
        Http!AnsweredIsServedAndBilled
<1> QED
  BY <1>1, <1>2, <1>3, <1>4, <1>5, <1>6, <1>7, <1>8, <1>9, <1>10, <1>11, <1>12,
     <1>13, <1>14, <1>15, <1>16, <1>17
  DEF FwdNext

\* A step that leaves the loops, forwarding's commands and its guards alone.
FwdUntouched ==
    /\ UNCHANGED net
    /\ \A g \in Gateways :
          \/ cmd'[g] = cmd[g]
          \/ /\ cmd[g] \notin Http!Commands /\ cmd'[g] \notin Http!Commands
             /\ cmd'[g] = NoCmd \/ Alive(g)
    /\ \A g \in Gateways :
          lock'[g] = lock[g] \/ (lock[g] \notin Requests /\ lock'[g] \notin Requests)

\* It keeps the invariant.
LEMMA FwdFrame ==
    ASSUME TypeOK, TypeOK', FwdInv, UNCHANGED httpVars, FwdUntouched
    PROVE  FwdInv'
<1> USE FwdConstants, CommandFacts
    DEF TypeOK, FwdInv, FwdUntouched, httpVars, Alive, Http!Alive, Http!SlotFree
<1>1. FwdBus'
  BY DEF FwdBus
<1>2. Http!GuardMatchesHandler' /\ Http!LoopWaitsForHolder'
  BY DEF Http!GuardMatchesHandler, Http!LoopWaitsForHolder
<1>3. ASSUME NEW r \in Requests
      PROVE  /\ cmd'[Home[r]] = Http!SendRequestCmd(r) => cmd[Home[r]] = Http!SendRequestCmd(r)
             /\ cmd'[Home[r]] = Http!SubmitUsageCmd(r) <=> cmd[Home[r]] = Http!SubmitUsageCmd(r)
  OBVIOUS
<1>4. ASSUME NEW r \in Requests, cmd[Home[r]] = NoCmd \/ cmd[Home[r]].by # r
      PROVE  cmd'[Home[r]] = NoCmd \/ cmd'[Home[r]].by # r
  BY <1>4
<1>5. Http!OnePlace'
  BY <1>3, <1>4 DEF Http!OnePlace
<1>6. Http!Charged'
  BY <1>3 DEF Http!Charged
<1>7. FwdEnded'
  BY <1>4 DEF FwdEnded
<1> QED
  BY <1>1, <1>2, <1>5, <1>6, <1>7
  DEF Http!Registered, Http!ServedAtMostOnce, Http!AnsweredIsServedAndBilled

-----------------------------------------------------------------------------
(* Management on the shared bus. *)

\* The handler has made its change.
Settled(o) == mgmt[o] \notin {"idle", "read", "notFound"}

\* A command of the management API is in the slot of its gateway while its
\* handler waits for it to be received, and in the loop's hand after that.
MgmtBus ==
    /\ \A g \in Gateways, o \in Ops :
          cmd[g] = Mgmt!GossipCmd(o) => Info[o].at = g /\ mgmt[o] = "flushGossip"
    /\ \A g \in Gateways, o \in Ops :
          cmd[g] = Mgmt!AddServiceCmd(o) => Info[o].at = g /\ mgmt[o] = "flushListing"
    /\ \A g \in Gateways, o \in Ops :
          taken[g] = Mgmt!GossipCmd(o) =>
              /\ Info[o].at = g /\ cmd[g] # Mgmt!GossipCmd(o)
              /\ mgmt[o] \in {"flushGossip", "flushListing", "done", "panicked"}
    /\ \A g \in Gateways, o \in Ops :
          taken[g] = Mgmt!AddServiceCmd(o) => Info[o].at = g

\* Only handlers that have made their change are heard of, and not at home.
MgmtSettled ==
    /\ \A o \in Ops : Settled(o) => local[o] # NoService
    /\ \A m \in gossip : Settled(m.by) /\ Info[m.by].at # m.to
    /\ \A g \in Gateways :
          applying[g] # NoHandler => Settled(applying[g]) /\ Info[applying[g]].at # g

\* As long as the loop runs, what a handler has pushed is in the slot, in the
\* loop's hand or carried out, and what its answer promises is in the loop's hand
\* or carried out.
Flushed ==
    /\ \A o \in Ops :
          mgmt[o] = "flushGossip" /\ Alive(Info[o].at) =>
              \/ cmd[Info[o].at] = Mgmt!GossipCmd(o)
              \/ taken[Info[o].at] = Mgmt!GossipCmd(o)
              \/ published[o] > 0
    /\ \A o \in Ops :
          mgmt[o] = "flushListing" /\ Alive(Info[o].at) =>
              /\ taken[Info[o].at] = Mgmt!GossipCmd(o) \/ published[o] > 0
              /\ Market => \/ cmd[Info[o].at] = Mgmt!AddServiceCmd(o)
                           \/ taken[Info[o].at] = Mgmt!AddServiceCmd(o)
                           \/ o \in listed
    /\ \A o \in Ops \ Preloaded :
          mgmt[o] = "done" /\ Alive(Info[o].at) =>
              /\ taken[Info[o].at] = Mgmt!GossipCmd(o) \/ published[o] > 0
              /\ Info[o].kind = "put" /\ Market =>
                    taken[Info[o].at] = Mgmt!AddServiceCmd(o) \/ o \in listed

\* A handler that answers 200 OK, or has, without its change being announced.
Unfounded(o) ==
    /\ o \notin Preloaded
    /\ mgmt[o] \in {"flushGossip", "flushListing", "done"}
    /\ ~Mgmt!Announced(o)

\* A loop that died left at most two of them.
FewUnfounded ==
    \A g \in Gateways :
        ~Alive(g) => \E a, b \in Handlers \cup {NoHandler} :
                        \A o \in Ops : Info[o].at = g /\ Unfounded(o) => o = a \/ o = b

\* What Registry's invariant says of the bus.
MgmtInv ==
    /\ Mgmt!GuardMatchesHandler
    /\ MgmtBus
    /\ MgmtSettled
    /\ Flushed
    /\ FewUnfounded

\* At the start the preloaded changes are made, and nothing is under way.
LEMMA InitMgmtInv == Init => MgmtInv
<1> SUFFICES ASSUME Init PROVE MgmtInv
  OBVIOUS
<1> USE MgmtConstants, CommandFacts, RegistryAssumption
    DEF Init, Mgmt!Init, Mgmt!BusInit
<1>1. Mgmt!GuardMatchesHandler
  BY DEF Mgmt!GuardMatchesHandler, Mgmt!Holding
<1>2. MgmtBus
  BY DEF MgmtBus
<1>3. MgmtSettled
  BY CreateType DEF MgmtSettled, Settled
<1>4. Flushed
  BY DEF Flushed
<1>5. FewUnfounded
  BY DEF FewUnfounded, Alive
<1> QED
  BY <1>1, <1>2, <1>3, <1>4, <1>5 DEF MgmtInv

\* A step that leaves the commands and guards of management alone, but may end a
\* loop.
MgmtUntouched ==
    /\ \A g \in Gateways : net'[g] = net[g] \/ net'[g] = "dead"
    /\ \A g \in Gateways :
          \/ cmd'[g] = cmd[g]
          \/ cmd[g] \notin Mgmt!Commands /\ cmd'[g] \notin Mgmt!Commands
          \/ cmd'[g] = NoCmd /\ net'[g] = "dead"
    /\ \A g \in Gateways :
          lock'[g] = lock[g] \/ (lock[g] \notin Ops /\ lock'[g] \notin Ops)

\* While the loop runs every unfounded answer names the mutex or the command in hand.
LEMMA UnfoundedInHand ==
    ASSUME TypeOK, MgmtInv, NEW o \in Ops, Alive(Info[o].at), Unfounded(o)
    PROVE  o = lock[Info[o].at] \/ o = taken[Info[o].at].by
<1>1. CASE mgmt[o] = "done"
  <2>1. taken[Info[o].at] = Mgmt!GossipCmd(o) \/ taken[Info[o].at] = Mgmt!AddServiceCmd(o)
    BY <1>1 DEF MgmtInv, Flushed, Unfounded, Mgmt!Announced
  <2> QED
    BY <2>1, CommandFacts
<1>2. CASE mgmt[o] # "done"
  BY <1>2 DEF MgmtInv, Unfounded, Mgmt!GuardMatchesHandler, Mgmt!Holding, Mgmt!At
<1> QED
  BY <1>1, <1>2

\* So a death leaves two of them, and no other step makes one at a dead loop.
LEMMA FewStayFew ==
    ASSUME TypeOK, MgmtInv, \A g \in Gateways : net'[g] = net[g] \/ Alive(g),
           \A o \in Ops : ~Alive(Info[o].at)' /\ Unfounded(o)' => Unfounded(o)
    PROVE  FewUnfounded'
<1> SUFFICES ASSUME NEW g \in Gateways, ~Alive(g)'
             PROVE  \E a, b \in Handlers \cup {NoHandler} :
                        \A o \in Ops : Info[o].at = g /\ Unfounded(o)' => o = a \/ o = b
  BY DEF FewUnfounded
<1>1. CASE Alive(g)
  <2>1. \A o \in Ops : Info[o].at = g /\ Unfounded(o)' => o = taken[g].by \/ o = lock[g]
    BY <1>1, UnfoundedInHand
  <2>2. taken[g].by \in Handlers \cup {NoHandler} /\ lock[g] \in Handlers \cup {NoHandler}
    BY CommandFacts, HandlersAssumption DEF TypeOK, NoCmd
  <2> QED
    BY <2>1, <2>2
<1>2. CASE ~Alive(g)
  <2>1. PICK a \in Handlers \cup {NoHandler}, b \in Handlers \cup {NoHandler} :
            \A o \in Ops : Info[o].at = g /\ Unfounded(o) => o = a \/ o = b
    BY <1>2 DEF MgmtInv, FewUnfounded
  <2> QED
    BY <2>1
<1> QED
  BY <1>1, <1>2

\* It keeps the invariant.
LEMMA MgmtFrame ==
    ASSUME TypeOK, TypeOK', MgmtInv, UNCHANGED registryVars, MgmtUntouched
    PROVE  MgmtInv'
<1> USE MgmtConstants, CommandFacts
    DEF TypeOK, MgmtInv, MgmtUntouched, registryVars, Alive, Mgmt!Alive, Settled
<1>0. \A o \in Ops : lock'[Info[o].at] = o <=> lock[Info[o].at] = o
  OBVIOUS
<1>1. Mgmt!GuardMatchesHandler'
  BY <1>0 DEF Mgmt!GuardMatchesHandler, Mgmt!At
<1>2. MgmtBus'
  BY DEF MgmtBus
<1>3. MgmtSettled'
  BY DEF MgmtSettled
<1>4. ASSUME NEW o \in Ops, Alive(Info[o].at)'
      PROVE  /\ Alive(Info[o].at)
             /\ cmd[Info[o].at] \in Mgmt!Commands => cmd'[Info[o].at] = cmd[Info[o].at]
  BY <1>4
<1>5. Flushed'
  BY <1>4 DEF Flushed
<1>6. FewUnfounded'
  <2>1. \A o \in Ops : Unfounded(o)' => Unfounded(o)
    BY DEF Unfounded, Mgmt!Announced
  <2>2. \A g \in Gateways : net'[g] = net[g] \/ Alive(g)
    OBVIOUS
  <2> QED
    BY <2>1, <2>2, FewStayFew
<1> QED
  BY <1>1, <1>2, <1>3, <1>5, <1>6

\* The management API does not disturb forwarding.
LEMMA MgmtKeepsFwd == TypeOK /\ TypeOK' /\ FwdInv /\ MgmtInv /\ MgmtNext => FwdInv'
<1> SUFFICES ASSUME TypeOK, TypeOK', FwdInv, MgmtInv, MgmtNext PROVE FwdInv'
  OBVIOUS
<1>0. UNCHANGED httpVars
  BY DEF MgmtNext
<1> USE MgmtConstants, CommandFacts, CommandKinds DEF Alive, Mgmt!Alive, Mgmt!SlotFree, TypeOK
<1>1. ASSUME NEW o \in Ops,
             Mgmt!Read(o) \/ Mgmt!Remove(o) \/ Mgmt!RemoveNothing(o) \/ Mgmt!Store(o)
             \/ Mgmt!LockPanics(o)
      PROVE  FwdUntouched
  <2>1. UNCHANGED <<net, cmd, lock>>
    BY <1>1
    DEF Mgmt!Read, Mgmt!Remove, Mgmt!RemoveNothing, Mgmt!Store, Mgmt!LockPanics,
        Mgmt!busVars
  <2> QED
    BY <2>1, NoHandlerAssumption, HandlersAssumption DEF FwdUntouched
<1>2. ASSUME NEW o \in Ops, Mgmt!AcquireLock(o)
      PROVE  FwdUntouched
  <2>1. /\ UNCHANGED <<net, cmd>> /\ lock[Info[o].at] = NoHandler
        /\ lock' = [lock EXCEPT ![Info[o].at] = o]
    BY <1>2 DEF Mgmt!AcquireLock, Mgmt!Acquire
  <2> QED
    BY <2>1, NoHandlerAssumption, HandlersAssumption DEF FwdUntouched
<1>3. ASSUME NEW o \in Ops, Mgmt!HandlerPanics(o) \/ Mgmt!Respond(o)
      PROVE  FwdUntouched
  <2>1. /\ UNCHANGED <<net, cmd>> /\ lock[Info[o].at] = o
        /\ lock' = [lock EXCEPT ![Info[o].at] = NoHandler]
    BY <1>3
    DEF Mgmt!HandlerPanics, Mgmt!Respond, Mgmt!PanicWithGuard, Mgmt!Release, MgmtInv,
        Mgmt!GuardMatchesHandler, Mgmt!Holding
  <2> QED
    BY <2>1, NoHandlerAssumption, HandlersAssumption DEF FwdUntouched
<1>4. ASSUME NEW o \in Ops, Mgmt!PushGossip(o) \/ Mgmt!PushListing(o)
      PROVE  FwdUntouched
  <2>1. /\ UNCHANGED <<net, lock>> /\ cmd[Info[o].at] = NoCmd /\ Alive(Info[o].at)
        /\ cmd' = [cmd EXCEPT ![Info[o].at] = Mgmt!GossipCmd(o)]
           \/ cmd' = [cmd EXCEPT ![Info[o].at] = Mgmt!AddServiceCmd(o)]
    BY <1>4 DEF Mgmt!PushGossip, Mgmt!PushListing, Mgmt!Push
  <2> QED
    BY <2>1, NoHandlerAssumption, HandlersAssumption DEF FwdUntouched
<1>5. ASSUME NEW g \in Gateways, Mgmt!ReceiveCommand(g)
      PROVE  FwdUntouched
  <2>1. /\ UNCHANGED <<net, lock>> /\ cmd[g] \in Mgmt!Commands
        /\ cmd' = [cmd EXCEPT ![g] = NoCmd]
    BY <1>5 DEF Mgmt!ReceiveCommand, Mgmt!Pop
  <2> QED
    BY <2>1, NoHandlerAssumption, HandlersAssumption DEF FwdUntouched
<1>6. ASSUME \/ \E g \in Gateways :
                   Mgmt!PublishGossip(g) \/ Mgmt!ListService(g) \/ Mgmt!Apply(g)
             \/ \E m \in gossip : Mgmt!LookUp(m)
      PROVE  FwdUntouched
  BY <1>6
  DEF Mgmt!PublishGossip, Mgmt!ListService, Mgmt!Apply, Mgmt!LookUp, Mgmt!busVars,
      FwdUntouched
<1> QED
  BY <1>0, <1>1, <1>2, <1>3, <1>4, <1>5, <1>6, FwdFrame DEF MgmtNext

\* Forwarding leaves the management API's state alone, except by ending a loop.
LEMMA FwdLeavesMgmt ==
    ASSUME TypeOK, TypeOK', FwdInv, FwdNext
    PROVE  MgmtUntouched
<1> USE FwdConstants, CommandFacts, CommandKinds DEF Alive, Http!Alive, Http!SlotFree, TypeOK
<1>1. ASSUME NEW r \in Requests,
             \/ Http!Refuse(r) \/ Http!Accept(r) \/ Http!LockPanics(r)
             \/ Http!FlushUsage(r) \/ Http!ServeHttp(r) \/ Http!Deliver(r)
      PROVE  MgmtUntouched
  <2>1. UNCHANGED <<net, cmd, lock>>
    BY <1>1
    DEF Http!Refuse, Http!Accept, Http!LockPanics, Http!FlushUsage, Http!ServeHttp,
        Http!Deliver, Http!busVars
  <2> QED
    BY <2>1, NoHandlerAssumption, HandlersAssumption DEF MgmtUntouched
<1>2. ASSUME NEW r \in Requests, Http!AcquireLock(r)
      PROVE  MgmtUntouched
  <2>1. /\ UNCHANGED <<net, cmd>> /\ lock[Home[r]] = NoHandler
        /\ lock' = [lock EXCEPT ![Home[r]] = r]
    BY <1>2 DEF Http!AcquireLock, Http!Acquire
  <2> QED
    BY <2>1, NoHandlerAssumption, HandlersAssumption DEF MgmtUntouched
<1>3. ASSUME NEW r \in Requests,
             Http!Disconnect(r) \/ Http!PushPanics(r) \/ Http!ReceiveResponse(r)
      PROVE  MgmtUntouched
  <2>1. /\ UNCHANGED <<net, cmd>> /\ lock[Home[r]] = r
        /\ lock' = [lock EXCEPT ![Home[r]] = NoHandler]
    BY <1>3
    DEF Http!Disconnect, Http!PushPanics, Http!ReceiveResponse, Http!PanicWithGuard,
        Http!Release, FwdInv, Http!GuardMatchesHandler, Http!Holding
  <2> QED
    BY <2>1, NoHandlerAssumption, HandlersAssumption DEF MgmtUntouched
<1>4. ASSUME NEW r \in Requests, Http!PushRequest(r) \/ Http!PushUsage(r)
      PROVE  MgmtUntouched
  <2>1. /\ UNCHANGED <<net, lock>> /\ cmd[Home[r]] = NoCmd
        /\ cmd' = [cmd EXCEPT ![Home[r]] = Http!SendRequestCmd(r)]
           \/ cmd' = [cmd EXCEPT ![Home[r]] = Http!SubmitUsageCmd(r)]
    BY <1>4 DEF Http!PushRequest, Http!PushUsage, Http!Push
  <2> QED
    BY <2>1, NoHandlerAssumption, HandlersAssumption DEF MgmtUntouched
<1>5. ASSUME NEW g \in Gateways, Http!TakeSendRequest(g) \/ Http!TakeSubmitUsage(g)
      PROVE  MgmtUntouched
  <2>1. /\ UNCHANGED <<net, lock>> /\ cmd[g] \in Http!Commands
        /\ cmd' = [cmd EXCEPT ![g] = NoCmd]
    BY <1>5 DEF Http!TakeSendRequest, Http!TakeSubmitUsage, Http!Pop
  <2> QED
    BY <2>1, NoHandlerAssumption, HandlersAssumption DEF MgmtUntouched
<1>6. ASSUME NEW r \in Requests,
             \/ Http!LookupPanics(r) \/ Http!ServePanics(r) \/ NoProviderPanics(r)
             \/ Http!DeliverPanics(r)
      PROVE  MgmtUntouched
  <2>1. PICK g \in Gateways : Http!LoopDies(g)
    BY <1>6, PlacementAssumption
    DEF Http!LookupPanics, Http!ServePanics, NoProviderPanics, Http!DeliverPanics
  <2>2. /\ UNCHANGED lock /\ net' = [net EXCEPT ![g] = "dead"]
        /\ cmd' = [cmd EXCEPT ![g] = NoCmd]
    BY <2>1 DEF Http!LoopDies, Http!LoopPanics
  <2> QED
    BY <2>2 DEF MgmtUntouched
<1> QED
  BY <1>1, <1>2, <1>3, <1>4, <1>5, <1>6 DEF FwdNext

\* So it keeps what holds of it.
LEMMA FwdKeepsMgmt == TypeOK /\ TypeOK' /\ FwdInv /\ MgmtInv /\ FwdNext => MgmtInv'
BY FwdLeavesMgmt, MgmtFrame DEF FwdNext

\* The management API keeps its invariant: one step per action.
LEMMA MgmtInductive == TypeOK /\ TypeOK' /\ MgmtInv /\ MgmtNext => MgmtInv'
<1> SUFFICES ASSUME TypeOK, TypeOK', MgmtInv, MgmtNext PROVE MgmtInv'
  OBVIOUS
<1> USE MgmtConstants, CommandFacts, CommandKinds
    DEF TypeOK, MgmtInv, Mgmt!PcStates, Mgmt!Holding, Mgmt!Done, Mgmt!Goto, Mgmt!At,
        Mgmt!Key, Mgmt!loopVars, Mgmt!busVars, Alive, Mgmt!Alive, Mgmt!SlotFree,
        Settled, Mgmt!Arriving, Mgmt!Acquire, Mgmt!AcquireFails, Mgmt!Release,
        Mgmt!PanicWithGuard, Mgmt!Push, Mgmt!Pop, Mgmt!LoopIdle, Mgmt!Executing
<1>1. ASSUME NEW o \in Ops, Mgmt!Read(o) PROVE MgmtInv'
  <2>1. Mgmt!GuardMatchesHandler'
    BY <1>1 DEF Mgmt!Read, Mgmt!GuardMatchesHandler
  <2>2. MgmtBus'
    BY <1>1 DEF Mgmt!Read, MgmtBus
  <2>3. MgmtSettled'
    BY <1>1 DEF Mgmt!Read, MgmtSettled
  <2>4. Flushed'
    BY <1>1 DEF Mgmt!Read, Flushed
  <2>5. FewUnfounded'
    BY <1>1, FewStayFew DEF Mgmt!Read, Unfounded, Mgmt!Announced
  <2> QED
    BY <2>1, <2>2, <2>3, <2>4, <2>5
<1>2. ASSUME NEW o \in Ops, Mgmt!Store(o) PROVE MgmtInv'
  <2>1. Mgmt!Put(local[o], o) \in Mgmt!ServiceRecords
    BY PutType
  <2>2. MgmtSettled'
    BY <1>2, <2>1, RegistryAssumption DEF Mgmt!Store, MgmtSettled
  <2>3. Mgmt!GuardMatchesHandler'
    BY <1>2 DEF Mgmt!Store, Mgmt!GuardMatchesHandler
  <2>4. MgmtBus'
    BY <1>2 DEF Mgmt!Store, MgmtBus
  <2>5. Flushed'
    BY <1>2 DEF Mgmt!Store, Flushed
  <2>6. FewUnfounded'
    BY <1>2, FewStayFew DEF Mgmt!Store, Unfounded, Mgmt!Announced
  <2> QED
    BY <2>3, <2>4, <2>2, <2>5, <2>6
<1>3. ASSUME NEW o \in Ops, Mgmt!Remove(o) PROVE MgmtInv'
  <2> DEFINE gone == [registry[Info[o].at][Info[o].key] EXCEPT !.deleted = "true"]
  <2>1. gone \in Mgmt!ServiceRecords
    <3>1. registry[Info[o].at][Info[o].key] \in Mgmt!ServiceRecords
      BY ONLY TypeOK, <1>3, MgmtConstants DEF TypeOK, Mgmt!Remove, Mgmt!At, Mgmt!Key
    <3> QED
      BY <3>1 DEF Mgmt!ServiceRecords, Mgmt!Flags
  <2>2. local' = [local EXCEPT ![o] = gone]
    BY <1>3 DEF Mgmt!Remove
  <2> HIDE DEF gone
  <2>3. /\ mgmt[o] = "idle" /\ mgmt' = [mgmt EXCEPT ![o] = "locking"]
        /\ UNCHANGED <<lock, cmd, net, gossip, published, taken, applying, listed>>
    BY <1>3 DEF Mgmt!Remove
  <2>4. MgmtSettled'
    BY <2>1, <2>2, <2>3, RegistryAssumption DEF MgmtSettled
  <2>5. Mgmt!GuardMatchesHandler'
    BY <2>3 DEF Mgmt!GuardMatchesHandler
  <2>6. MgmtBus'
    BY <2>3 DEF MgmtBus
  <2>7. Flushed'
    BY <2>3 DEF Flushed
  <2>8. FewUnfounded'
    BY <2>3, FewStayFew DEF Unfounded, Mgmt!Announced
  <2> QED
    BY <2>5, <2>6, <2>4, <2>7, <2>8
<1>4. ASSUME NEW o \in Ops, Mgmt!RemoveNothing(o) PROVE MgmtInv'
  <2>1. Mgmt!GuardMatchesHandler'
    BY <1>4 DEF Mgmt!RemoveNothing, Mgmt!GuardMatchesHandler
  <2>2. MgmtBus'
    BY <1>4 DEF Mgmt!RemoveNothing, MgmtBus
  <2>3. MgmtSettled'
    BY <1>4 DEF Mgmt!RemoveNothing, MgmtSettled
  <2>4. Flushed'
    BY <1>4 DEF Mgmt!RemoveNothing, Flushed
  <2>5. FewUnfounded'
    BY <1>4, FewStayFew DEF Mgmt!RemoveNothing, Unfounded, Mgmt!Announced
  <2> QED
    BY <2>1, <2>2, <2>3, <2>4, <2>5
<1>5. ASSUME NEW o \in Ops, Mgmt!AcquireLock(o) PROVE MgmtInv'
  <2>1. Mgmt!GuardMatchesHandler'
    BY <1>5 DEF Mgmt!AcquireLock, Mgmt!GuardMatchesHandler
  <2>2. MgmtBus'
    BY <1>5 DEF Mgmt!AcquireLock, MgmtBus
  <2>3. MgmtSettled'
    BY <1>5 DEF Mgmt!AcquireLock, MgmtSettled
  <2>4. Flushed'
    BY <1>5 DEF Mgmt!AcquireLock, Flushed
  <2>5. FewUnfounded'
    BY <1>5, FewStayFew DEF Mgmt!AcquireLock, Unfounded, Mgmt!Announced
  <2> QED
    BY <2>1, <2>2, <2>3, <2>4, <2>5
<1>6. ASSUME NEW o \in Ops, Mgmt!LockPanics(o) PROVE MgmtInv'
  <2>1. Mgmt!GuardMatchesHandler'
    BY <1>6 DEF Mgmt!LockPanics, Mgmt!GuardMatchesHandler
  <2>2. MgmtBus'
    BY <1>6 DEF Mgmt!LockPanics, MgmtBus
  <2>3. MgmtSettled'
    BY <1>6 DEF Mgmt!LockPanics, MgmtSettled
  <2>4. Flushed'
    BY <1>6 DEF Mgmt!LockPanics, Flushed
  <2>5. FewUnfounded'
    BY <1>6, FewStayFew DEF Mgmt!LockPanics, Unfounded, Mgmt!Announced
  <2> QED
    BY <2>1, <2>2, <2>3, <2>4, <2>5
<1>7. ASSUME NEW o \in Ops, Mgmt!PushGossip(o) PROVE MgmtInv'
  <2>1. /\ mgmt[o] = "publish" /\ mgmt' = [mgmt EXCEPT ![o] = "flushGossip"]
        /\ cmd[Info[o].at] = NoCmd
        /\ cmd' = [cmd EXCEPT ![Info[o].at] = Mgmt!GossipCmd(o)] /\ Alive(Info[o].at)
        /\ UNCHANGED <<lock, net, local, gossip, published, taken, applying, listed>>
    BY <1>7 DEF Mgmt!PushGossip
  <2>2. \A p \in Ops \ {o} :
           Info[p].at = Info[o].at => mgmt[p] \notin {"flushGossip", "flushListing"}
    BY <2>1 DEF Mgmt!GuardMatchesHandler
  <2>3. \A p \in Ops :
           /\ Mgmt!GossipCmd(p) = Mgmt!GossipCmd(o) => p = o
           /\ Mgmt!AddServiceCmd(p) # Mgmt!GossipCmd(o)
    BY DEF Mgmt!GossipCmd, Mgmt!AddServiceCmd
  <2>4. MgmtBus'
    BY ONLY TypeOK, MgmtBus, MgmtConstants, <2>1, <2>3 DEF TypeOK, MgmtBus
  <2>5. Flushed'
    BY <2>1, <2>2 DEF Flushed
  <2>6. Mgmt!GuardMatchesHandler'
    BY <2>1 DEF Mgmt!GuardMatchesHandler
  <2>7. MgmtSettled'
    BY <2>1 DEF MgmtSettled
  <2>8. FewUnfounded'
    BY <2>1, FewStayFew DEF Unfounded, Mgmt!Announced
  <2> QED
    BY <2>6, <2>4, <2>7, <2>5, <2>8
<1>8. ASSUME NEW o \in Ops, Mgmt!PushListing(o) PROVE MgmtInv'
  <2>1. /\ mgmt[o] = "flushGossip" /\ mgmt' = [mgmt EXCEPT ![o] = "flushListing"]
        /\ cmd[Info[o].at] = NoCmd
        /\ cmd' = [cmd EXCEPT ![Info[o].at] = Mgmt!AddServiceCmd(o)] /\ Alive(Info[o].at)
        /\ UNCHANGED <<lock, net, local, gossip, published, taken, applying, listed>>
    BY <1>8 DEF Mgmt!PushListing
  <2>2. \A p \in Ops \ {o} :
           Info[p].at = Info[o].at => mgmt[p] \notin {"flushGossip", "flushListing"}
    BY <2>1 DEF Mgmt!GuardMatchesHandler
  <2>3. \A p \in Ops :
           /\ Mgmt!AddServiceCmd(p) = Mgmt!AddServiceCmd(o) => p = o
           /\ Mgmt!GossipCmd(p) # Mgmt!AddServiceCmd(o)
    BY DEF Mgmt!GossipCmd, Mgmt!AddServiceCmd
  <2>4. MgmtBus'
    BY ONLY TypeOK, MgmtBus, MgmtConstants, <2>1, <2>3 DEF TypeOK, MgmtBus
  <2>5. Flushed'
    BY <2>1, <2>2 DEF Flushed
  <2>6. Mgmt!GuardMatchesHandler'
    BY <2>1 DEF Mgmt!GuardMatchesHandler
  <2>7. MgmtSettled'
    BY <2>1 DEF MgmtSettled
  <2>8. FewUnfounded'
    BY <2>1, FewStayFew DEF Unfounded, Mgmt!Announced
  <2> QED
    BY <2>6, <2>4, <2>7, <2>5, <2>8
<1>9. ASSUME NEW o \in Ops, Mgmt!HandlerPanics(o) PROVE MgmtInv'
  <2>1. Mgmt!GuardMatchesHandler'
    BY <1>9 DEF Mgmt!HandlerPanics, Mgmt!GuardMatchesHandler
  <2>2. MgmtBus'
    BY <1>9 DEF Mgmt!HandlerPanics, MgmtBus
  <2>3. MgmtSettled'
    BY <1>9 DEF Mgmt!HandlerPanics, MgmtSettled
  <2>4. Flushed'
    BY <1>9 DEF Mgmt!HandlerPanics, Flushed
  <2>5. FewUnfounded'
    BY <1>9, FewStayFew DEF Mgmt!HandlerPanics, Unfounded, Mgmt!Announced
  <2> QED
    BY <2>1, <2>2, <2>3, <2>4, <2>5
<1>10. ASSUME NEW o \in Ops, Mgmt!Respond(o) PROVE MgmtInv'
  <2>1. Mgmt!GuardMatchesHandler'
    BY <1>10 DEF Mgmt!Respond, Mgmt!GuardMatchesHandler
  <2>2. MgmtBus'
    BY <1>10 DEF Mgmt!Respond, MgmtBus
  <2>3. MgmtSettled'
    BY <1>10 DEF Mgmt!Respond, MgmtSettled
  <2>4. Flushed'
    BY <1>10 DEF Mgmt!Respond, Flushed
  <2>5. FewUnfounded'
    BY <1>10, FewStayFew DEF Mgmt!Respond, Unfounded, Mgmt!Announced
  <2> QED
    BY <2>1, <2>2, <2>3, <2>4, <2>5
<1>11. ASSUME NEW g \in Gateways, Mgmt!ReceiveCommand(g) PROVE MgmtInv'
  <2>1. Mgmt!GuardMatchesHandler'
    BY <1>11 DEF Mgmt!ReceiveCommand, Mgmt!GuardMatchesHandler
  <2>2. MgmtBus'
    BY <1>11 DEF Mgmt!ReceiveCommand, MgmtBus
  <2>3. MgmtSettled'
    BY <1>11 DEF Mgmt!ReceiveCommand, MgmtSettled
  <2>4. Flushed'
    BY <1>11 DEF Mgmt!ReceiveCommand, Flushed
  <2>5. FewUnfounded'
    BY <1>11, FewStayFew DEF Mgmt!ReceiveCommand, Unfounded, Mgmt!Announced
  <2> QED
    BY <2>1, <2>2, <2>3, <2>4, <2>5
<1>12. ASSUME NEW g \in Gateways, Mgmt!PublishGossip(g) PROVE MgmtInv'
  <2>1. Mgmt!GuardMatchesHandler'
    BY <1>12 DEF Mgmt!PublishGossip, Mgmt!GuardMatchesHandler
  <2>2. MgmtBus'
    BY <1>12 DEF Mgmt!PublishGossip, MgmtBus
  <2>3. MgmtSettled'
    <3>1. PICK o \in Ops : taken[g] = Mgmt!GossipCmd(o) /\ taken[g].by = o
      BY <1>12, CommandKinds DEF Mgmt!PublishGossip
    <3>2. mgmt[o] \in {"flushGossip", "flushListing", "done", "panicked"} /\ Info[o].at = g
      BY ONLY MgmtBus, <3>1 DEF MgmtBus
    <3>3. /\ gossip' = gossip \cup [to : Gateways \ {g}, by : {o}]
          /\ UNCHANGED <<mgmt, local, applying>>
      BY <1>12, <3>1 DEF Mgmt!PublishGossip
    <3> QED
      BY <3>2, <3>3 DEF MgmtSettled
  <2>4. Flushed'
    BY <1>12 DEF Mgmt!PublishGossip, Flushed
  <2>5. FewUnfounded'
    BY <1>12, FewStayFew DEF Mgmt!PublishGossip, Unfounded, Mgmt!Announced
  <2> QED
    BY <2>1, <2>2, <2>3, <2>4, <2>5
<1>13. ASSUME NEW g \in Gateways, Mgmt!ListService(g) PROVE MgmtInv'
  <2>1. Mgmt!GuardMatchesHandler'
    BY <1>13 DEF Mgmt!ListService, Mgmt!GuardMatchesHandler
  <2>2. MgmtBus'
    BY <1>13 DEF Mgmt!ListService, MgmtBus
  <2>3. MgmtSettled'
    BY <1>13 DEF Mgmt!ListService, MgmtSettled
  <2>4. Flushed'
    BY <1>13 DEF Mgmt!ListService, Flushed
  <2>5. FewUnfounded'
    BY <1>13, FewStayFew DEF Mgmt!ListService, Unfounded, Mgmt!Announced
  <2> QED
    BY <2>1, <2>2, <2>3, <2>4, <2>5
<1>14. ASSUME NEW g \in Gateways, Mgmt!Apply(g) PROVE MgmtInv'
  <2>1. Mgmt!GuardMatchesHandler'
    BY <1>14 DEF Mgmt!Apply, Mgmt!GuardMatchesHandler
  <2>2. MgmtBus'
    BY <1>14 DEF Mgmt!Apply, MgmtBus
  <2>3. MgmtSettled'
    BY <1>14 DEF Mgmt!Apply, MgmtSettled
  <2>4. Flushed'
    BY <1>14 DEF Mgmt!Apply, Flushed
  <2>5. FewUnfounded'
    BY <1>14, FewStayFew DEF Mgmt!Apply, Unfounded, Mgmt!Announced
  <2> QED
    BY <2>1, <2>2, <2>3, <2>4, <2>5
<1>15. ASSUME NEW m \in gossip, Mgmt!LookUp(m) PROVE MgmtInv'
  <2>1. Mgmt!GuardMatchesHandler'
    BY <1>15 DEF Mgmt!LookUp, Mgmt!Messages, Mgmt!GuardMatchesHandler
  <2>2. MgmtBus'
    BY <1>15 DEF Mgmt!LookUp, Mgmt!Messages, MgmtBus
  <2>3. MgmtSettled'
    BY <1>15 DEF Mgmt!LookUp, Mgmt!Messages, MgmtSettled
  <2>4. Flushed'
    BY <1>15 DEF Mgmt!LookUp, Mgmt!Messages, Flushed
  <2>5. FewUnfounded'
    BY <1>15, FewStayFew DEF Mgmt!LookUp, Mgmt!Messages, Unfounded, Mgmt!Announced
  <2> QED
    BY <2>1, <2>2, <2>3, <2>4, <2>5
<1> QED
  BY <1>1, <1>2, <1>3, <1>4, <1>5, <1>6, <1>7, <1>8, <1>9, <1>10, <1>11, <1>12,
     <1>13, <1>14, <1>15
  DEF MgmtNext

-----------------------------------------------------------------------------
(* Why loops die and handlers panic. *)

\* A request has been sent into the registry's world: its service was found.
Started(r) == fwd[r] \notin {"idle", "notFound"}

\* Somebody changed service k.
Heard(k) == \E o \in Ops : Info[o].key = k /\ Settled(o)

\* Some call may have kept k, or its providers, from the provider's registry.
Withheld(k) ==
    \E o \in Ops :
        /\ Info[o].key = k /\ mgmt[o] # "idle"
        /\ Info[o].kind = "delete" \/ ~Info[o].providers \/ Info[o].at # Provider

\* A service that anybody knows is at the provider, unless it was withheld.
ProviderKnows ==
    /\ \A k \in Keys :
          Heard(k) /\ ~Withheld(k) =>
              registry[Provider][k] # NoService /\ registry[Provider][k].providers
    /\ \A g \in Gateways, k \in Keys : registry[g][k] # NoService => Heard(k)
    /\ \A r \in Requests : Started(r) => Heard(ServiceOf[r])

\* A POST without providers has ended in a panic at g.
Culprit(g) ==
    \E o \in Ops :
        /\ Info[o].at = g /\ mgmt[o] = "panicked"
        /\ local[o] # NoService /\ ~local[o].providers

\* Where the mutex is poisoned, or a handler panicked, is a dead loop or a culprit.
PanicsKnown ==
    /\ \A g \in Gateways : poisoned[g] => ~Alive(g) \/ Culprit(g)
    /\ \A r \in Requests : fwd[r] = "panicked" => ~Alive(Home[r]) \/ Culprit(Home[r])
    /\ \A o \in Ops : mgmt[o] = "panicked" => ~Alive(Info[o].at) \/ Culprit(Info[o].at)

\* What the steps of forwarding never undo.
LEMMA FwdFacts ==
    ASSUME TypeOK, TypeOK', FwdInv, FwdNext
    PROVE  /\ UNCHANGED registryVars
           /\ \A g \in Gateways : ~Alive(g) => ~Alive(g)'
           /\ \A r \in Requests :
                 /\ fwd[r] = "cancelled" => fwd'[r] = "cancelled"
                 /\ Started(r) => Started(r)'
                 /\ Started(r)' =>
                       Started(r) \/ registry[Home[r]][ServiceOf[r]] # NoService
                 /\ served[r] = 1 => served'[r] = 1
           /\ ~Alive(Provider) => UNCHANGED served
<1> USE FwdConstants
    DEF TypeOK, Started, Alive, Http!Alive, Http!Goto, Http!Holding, Http!Arriving,
        Http!LoopIdle, Http!Arrived
<1>0. UNCHANGED registryVars
  BY DEF FwdNext
<1>1. ASSUME NEW r \in Requests, Http!Accept(r) \/ Http!Refuse(r)
      PROVE  /\ UNCHANGED <<net, served>>
             /\ fwd[r] = "idle"
             /\ \E to \in Http!PcStates : fwd' = [fwd EXCEPT ![r] = to] /\ to # "cancelled"
             /\ registry[Home[r]][ServiceOf[r]] # NoService \/ fwd'[r] = "notFound"
  BY <1>1
  DEF Http!Accept, Http!Refuse, Http!busVars, Http!PcStates, Http!Listening,
      Http!Done
<1>2. ASSUME NEW r \in Requests,
             \/ Http!Disconnect(r) \/ Http!AcquireLock(r) \/ Http!LockPanics(r)
             \/ Http!PushRequest(r) \/ Http!PushUsage(r) \/ Http!PushPanics(r)
             \/ Http!FlushUsage(r) \/ Http!ReceiveResponse(r)
      PROVE  /\ UNCHANGED <<net, served>>
             /\ fwd[r] \notin {"idle", "notFound", "cancelled"}
             /\ \E to \in Http!PcStates \ {"idle", "notFound"} : fwd' = [fwd EXCEPT ![r] = to]
  BY <1>2
  DEF Http!Disconnect, Http!AcquireLock, Http!LockPanics, Http!PushRequest,
      Http!PushUsage, Http!PushPanics, Http!FlushUsage, Http!ReceiveResponse,
      Http!Acquire, Http!Push, Http!PanicWithGuard, Http!Release, Http!busVars,
      Http!PcStates, Http!Listening, Http!Done
<1>3. ASSUME NEW r \in Requests, Http!ServeHttp(r) \/ Http!ServePanics(r)
      PROVE  /\ UNCHANGED fwd /\ Alive(Provider) /\ served[r] = 0
             /\ served' = served \/ served' = [served EXCEPT ![r] = @ + 1]
             /\ net' = net \/ net' = [net EXCEPT ![Provider] = "dead"]
  BY <1>3
  DEF Http!ServeHttp, Http!ServePanics, Http!LoopDies, Http!LoopPanics, Http!busVars,
      FwdInv, Http!OnePlace
<1>4. ASSUME NEW r \in Requests,
             \/ Http!LookupPanics(r) \/ NoProviderPanics(r)
             \/ Http!Deliver(r) \/ Http!DeliverPanics(r)
      PROVE  /\ UNCHANGED <<fwd, served>>
             /\ net' = net \/ \E g \in Gateways : net' = [net EXCEPT ![g] = "dead"]
  BY <1>4, PlacementAssumption
  DEF Http!LookupPanics, NoProviderPanics, Http!Deliver, Http!DeliverPanics,
      Http!LoopDies, Http!LoopPanics, Http!busVars
<1>5. ASSUME NEW g \in Gateways, Http!TakeSendRequest(g) \/ Http!TakeSubmitUsage(g)
      PROVE  UNCHANGED <<net, fwd, served>>
  BY <1>5 DEF Http!TakeSendRequest, Http!TakeSubmitUsage
<1>6. \A g \in Gateways : ~Alive(g) => ~Alive(g)'
  BY <1>1, <1>2, <1>3, <1>4, <1>5, PlacementAssumption DEF FwdNext
<1>7. ASSUME NEW r \in Requests
      PROVE  /\ fwd[r] = "cancelled" => fwd'[r] = "cancelled"
             /\ Started(r) => Started(r)'
             /\ Started(r)' => Started(r) \/ registry[Home[r]][ServiceOf[r]] # NoService
  BY <1>1, <1>2, <1>3, <1>4, <1>5 DEF FwdNext
<1>8. ASSUME NEW r \in Requests
      PROVE  served[r] = 1 => served'[r] = 1
  BY <1>1, <1>2, <1>3, <1>4, <1>5 DEF FwdNext
<1>9. ~Alive(Provider) => UNCHANGED served
  BY <1>1, <1>2, <1>3, <1>4, <1>5 DEF FwdNext
<1> QED
  BY <1>0, <1>6, <1>7, <1>8, <1>9

\* What the steps of management never undo.
LEMMA MgmtFacts ==
    ASSUME TypeOK, TypeOK', MgmtInv, MgmtNext
    PROVE  /\ UNCHANGED <<httpVars, net>>
           /\ \A o \in Ops :
                 /\ mgmt[o] # "idle" => mgmt'[o] # "idle"
                 /\ Settled(o) => Settled(o)'
                 /\ mgmt[o] = "panicked" => mgmt'[o] = "panicked" /\ local'[o] = local[o]
<1> USE DEF TypeOK, Settled, Mgmt!Goto, Mgmt!PcStates, Mgmt!Holding, Mgmt!Done,
            Mgmt!Arriving, Mgmt!busVars
<1>0. UNCHANGED httpVars
  BY DEF MgmtNext
<1>1. ASSUME NEW o \in Ops,
             \/ Mgmt!Read(o) \/ Mgmt!Remove(o) \/ Mgmt!RemoveNothing(o) \/ Mgmt!Store(o)
      PROVE  /\ net' = net
             /\ mgmt[o] \in {"idle", "read"}
             /\ \E to \in Mgmt!PcStates \ {"idle"} : mgmt' = [mgmt EXCEPT ![o] = to]
             /\ \A p \in Ops \ {o} : local'[p] = local[p]
  BY <1>1 DEF Mgmt!Read, Mgmt!Remove, Mgmt!RemoveNothing, Mgmt!Store
<1>2. ASSUME NEW o \in Ops,
             \/ Mgmt!AcquireLock(o) \/ Mgmt!LockPanics(o) \/ Mgmt!PushGossip(o)
             \/ Mgmt!PushListing(o) \/ Mgmt!HandlerPanics(o) \/ Mgmt!Respond(o)
      PROVE  /\ UNCHANGED <<net, local>>
             /\ mgmt[o] \notin {"idle", "read", "notFound", "panicked"}
             /\ \E to \in Mgmt!PcStates \ {"idle", "read", "notFound"} :
                   mgmt' = [mgmt EXCEPT ![o] = to]
  BY <1>2
  DEF Mgmt!AcquireLock, Mgmt!LockPanics, Mgmt!PushGossip, Mgmt!PushListing,
      Mgmt!HandlerPanics, Mgmt!Respond
<1>3. ASSUME \/ \E g \in Gateways :
                   \/ Mgmt!ReceiveCommand(g) \/ Mgmt!PublishGossip(g)
                   \/ Mgmt!ListService(g) \/ Mgmt!Apply(g)
             \/ \E m \in gossip : Mgmt!LookUp(m)
      PROVE  UNCHANGED <<net, local, mgmt>>
  BY <1>3 DEF Mgmt!ReceiveCommand, Mgmt!PublishGossip, Mgmt!ListService, Mgmt!Apply, Mgmt!LookUp
<1>4. net' = net
  BY <1>1, <1>2, <1>3 DEF MgmtNext
<1>5. ASSUME NEW o \in Ops
      PROVE  /\ mgmt[o] # "idle" => mgmt'[o] # "idle"
             /\ Settled(o) => Settled(o)'
             /\ mgmt[o] = "panicked" => mgmt'[o] = "panicked" /\ local'[o] = local[o]
  BY <1>1, <1>2, <1>3 DEF MgmtNext
<1> QED
  BY <1>0, <1>4, <1>5

\* At the start only what is preloaded has been heard of, and all is well.
LEMMA InitKnown == Init => ProviderKnows /\ PanicsKnown /\ LoopDeathExplained
<1> SUFFICES ASSUME Init PROVE ProviderKnows /\ PanicsKnown /\ LoopDeathExplained
  OBVIOUS
<1> USE FwdConstants, MgmtConstants, PlacementAssumption, RegistryAssumption
<1>1. /\ registry = [g \in Gateways |-> [k \in Keys |-> Mgmt!Preload(k)]]
      /\ mgmt = [o \in Ops |-> IF o \in Preloaded THEN "done" ELSE "idle"]
      /\ fwd = [r \in Requests |-> "idle"]
      /\ poisoned = [g \in Gateways |-> FALSE]
      /\ net = [g \in Gateways |-> "running"]
  BY DEF Init, Mgmt!Init, Http!Init, Mgmt!BusInit
<1>2. ASSUME NEW k \in Keys
      PROVE  /\ Mgmt!Preload(k) # NoService => Heard(k)
             /\ Heard(k) /\ ~Withheld(k) =>
                   Mgmt!Preload(k) # NoService /\ Mgmt!Preload(k).providers
  <2>1. CASE Mgmt!Preload(k) = NoService /\ ~ \E o \in Preloaded : Info[o].key = k
    BY <1>1, <2>1 DEF Heard, Settled
  <2>2. ASSUME NEW o \in Preloaded, o \in Ops, Info[o].key = k,
               Mgmt!Preload(k) = Mgmt!Create(o)
        PROVE  /\ Heard(k) /\ Mgmt!Preload(k) # NoService
               /\ ~Withheld(k) => Mgmt!Preload(k).providers
    BY <1>1, <2>2, CreateType DEF Heard, Settled, Withheld
  <2> QED
    BY <2>1, <2>2, PreloadFacts
<1>3. ProviderKnows
  BY <1>1, <1>2 DEF ProviderKnows, Started
<1>4. PanicsKnown
  BY <1>1 DEF PanicsKnown
<1>5. LoopDeathExplained
  BY <1>1 DEF LoopDeathExplained, Alive
<1> QED
  BY <1>3, <1>4, <1>5

\* What is heard of, and what is withheld, stays so.
LEMMA HeardStays ==
    ASSUME TypeOK, TypeOK', MgmtInv, MgmtNext, NEW k \in Keys
    PROVE  (Heard(k) => Heard(k)') /\ (Withheld(k) => Withheld(k)')
BY MgmtFacts DEF Heard, Withheld

\* Neither server makes the provider forget a service: a service in any registry
\* was put there by a call, and calls that did not pass the provider withhold it.
LEMMA ProviderKnowsKept ==
    TypeOK /\ TypeOK' /\ FwdInv /\ MgmtInv /\ ProviderKnows /\ Next => ProviderKnows'
<1> SUFFICES ASSUME TypeOK, TypeOK', FwdInv, MgmtInv, ProviderKnows, Next
             PROVE  ProviderKnows'
  OBVIOUS
<1> USE FwdConstants, MgmtConstants, PlacementAssumption, RegistryAssumption
<1>1. CASE FwdNext
  <2>1. \A k \in Keys : (Heard(k)' <=> Heard(k)) /\ (Withheld(k)' <=> Withheld(k))
    BY <1>1, FwdFacts DEF registryVars, Heard, Withheld, Settled
  <2>2. ASSUME NEW r \in Requests, Started(r)' PROVE Heard(ServiceOf[r])
    BY <1>1, <2>2, FwdFacts DEF ProviderKnows
  <2> QED
    BY <1>1, <2>1, <2>2, FwdFacts DEF ProviderKnows, registryVars
<1>2. CASE MgmtNext
  <2>1. \A k \in Keys : (Heard(k) => Heard(k)') /\ (Withheld(k) => Withheld(k)')
    BY <1>2, HeardStays
  <2>2. \A r \in Requests : Started(r)' => Heard(ServiceOf[r])'
    BY <1>2, <2>1, MgmtFacts DEF httpVars, Started, ProviderKnows
  <2> DEFINE Kept ==
        /\ \A k \in Keys :
              Heard(k)' /\ ~Withheld(k)' =>
                  registry'[Provider][k] # NoService /\ registry'[Provider][k].providers
        /\ \A g \in Gateways, k \in Keys : registry'[g][k] # NoService => Heard(k)'
  <2>3. ASSUME UNCHANGED registry, \A k \in Keys : Heard(k)' => Heard(k) PROVE Kept
    BY <2>1, <2>3 DEF ProviderKnows
  \* A step of one call that changes the entry of its service at one gateway.
  <2>4. ASSUME NEW o \in Ops, NEW g \in Gateways, NEW entry,
               registry' = [registry EXCEPT ![g][Info[o].key] = entry],
               Settled(o)',
               \A p \in Ops \ {o} : mgmt'[p] = mgmt[p],
               ~Withheld(Info[o].key)' /\ g = Provider =>
                   entry # NoService /\ entry.providers,
               ~Withheld(Info[o].key)' => g = Provider \/ Settled(o)
        PROVE  Kept
    <3>1. \A k \in Keys \ {Info[o].key} : Heard(k)' => Heard(k)
      BY <2>4 DEF Heard, Settled
    <3>2. \A h \in Gateways, k \in Keys :
             registry'[h][k] = IF h = g /\ k = Info[o].key THEN entry ELSE registry[h][k]
      BY <2>4 DEF TypeOK
    <3>3. Heard(Info[o].key)' /\ (Settled(o) => Heard(Info[o].key))
      BY <2>4 DEF Heard
    <3> QED
      BY <2>1, <2>4, <3>1, <3>2, <3>3 DEF ProviderKnows
  <2>5. ASSUME NEW o \in Ops, Mgmt!Read(o) \/ Mgmt!RemoveNothing(o) PROVE Kept
    <3>1. UNCHANGED registry /\ ~Settled(o)' /\ \A p \in Ops \ {o} : mgmt'[p] = mgmt[p]
      BY <2>5 DEF Mgmt!Read, Mgmt!RemoveNothing, Mgmt!Goto, Settled, TypeOK
    <3>2. \A k \in Keys : Heard(k)' => Heard(k)
      BY <3>1 DEF Heard, Settled
    <3> QED
      BY <2>3, <3>1, <3>2
  <2>6. ASSUME NEW o \in Ops, Mgmt!Store(o) PROVE Kept
    <3> DEFINE entry == Mgmt!Put(local[o], o)
    <3>1. /\ registry' = [registry EXCEPT ![Info[o].at][Info[o].key] = entry]
          /\ Settled(o)' /\ mgmt'[o] # "idle" /\ \A p \in Ops \ {o} : mgmt'[p] = mgmt[p]
      BY <2>6 DEF Mgmt!Store, Mgmt!Goto, Mgmt!At, Mgmt!Key, Settled, TypeOK
    <3>2. ~Withheld(Info[o].key)' => Info[o].at = Provider /\ Info[o].providers
      BY <3>1 DEF Withheld
    <3>3. entry # NoService /\ (Info[o].providers => entry.providers)
      BY PutType DEF TypeOK
    <3> HIDE DEF entry
    <3> QED
      BY <2>4, <3>1, <3>2, <3>3
  <2>7. ASSUME NEW o \in Ops, Mgmt!Remove(o) PROVE Kept
    <3>1. /\ registry' = [registry EXCEPT ![Info[o].at][Info[o].key] = NoService]
          /\ Info[o].kind = "delete" /\ mgmt' = [mgmt EXCEPT ![o] = "locking"]
      BY <2>7 DEF Mgmt!Remove, Mgmt!Arriving, Mgmt!Goto, Mgmt!At, Mgmt!Key
    <3>2. Settled(o)' /\ mgmt'[o] # "idle" /\ \A p \in Ops \ {o} : mgmt'[p] = mgmt[p]
      BY <3>1 DEF Settled, TypeOK
    <3>3. Withheld(Info[o].key)'
      BY <3>1, <3>2 DEF Withheld
    <3> QED
      BY <2>4, <3>1, <3>2, <3>3
  <2>8. ASSUME NEW o \in Ops,
               \/ Mgmt!AcquireLock(o) \/ Mgmt!LockPanics(o) \/ Mgmt!PushGossip(o)
               \/ Mgmt!PushListing(o) \/ Mgmt!HandlerPanics(o) \/ Mgmt!Respond(o)
        PROVE  Kept
    <3>1. UNCHANGED registry /\ Settled(o) /\ \A p \in Ops \ {o} : mgmt'[p] = mgmt[p]
      BY <2>8
      DEF Mgmt!AcquireLock, Mgmt!LockPanics, Mgmt!PushGossip, Mgmt!PushListing,
          Mgmt!HandlerPanics, Mgmt!Respond, Mgmt!Goto, Settled, TypeOK
    <3>2. \A k \in Keys : Heard(k)' => Heard(k)
      BY <3>1 DEF Heard, Settled
    <3> QED
      BY <2>3, <3>1, <3>2
  <2>9. ASSUME \/ \E g \in Gateways :
                     Mgmt!ReceiveCommand(g) \/ Mgmt!PublishGossip(g) \/ Mgmt!ListService(g)
               \/ \E m \in gossip : Mgmt!LookUp(m)
        PROVE  Kept
    <3>1. UNCHANGED <<registry, mgmt>>
      BY <2>9
      DEF Mgmt!ReceiveCommand, Mgmt!PublishGossip, Mgmt!ListService, Mgmt!LookUp,
          Mgmt!busVars
    <3> QED
      BY <2>3, <3>1 DEF Heard, Settled
  \* A change that arrives at the provider was made elsewhere.
  <2>10. ASSUME NEW g \in Gateways, Mgmt!Apply(g) PROVE Kept
    <3>1. PICK o \in Ops : o = applying[g]
      BY <2>10 DEF Mgmt!Apply, TypeOK
    <3> DEFINE entry == IF known[g] /\ local[o].deleted = "true" THEN NoService ELSE local[o]
    <3>2. registry' = [registry EXCEPT ![g][Info[o].key] = entry] /\ UNCHANGED mgmt
      BY <2>10, <3>1 DEF Mgmt!Apply, Mgmt!Key
    <3>3. Settled(o) /\ Info[o].at # g
      BY <3>1, NoHandlerAssumption, HandlersAssumption DEF MgmtInv, MgmtSettled
    <3> HIDE DEF entry
    <3>4. Settled(o)' /\ mgmt'[o] # "idle"
      BY <3>2, <3>3 DEF Settled
    <3>5. g = Provider => Withheld(Info[o].key)'
      BY <3>3, <3>4 DEF Withheld
    <3> QED
      BY <2>4, <3>2, <3>3, <3>4, <3>5
  <2> QED
    BY <1>2, <2>2, <2>5, <2>6, <2>7, <2>8, <2>9, <2>10 DEF MgmtNext, ProviderKnows
<1> QED
  BY <1>1, <1>2, Steps

\* A panic needs a dead loop, a poisoned mutex or a POST without providers.
LEMMA PanicsKnownKept ==
    TypeOK /\ TypeOK' /\ FwdInv /\ MgmtInv /\ PanicsKnown /\ Next => PanicsKnown'
<1> SUFFICES ASSUME TypeOK, TypeOK', FwdInv, MgmtInv, PanicsKnown, Next
             PROVE  PanicsKnown'
  OBVIOUS
<1> USE FwdConstants, MgmtConstants
<1> DEFINE Bad(g) == ~Alive(g) \/ Culprit(g)
<1>1. CASE FwdNext
  <2>1. \A g \in Gateways : Bad(g) => Bad(g)'
    BY <1>1, FwdFacts DEF Culprit, registryVars
  <2>2. ASSUME NEW r \in Requests,
               \/ Http!Refuse(r) \/ Http!Accept(r) \/ Http!Disconnect(r)
               \/ Http!AcquireLock(r) \/ Http!PushRequest(r) \/ Http!PushUsage(r)
               \/ Http!FlushUsage(r) \/ Http!ReceiveResponse(r)
        PROVE  /\ UNCHANGED poisoned
               /\ \A q \in Requests : fwd'[q] = "panicked" => fwd[q] = "panicked"
    BY <2>2
    DEF Http!Refuse, Http!Accept, Http!Disconnect, Http!AcquireLock, Http!PushRequest,
        Http!PushUsage, Http!FlushUsage, Http!ReceiveResponse, Http!Goto, Http!busVars,
        TypeOK
  <2>3. ASSUME NEW r \in Requests, Http!LockPanics(r) \/ Http!PushPanics(r)
        PROVE  /\ poisoned[Home[r]] \/ ~Alive(Home[r])
               /\ \/ UNCHANGED poisoned
                  \/ ~Alive(Home[r]) /\ poisoned' = [poisoned EXCEPT ![Home[r]] = TRUE]
               /\ fwd' = [fwd EXCEPT ![r] = "panicked"]
    <3>1. CASE Http!LockPanics(r)
      BY <3>1 DEF Http!LockPanics, Http!AcquireFails, Http!Goto, Http!busVars
    <3>2. CASE Http!PushPanics(r)
      BY <3>2 DEF Http!PushPanics, Http!PanicWithGuard, Http!Goto, Http!Alive, Alive
    <3> QED
      BY <2>3, <3>1, <3>2
  <2>4. ASSUME \/ \E r \in Requests :
                     \/ Http!ServeHttp(r) \/ Http!ServePanics(r) \/ Http!LookupPanics(r)
                     \/ NoProviderPanics(r) \/ Http!Deliver(r) \/ Http!DeliverPanics(r)
               \/ \E g \in Gateways : Http!TakeSendRequest(g) \/ Http!TakeSubmitUsage(g)
        PROVE  UNCHANGED <<poisoned, fwd>>
    BY <2>4
    DEF Http!ServeHttp, Http!ServePanics, Http!LookupPanics, NoProviderPanics,
        Http!Deliver, Http!DeliverPanics, Http!TakeSendRequest, Http!TakeSubmitUsage,
        Http!LoopDies, Http!busVars
  <2>5. ASSUME NEW g \in Gateways, poisoned'[g] PROVE Bad(g)'
    <3>1. poisoned[g] \/ ~Alive(g)
      <4>1. CASE UNCHANGED poisoned
        BY <2>5, <4>1
      <4>2. ASSUME NEW h \in Gateways, ~Alive(h), poisoned' = [poisoned EXCEPT ![h] = TRUE]
            PROVE  poisoned[g] \/ ~Alive(g)
        BY <2>5, <4>2 DEF TypeOK
      <4> QED
        BY <1>1, <2>2, <2>3, <2>4, <4>1, <4>2 DEF FwdNext
    <3> QED
      BY <2>1, <3>1 DEF PanicsKnown
  <2>6. ASSUME NEW r \in Requests, fwd'[r] = "panicked" PROVE Bad(Home[r])'
    <3>1. fwd[r] = "panicked" \/ Bad(Home[r])
      BY <1>1, <2>2, <2>3, <2>4, <2>6 DEF FwdNext, PanicsKnown, TypeOK
    <3> QED
      BY <2>1, <3>1 DEF PanicsKnown
  <2>7. ASSUME NEW o \in Ops, mgmt'[o] = "panicked" PROVE Bad(Info[o].at)'
    BY <1>1, <2>1, <2>7, FwdFacts DEF PanicsKnown, registryVars
  <2> QED
    BY <2>5, <2>6, <2>7 DEF PanicsKnown
<1>2. CASE MgmtNext
  <2>1. \A g \in Gateways : Bad(g) => Bad(g)'
    BY <1>2, MgmtFacts DEF Culprit, Alive
  <2>2. ASSUME NEW o \in Ops,
               \/ Mgmt!Read(o) \/ Mgmt!Remove(o) \/ Mgmt!RemoveNothing(o)
               \/ Mgmt!Store(o) \/ Mgmt!AcquireLock(o) \/ Mgmt!PushGossip(o)
               \/ Mgmt!PushListing(o) \/ Mgmt!Respond(o)
        PROVE  /\ UNCHANGED poisoned
               /\ \A p \in Ops : mgmt'[p] = "panicked" => mgmt[p] = "panicked"
    BY <2>2
    DEF Mgmt!Read, Mgmt!Remove, Mgmt!RemoveNothing, Mgmt!Store, Mgmt!AcquireLock,
        Mgmt!PushGossip, Mgmt!PushListing, Mgmt!Respond, Mgmt!Goto, Mgmt!busVars, TypeOK
  \* A poisoned mutex is known; a panic at a running loop makes the culprit.
  <2>3. ASSUME NEW o \in Ops, Mgmt!LockPanics(o) \/ Mgmt!HandlerPanics(o)
        PROVE  /\ Bad(Info[o].at)'
               /\ poisoned' = poisoned \/ poisoned' = [poisoned EXCEPT ![Info[o].at] = TRUE]
               /\ mgmt' = [mgmt EXCEPT ![o] = "panicked"]
    <3>1. CASE Mgmt!LockPanics(o)
      BY <2>1, <3>1
      DEF Mgmt!LockPanics, Mgmt!AcquireFails, Mgmt!Goto, Mgmt!busVars, Mgmt!At, PanicsKnown
    <3>2. CASE Mgmt!HandlerPanics(o)
      <4>1. /\ poisoned' = [poisoned EXCEPT ![Info[o].at] = TRUE]
            /\ mgmt' = [mgmt EXCEPT ![o] = "panicked"] /\ UNCHANGED <<net, local>>
            /\ ~Alive(Info[o].at) \/ (mgmt[o] = "flushGossip" /\ ~local[o].providers)
        BY <3>2
        DEF Mgmt!HandlerPanics, Mgmt!PanicWithGuard, Mgmt!Goto, Mgmt!At, Mgmt!Alive, Alive
      <4>2. mgmt[o] = "flushGossip" => local[o] # NoService
        BY DEF MgmtInv, MgmtSettled, Settled
      <4> QED
        BY <4>1, <4>2 DEF Culprit, Alive, TypeOK
    <3> QED
      BY <2>3, <3>1, <3>2
  <2>4. ASSUME \/ \E g \in Gateways :
                     \/ Mgmt!ReceiveCommand(g) \/ Mgmt!PublishGossip(g)
                     \/ Mgmt!ListService(g) \/ Mgmt!Apply(g)
               \/ \E m \in gossip : Mgmt!LookUp(m)
        PROVE  UNCHANGED <<poisoned, mgmt>>
    BY <2>4
    DEF Mgmt!ReceiveCommand, Mgmt!PublishGossip, Mgmt!ListService, Mgmt!Apply, Mgmt!LookUp, Mgmt!busVars
  <2>5. ASSUME NEW g \in Gateways, poisoned'[g] PROVE Bad(g)'
    <3>1. CASE UNCHANGED poisoned
      BY <2>1, <2>5, <3>1 DEF PanicsKnown
    <3>2. ASSUME NEW h \in Gateways, Bad(h)', poisoned' = [poisoned EXCEPT ![h] = TRUE]
          PROVE  Bad(g)'
      <4>1. CASE g = h
        BY <3>2, <4>1
      <4>2. CASE g # h
        BY <2>1, <2>5, <3>2, <4>2 DEF PanicsKnown, TypeOK
      <4> QED
        BY <4>1, <4>2
    <3> QED
      BY <1>2, <2>2, <2>3, <2>4, <3>1, <3>2 DEF MgmtNext
  <2>6. ASSUME NEW o \in Ops, mgmt'[o] = "panicked" PROVE Bad(Info[o].at)'
    BY <1>2, <2>1, <2>2, <2>3, <2>4, <2>6 DEF MgmtNext, PanicsKnown, TypeOK
  <2>7. ASSUME NEW r \in Requests, fwd'[r] = "panicked" PROVE Bad(Home[r])'
    BY <1>2, <2>1, <2>7, MgmtFacts DEF PanicsKnown, httpVars
  <2> QED
    BY <2>5, <2>6, <2>7 DEF PanicsKnown
<1> QED
  BY <1>1, <1>2, Steps

\* h died of a user who left or of a look-up that failed.
Cause(h) == ~Alive(h) /\ (UserLeft(h) \/ (h = Provider /\ LookUpFailed))

\* A cause stays one.
LEMMA CauseStays ==
    ASSUME TypeOK, TypeOK', FwdInv, MgmtInv, Next, NEW h \in Gateways, Cause(h)
    PROVE  Cause(h)'
<1> USE FwdConstants, MgmtConstants
<1>1. CASE FwdNext
  <2>1. ~Alive(h)' /\ (UserLeft(h) => UserLeft(h)')
    BY <1>1, FwdFacts DEF Cause, UserLeft
  <2>2. h = Provider /\ LookUpFailed => LookUpFailed'
    BY <1>1, FwdFacts DEF Cause, LookUpFailed, Started, registryVars
  <2> QED
    BY <2>1, <2>2 DEF Cause
<1>2. CASE MgmtNext
  <2>1. ~Alive(h)' /\ (UserLeft(h) => UserLeft(h)')
    BY <1>2, MgmtFacts DEF Cause, UserLeft, Alive, httpVars
  <2>2. LookUpFailed => LookUpFailed'
    BY <1>2, MgmtFacts DEF LookUpFailed, httpVars
  <2> QED
    BY <2>1, <2>2 DEF Cause
<1> QED
  BY <1>1, <1>2, Steps

\* Every loop that dies has a cause, or the loop it waits to hear from has one:
\* one step per panic of a loop.
LEMMA DeathsKept ==
    /\ TypeOK /\ TypeOK' /\ FwdInv /\ MgmtInv /\ ProviderKnows
    /\ LoopDeathExplained /\ Next
    => LoopDeathExplained'
<1> SUFFICES ASSUME TypeOK, TypeOK', FwdInv, MgmtInv, ProviderKnows,
                    LoopDeathExplained, Next
             PROVE  LoopDeathExplained'
  OBVIOUS
<1> USE FwdConstants, MgmtConstants, PlacementAssumption
<1> DEFINE Blamed(g) == \E h \in Gateways : Cause(h) /\ (g # h => ~Alive(Provider))
<1>1. \A g \in Gateways : ~Alive(g) => Blamed(g)
  BY DEF LoopDeathExplained, Cause
<1>2. \A g \in Gateways : ~Alive(g) => ~Alive(g)'
  BY Steps, FwdFacts, MgmtFacts DEF Alive
<1>3. \A g \in Gateways : Blamed(g) => Blamed(g)'
  BY <1>2, CauseStays
<1>4. SUFFICES ASSUME NEW g \in Gateways, Alive(g), ~Alive(g)'
               PROVE  Blamed(g)'
  <2>1. \A g \in Gateways : ~Alive(g)' => Blamed(g)'
    BY <1>1, <1>3, <1>4
  <2> QED
    BY <2>1 DEF LoopDeathExplained, Cause
<1> HIDE DEF Blamed
<1>5. FwdNext
  BY <1>4, Steps, MgmtFacts DEF Alive
<1>6. PICK r \in Requests :
         \/ HasHttpProvider(r) /\ Http!LookupPanics(r)
         \/ NoProviderPanics(r) \/ Http!ServePanics(r) \/ Http!DeliverPanics(r)
  <2>1. ASSUME NEW r \in Requests,
               \/ Http!Refuse(r) \/ Http!Accept(r) \/ Http!Disconnect(r)
               \/ Http!AcquireLock(r) \/ Http!LockPanics(r)
               \/ Http!PushRequest(r) \/ Http!PushUsage(r) \/ Http!PushPanics(r)
               \/ Http!FlushUsage(r) \/ Http!ReceiveResponse(r)
               \/ Http!ServeHttp(r) \/ Http!Deliver(r)
        PROVE  UNCHANGED net
    BY <2>1
    DEF Http!Refuse, Http!Accept, Http!Disconnect, Http!AcquireLock, Http!LockPanics,
        Http!PushRequest, Http!PushUsage, Http!PushPanics, Http!FlushUsage,
        Http!ReceiveResponse, Http!ServeHttp, Http!Deliver, Http!busVars
  <2>2. ASSUME NEW h \in Gateways, Http!TakeSendRequest(h) \/ Http!TakeSubmitUsage(h)
        PROVE  UNCHANGED net
    BY <2>2 DEF Http!TakeSendRequest, Http!TakeSubmitUsage
  <2> QED
    BY <1>4, <1>5, <2>1, <2>2 DEF FwdNext, Alive
\* The request waits for its handling, and its service was heard of.
<1>7. CASE (HasHttpProvider(r) /\ Http!LookupPanics(r)) \/ NoProviderPanics(r)
  <2>1. /\ Http!RequestMsg(r) \in wire /\ Http!LoopDies(Provider)
        /\ ServiceOf[r] \notin {k \in Keys : registry[Provider][k] # NoService}
           \/ ~registry[Provider][ServiceOf[r]].providers
    BY <1>7
    DEF Http!LookupPanics, NoProviderPanics, HasHttpProvider, Http!Arrived
  <2>2. served[r] = 0 /\ Started(r)
    BY <2>1 DEF FwdInv, Http!OnePlace, Http!Unsent, Started
  <2>3. Withheld(ServiceOf[r])
    BY <2>1, <2>2 DEF ProviderKnows
  <2>4. LookUpFailed /\ UNCHANGED <<fwd, served>>
    BY <1>7, <2>2, <2>3
    DEF LookUpFailed, Withheld, Started, Http!LookupPanics, NoProviderPanics,
        Http!LoopDies
  <2>5. LookUpFailed'
    BY <1>5, <2>4, FwdFacts DEF LookUpFailed, registryVars
  <2>6. g = Provider /\ Cause(Provider)'
    BY <1>4, <2>1, <2>5 DEF Http!LoopDies, Http!LoopPanics, Alive, Cause, TypeOK
  <2> QED
    BY <2>6 DEF Blamed
\* The acknowledgement fails: the loop that sent the request is dead, and not of
\* the provider's, which is not yet.
<1>8. CASE Http!ServePanics(r)
  <2>1. ~Alive(Home[r]) /\ Alive(Provider) /\ Http!LoopDies(Provider)
    BY <1>8
    DEF Http!ServePanics, Http!AckFails, Http!Arrived, Http!LoopIdle, Http!Alive,
        Alive
  <2>2. Cause(Home[r])
    BY <1>1, <2>1 DEF Blamed
  <2>3. Cause(Home[r])' /\ ~Alive(Provider)'
    BY <2>1, <2>2, CauseStays DEF Http!LoopDies, Http!LoopPanics, Alive, TypeOK
  <2> QED
    BY <2>3 DEF Blamed
<1>9. CASE Http!DeliverPanics(r)
  <2>1. /\ Http!ResponseMsg(r) \in wire /\ Alive(Home[r]) /\ Http!LoopDies(Home[r])
        /\ ~Alive(Provider) \/ r \notin sessions[Home[r]] \/ fwd[r] \notin Http!Listening
        /\ UNCHANGED <<fwd, served>>
    BY <1>9
    DEF Http!DeliverPanics, Http!AckFails, Http!Arrived, Http!LoopIdle, Http!LoopDies,
        Http!Alive, Alive
  <2>2. g = Home[r]
    BY <1>4, <2>1 DEF Http!LoopDies, Http!LoopPanics, Alive, TypeOK
  <2>3. CASE ~Alive(Provider)
    <3>1. PICK h \in Gateways : Cause(h)
      BY <1>1, <2>3 DEF Blamed
    <3> QED
      BY <1>2, <2>3, <3>1, CauseStays DEF Blamed
  \* Its session is there, so the handler is gone, and not since an answer or a
  \* panic.
  <2>4. CASE r \notin sessions[Home[r]] \/ fwd[r] \notin Http!Listening
    <3>1. served[r] = 1 /\ fwd[r] \notin Http!Unsent /\ fwd[r] # "answered"
      BY <2>1 DEF FwdInv, Http!OnePlace, FwdEnded
    <3>2. fwd[r] # "panicked"
      BY <2>1 DEF FwdInv, FwdEnded
    <3>3. r \in sessions[Home[r]]
      BY <3>1 DEF FwdInv, Http!Registered, Http!Unsent
    <3>4. fwd[r] = "cancelled"
      BY <2>4, <3>1, <3>2, <3>3
      DEF TypeOK, Http!PcStates, Http!Listening, Http!Holding, Http!Done, Http!Unsent
    <3>5. UserLeft(Home[r])'
      BY <2>1, <3>1, <3>4 DEF UserLeft
    <3> QED
      BY <1>4, <2>2, <3>5 DEF Blamed, Cause
  <2> QED
    BY <2>1, <2>3, <2>4
<1> QED
  BY <1>6, <1>7, <1>8, <1>9

-----------------------------------------------------------------------------
(* The theorems. *)

\* The inductive invariant: neither server's part is inductive alone.
GInv ==
    /\ TypeOK
    /\ FwdInv
    /\ MgmtInv
    /\ ProviderKnows
    /\ PanicsKnown
    /\ LoopDeathExplained

\* It holds at the start.
LEMMA InitGInv == Init => GInv
BY InitTypeOK, InitFwdInv, InitMgmtInv, InitKnown DEF GInv

\* No step of either server breaks it.
LEMMA InductiveStep == GInv /\ [Next]_vars => GInv'
<1> SUFFICES ASSUME GInv, [Next]_vars PROVE GInv'
  OBVIOUS
<1> USE DEF GInv
<1>1. TypeOK'
  BY NextTypeOK
<1>2. CASE Next
  <2>1. FwdInv'
    BY <1>1, <1>2, Steps, FwdInductive, MgmtKeepsFwd
  <2>2. MgmtInv'
    BY <1>1, <1>2, Steps, MgmtInductive, FwdKeepsMgmt
  <2> QED
    BY <1>1, <1>2, <2>1, <2>2, ProviderKnowsKept, PanicsKnownKept, DeathsKept
<1>3. CASE UNCHANGED vars
  <2> USE <1>3 DEF vars, busVars, httpVars, registryVars
  <2>1. FwdInv'
    BY <1>1, FwdFrame DEF FwdUntouched
  <2>2. MgmtInv'
    BY <1>1, MgmtFrame DEF MgmtUntouched
  <2>3. ProviderKnows'
    BY DEF ProviderKnows, Heard, Withheld, Settled, Started
  <2>4. PanicsKnown'
    BY DEF PanicsKnown, Culprit, Alive
  <2>5. LoopDeathExplained'
    BY DEF LoopDeathExplained, UserLeft, LookUpFailed, Alive
  <2> QED
    BY <1>1, <2>1, <2>2, <2>3, <2>4, <2>5
<1> QED
  BY <1>2, <1>3

\* So it always holds.
LEMMA Invariance == Spec => []GInv
BY InitGInv, InductiveStep, PTL DEF Spec

\* The guard of the mutex that both servers share, and the command in its slot,
\* belong to the handlers that the code means them for.
THEOREM GuardsCorrect == Spec => []GuardsMatch
<1>1. GInv => GuardsMatch
  <2> SUFFICES ASSUME GInv, NEW g \in Gateways
               PROVE  \/ SlotFree(g) \/ lock[g] = cmd[g].by
                      \/ \E r \in Requests : cmd[g].by = r /\ fwd[r] = "cancelled"
    BY DEF GuardsMatch, GInv, FwdInv, MgmtInv
  <2> USE DEF GInv, FwdInv, MgmtInv
  <2>1. CASE cmd[g] \in Http!Commands
    <3>1. PICK r \in Requests :
             r = cmd[g].by /\ (cmd[g] = Http!SendRequestCmd(r) \/ cmd[g] = Http!SubmitUsageCmd(r))
      BY <2>1, CommandFacts
    <3>2. Home[r] = g
      BY <2>1, <3>1 DEF FwdBus
    <3>3. fwd[r] \in {"flushRequest", "flushUsage", "cancelled"}
      BY <3>1, <3>2 DEF Http!OnePlace, Http!Charged
    <3>4. fwd[r] # "cancelled" => lock[g] = r
      BY <3>2, <3>3 DEF Http!GuardMatchesHandler, Http!Holding
    <3> QED
      BY <3>1, <3>4
  <2>2. CASE cmd[g] \in Mgmt!Commands
    <3>1. PICK o \in Ops :
             o = cmd[g].by /\ (cmd[g] = Mgmt!GossipCmd(o) \/ cmd[g] = Mgmt!AddServiceCmd(o))
      BY <2>2, CommandFacts
    <3>2. Info[o].at = g /\ mgmt[o] \in Mgmt!Holding
      BY <3>1 DEF MgmtBus, Mgmt!Holding
    <3> QED
      BY <3>1, <3>2 DEF Mgmt!GuardMatchesHandler, Mgmt!At
  <2> QED
    BY <2>1, <2>2 DEF TypeOK, SlotFree
<1> QED
  BY <1>1, Invariance, PTL

\* Every dead loop has one of the three causes, or fell with the provider's.
THEOREM DeathsExplained == Spec => []LoopDeathExplained
BY Invariance, PTL DEF GInv

\* At a running loop only a POST without a provider makes handlers panic.
THEOREM PanicsExplained == Spec => []PanicExplained
<1>1. GInv => PanicExplained
  BY DEF GInv, PanicsKnown, Culprit, PanicExplained
<1> QED
  BY <1>1, Invariance, PTL

\* What the invariant says of the answers of the management API.
LEMMA FewAreFalse == TypeOK /\ MgmtInv => Mgmt!DoneIsAnnounced
<1> SUFFICES ASSUME TypeOK, MgmtInv, NEW g \in Gateways
             PROVE  /\ Mgmt!Alive(g) => \A o \in Mgmt!Unannounced(g) :
                                           taken[g] # NoCmd /\ taken[g].by = o
                    /\ \A o, p, q \in Mgmt!Unannounced(g) : o = p \/ p = q \/ o = q
  BY CommandFacts DEF Mgmt!DoneIsAnnounced
<1>1. \A o \in Mgmt!Unannounced(g) :
         o \in Ops \ Preloaded /\ Info[o].at = g /\ Unfounded(o) /\ mgmt[o] = "done"
  BY DEF Mgmt!Unannounced, Unfounded, Mgmt!At
<1>2. ASSUME Alive(g), NEW o \in Mgmt!Unannounced(g)
      PROVE  taken[g] # NoCmd /\ taken[g].by = o
  <2>1. taken[g] = Mgmt!GossipCmd(o) \/ taken[g] = Mgmt!AddServiceCmd(o)
    BY <1>1, <1>2 DEF MgmtInv, Flushed, Unfounded, Mgmt!Announced
  <2> QED
    BY <1>1, <2>1, CommandFacts
<1>3. CASE Alive(g)
  BY <1>2, <1>3
<1>4. CASE ~Alive(g)
  <2>1. PICK a \in Handlers \cup {NoHandler}, b \in Handlers \cup {NoHandler} :
            \A o \in Ops : Info[o].at = g /\ Unfounded(o) => o = a \/ o = b
    BY <1>4 DEF MgmtInv, FewUnfounded
  <2> QED
    BY <1>1, <1>4, <2>1 DEF Alive, Mgmt!Alive
<1> QED
  BY <1>3, <1>4

\* Beside the management API, too, an answer means one call and one charge; and
\* beside forwarding, 200 OK is for a change that was announced or that the loop
\* is carrying out, but for two at each gateway whose loop died.
THEOREM ServersKeepPromises ==
    Spec => [](Http!AnsweredIsServedAndBilled /\ Mgmt!DoneIsAnnounced)
<1>1. GInv => Http!AnsweredIsServedAndBilled /\ Mgmt!DoneIsAnnounced
  BY FewAreFalse DEF GInv, FwdInv
<1> QED
  BY <1>1, Invariance, PTL

-----------------------------------------------------------------------------
(* Beside the management API, forwarding still implements its contract. *)

\* What a user sees of each label.
LEMMA StatusFacts ==
    /\ Http!StatusOf("idle") = "new" /\ Http!StatusOf("notFound") = "refused"
    /\ Http!StatusOf("answered") = "answered"
    /\ Http!StatusOf("cancelled") = "abandoned"
    /\ Http!StatusOf("panicked") = "abandoned"
    /\ \A label \in Http!Listening : Http!StatusOf(label) = "accepted"
BY DEF Http!StatusOf, Http!Listening, Http!Holding

\* A handler that goes on takes its user along.
LEMMA StatusStep ==
    ASSUME TypeOK, NEW r \in Requests, NEW label, Http!Goto(r, label)
    PROVE  [q \in Requests |-> Http!StatusOf(fwd[q])]'
           = [[q \in Requests |-> Http!StatusOf(fwd[q])] EXCEPT ![r] = Http!StatusOf(label)]
BY DEF TypeOK, Http!Goto

\* A step of either server is a step of the contract, or unseen by it.
LEMMA StepSimulation ==
    ASSUME GInv, [Next]_vars
    PROVE  [Http!Contract!Next]_(Http!Contract!vars)
<1> DEFINE status == [q \in Requests |-> Http!StatusOf(fwd[q])]
<1> USE FwdConstants, CommandKinds, MessageFacts
    DEF GInv, FwdInv, Http!Contract!vars, Http!PcStates, Http!Listening, Http!Holding,
        Http!Done, Http!Unsent
<1>1. ASSUME UNCHANGED <<fwd, served, billed>> PROVE UNCHANGED Http!Contract!vars
  BY <1>1
<1>2. ASSUME NEW r \in Requests, NEW from, NEW to, fwd[r] = from, Http!Goto(r, to),
             UNCHANGED <<served, billed>>
      PROVE  Http!Contract!Moves(r, Http!StatusOf(from), Http!StatusOf(to))
  BY <1>2, StatusStep DEF Http!Contract!Moves
<1>3. ASSUME NEW r \in Requests, NEW to \in Http!Listening, fwd[r] \in Http!Listening,
             Http!Goto(r, to), UNCHANGED <<served, billed>>
      PROVE  UNCHANGED Http!Contract!vars
  <2>1. status' = [status EXCEPT ![r] = status[r]]
    BY <1>3, StatusStep, StatusFacts
  <2> QED
    BY <1>3, <2>1
<1>4. ASSUME NEW r \in Requests, Http!Refuse(r) \/ Http!Accept(r)
      PROVE  Http!Contract!Next
  BY <1>2, <1>4, StatusFacts
  DEF Http!Refuse, Http!Accept, Http!Arriving, Http!Contract!Refuse,
      Http!Contract!Accept, Http!Contract!Next
<1>5. ASSUME NEW r \in Requests,
             Http!Disconnect(r) \/ Http!LockPanics(r) \/ Http!PushPanics(r)
      PROVE  Http!Contract!Next
  <2>1. PICK to \in {"cancelled", "panicked"} :
           fwd[r] \in Http!Listening /\ Http!Goto(r, to) /\ UNCHANGED <<served, billed>>
    BY <1>5 DEF Http!Disconnect, Http!LockPanics, Http!PushPanics
  <2> QED
    BY <1>2, <2>1, StatusFacts DEF Http!Contract!Abandon, Http!Contract!Next
<1>6. ASSUME NEW r \in Requests,
             \/ Http!AcquireLock(r) \/ Http!PushRequest(r) \/ Http!PushUsage(r)
             \/ Http!FlushUsage(r)
      PROVE  UNCHANGED Http!Contract!vars
  BY <1>3, <1>6
  DEF Http!AcquireLock, Http!PushRequest, Http!PushUsage, Http!FlushUsage
<1>7. ASSUME NEW r \in Requests, Http!ReceiveResponse(r) PROVE Http!Contract!Next
  <2>1. served[r] = 1 /\ billed[r] = Http!Charge
    BY <1>7, NoHandlerAssumption, HandlersAssumption
    DEF Http!ReceiveResponse, FwdBus, Http!OnePlace, Http!Charged, Http!Alive, Alive
  <2>2. Http!Contract!Moves(r, "accepted", "answered")
    BY <1>2, <1>7, StatusFacts DEF Http!ReceiveResponse
  <2> QED
    BY <2>1, <2>2 DEF Http!Contract!Answer, Http!Contract!Next, Http!Charge
\* The command in the slot is the first charge of a request that was accepted.
<1>8. ASSUME NEW g \in Gateways, Http!TakeSubmitUsage(g)
      PROVE  [Http!Contract!Next]_(Http!Contract!vars)
  <2>1. PICK r \in Requests : r = cmd[g].by /\ cmd[g] = Http!SubmitUsageCmd(r) /\ Home[r] = g
    BY <1>8, CommandFacts DEF Http!TakeSubmitUsage, FwdBus, TypeOK
  <2>2. fwd[r] \in {"flushUsage", "cancelled"} /\ billed[r] = 0
    BY <2>1 DEF Http!Charged
  <2>3. UNCHANGED <<fwd, served>>
    BY <1>8 DEF Http!TakeSubmitUsage
  <2>4. CASE UNCHANGED billed
    BY <1>1, <2>3, <2>4
  <2>5. CASE OnChain /\ billed' = [billed EXCEPT ![r] = @ + 1]
    <3>1. status[r] \in {"accepted", "abandoned"}
      BY <2>2, StatusFacts
    <3>2. billed' = [billed EXCEPT ![r] = 1] /\ UNCHANGED <<status, served>>
      BY <2>2, <2>3, <2>5 DEF TypeOK
    <3> QED
      BY <2>2, <2>5, <3>1, <3>2 DEF Http!Contract!Bill, Http!Contract!Next
  <2> QED
    BY <1>8, <2>1, <2>4, <2>5 DEF Http!TakeSubmitUsage
\* A request on the wire was accepted and has not been served.
<1>9. ASSUME NEW r \in Requests, Http!ServeHttp(r) \/ Http!ServePanics(r)
      PROVE  [Http!Contract!Next]_(Http!Contract!vars)
  <2>1. /\ Http!RequestMsg(r) \in wire /\ UNCHANGED <<fwd, billed>>
        /\ served' = served \/ served' = [served EXCEPT ![r] = @ + 1]
    BY <1>9 DEF Http!ServeHttp, Http!ServePanics, Http!Arrived, Http!LoopDies
  <2>2. served[r] = 0 /\ fwd[r] \in Http!Listening \cup {"cancelled", "panicked"}
    BY <2>1 DEF TypeOK, Http!OnePlace, Http!AnsweredIsServedAndBilled
  <2>3. CASE served' = [served EXCEPT ![r] = @ + 1]
    <3>1. status[r] \in {"accepted", "abandoned"}
      BY <2>2, StatusFacts
    <3>2. served' = [served EXCEPT ![r] = 1] /\ UNCHANGED <<status, billed>>
      BY <2>1, <2>2, <2>3 DEF TypeOK
    <3> QED
      BY <2>2, <3>1, <3>2 DEF Http!Contract!Serve, Http!Contract!Next
  <2> QED
    BY <1>1, <2>1, <2>3
<1>10. ASSUME \/ \E g \in Gateways : Http!TakeSendRequest(g)
              \/ \E r \in Requests : \/ Http!LookupPanics(r) \/ NoProviderPanics(r)
                                     \/ Http!Deliver(r) \/ Http!DeliverPanics(r)
       PROVE  UNCHANGED Http!Contract!vars
  BY <1>1, <1>10
  DEF Http!TakeSendRequest, Http!LookupPanics, NoProviderPanics, Http!Deliver,
      Http!DeliverPanics, Http!LoopDies
<1>11. MgmtNext \/ UNCHANGED vars => UNCHANGED Http!Contract!vars
  BY <1>1 DEF MgmtNext, vars, httpVars
<1> QED
  BY <1>4, <1>5, <1>6, <1>7, <1>8, <1>9, <1>10, <1>11, Steps DEF FwdNext

\* Whatever the management API does to the bus and to the registry, each request
\* is served and charged at most once, and answered only after both.
THEOREM ForwardingRefines == Spec => Http!ImplementsContract
<1>1. Init => Http!Contract!Init
  BY StatusFacts DEF Init, Http!Init, Http!Contract!Init
<1>2. GInv /\ [Next]_vars => [Http!Contract!Next]_(Http!Contract!vars)
  BY StepSimulation
<1> QED
  BY <1>1, <1>2, Invariance, PTL
  DEF Spec, Http!ImplementsContract, Http!Contract!Spec

-----------------------------------------------------------------------------
(* Changes that are made one at a time. *)

\* The message of o has still to be published, and still to be applied at g.
Announcing(o) ==
    \/ mgmt[o] \in {"locking", "publish"}
    \/ cmd[Info[o].at] = Mgmt!GossipCmd(o)
    \/ taken[Info[o].at] = Mgmt!GossipCmd(o)
Pending(o, g) == Announcing(o) \/ [to |-> g, by |-> o] \in gossip \/ applying[g] = o

\* The change o is under way.
Active(o) ==
    \/ mgmt[o] \in {"read", "flushGossip", "flushListing"}
    \/ \E g \in Gateways : Pending(o, g)

\* A message is in one place at a time.
Stages ==
    \A o \in Ops, g \in Gateways :
        /\ Announcing(o) => [to |-> g, by |-> o] \notin gossip /\ applying[g] # o
        /\ [to |-> g, by |-> o] \in gossip => applying[g] # o

\* What a change makes of the entry.
Outcome(o) == IF Info[o].kind = "delete" THEN NoService ELSE local[o]

\* A change is made at home and wherever its message has been; the message of a
\* deletion meets the entry it deletes.
Spreading(o) ==
    \A g \in Gateways :
        /\ g = Info[o].at \/ ~Pending(o, g) => registry[g][Info[o].key] = Outcome(o)
        /\ g # Info[o].at /\ Pending(o, g) /\ Info[o].kind = "delete" =>
              /\ registry[g][Info[o].key] # NoService
              /\ applying[g] = o => known[g]

\* The gateways show the same entry of k.
Same(k) == \A g, h \in Gateways : registry[g][k] = registry[h][k]

\* Only a DELETE marks a service as deleted, for its message.
Marked(service) == service # NoService /\ service.deleted = "true"

Marks ==
    /\ \A o \in Ops :
          /\ Info[o].kind = "put" => ~Marked(local[o])
          /\ Info[o].kind = "delete" /\ Settled(o) => Marked(local[o])
    /\ \A g \in Gateways, k \in Keys : ~Marked(registry[g][k])

\* A POST that has read and not yet stored the entry.
Reading == \A o \in Ops : mgmt[o] = "read" =>
    Info[o].kind = "put" /\ local[o] = registry[Info[o].at][Info[o].key]

\* One change at a time is under way, and what it has not touched is the same
\* everywhere.
SerialInv ==
    /\ Stages /\ Marks /\ Reading
    /\ \A o, p \in Ops : Active(o) /\ Active(p) => o = p
    /\ \A o \in Ops : Active(o) /\ Settled(o) => Spreading(o)
    /\ \A k \in Keys :
          Same(k) \/ \E o \in Ops : Active(o) /\ Settled(o) /\ Info[o].key = k

Works == \A g \in Gateways : BusWorks(g)

HInv == serial /\ Works => SerialInv

-----------------------------------------------------------------------------
(* What a step leaves alone. *)

\* A bus that is out of use stays so.
LEMMA WorksBefore ==
    ASSUME GInv, GInv', [Next]_vars, Works'
    PROVE  Works
<1> USE DEF GInv, TypeOK, Works, BusWorks, Alive
<1>1. ASSUME FwdNext
      PROVE  poisoned' = poisoned \/ \E r \in Requests : Http!PanicWithGuard(Home[r])
  <2>1. ASSUME NEW r \in Requests,
               \/ Http!Refuse(r) \/ Http!Accept(r) \/ Http!Disconnect(r)
               \/ Http!AcquireLock(r) \/ Http!LockPanics(r) \/ Http!PushRequest(r)
               \/ Http!PushUsage(r) \/ Http!FlushUsage(r) \/ Http!ReceiveResponse(r)
        PROVE  poisoned' = poisoned
    BY <2>1
    DEF Http!Refuse, Http!Accept, Http!Disconnect, Http!AcquireLock, Http!LockPanics,
        Http!PushRequest, Http!PushUsage, Http!FlushUsage, Http!ReceiveResponse,
        Http!busVars
  <2>2. ASSUME NEW r \in Requests,
               \/ Http!ServeHttp(r) \/ Http!ServePanics(r) \/ Http!LookupPanics(r)
               \/ NoProviderPanics(r) \/ Http!Deliver(r) \/ Http!DeliverPanics(r)
        PROVE  poisoned' = poisoned
    BY <2>2
    DEF Http!ServeHttp, Http!ServePanics, Http!LookupPanics, NoProviderPanics,
        Http!Deliver, Http!DeliverPanics, Http!LoopDies, Http!busVars
  <2>3. ASSUME NEW g \in Gateways, Http!TakeSendRequest(g) \/ Http!TakeSubmitUsage(g)
        PROVE  poisoned' = poisoned
    BY <2>3 DEF Http!TakeSendRequest, Http!TakeSubmitUsage
  <2>4. ASSUME NEW r \in Requests, Http!PushPanics(r)
        PROVE  Http!PanicWithGuard(Home[r])
    BY <2>4 DEF Http!PushPanics
  <2> QED
    BY <1>1, <2>1, <2>2, <2>3, <2>4 DEF FwdNext
<1>2. ASSUME MgmtNext, NEW g \in Gateways PROVE poisoned[g] => poisoned'[g]
  BY <1>2
  DEF MgmtNext, Mgmt!Read, Mgmt!Remove, Mgmt!RemoveNothing, Mgmt!Store,
      Mgmt!AcquireLock, Mgmt!LockPanics, Mgmt!PushGossip, Mgmt!PushListing,
      Mgmt!HandlerPanics, Mgmt!PanicWithGuard, Mgmt!Respond, Mgmt!ReceiveCommand,
      Mgmt!PublishGossip,
      Mgmt!ListService, Mgmt!Apply, Mgmt!LookUp, Mgmt!busVars
<1>3. CASE FwdNext
  <2>1. \A g \in Gateways : poisoned[g] => poisoned'[g]
    BY <1>1, <1>3 DEF Http!PanicWithGuard
  <2> QED
    BY <1>3, <2>1, FwdFacts
<1>4. CASE MgmtNext
  BY <1>2, <1>4, MgmtFacts
<1>5. CASE UNCHANGED vars
  BY <1>5 DEF vars, busVars
<1> QED
  BY <1>3, <1>4, <1>5, Steps

\* Commands and messages of two changes differ.
LEMMA MessagesApart ==
    /\ \A o, p \in Ops :
          /\ Mgmt!GossipCmd(o) = Mgmt!GossipCmd(p) => o = p
          /\ Mgmt!AddServiceCmd(o) # Mgmt!GossipCmd(p)
    /\ \A o, p \in Ops, g, h \in Gateways :
          [to |-> g, by |-> o] = [to |-> h, by |-> p] => g = h /\ o = p
BY DEF Mgmt!GossipCmd, Mgmt!AddServiceCmd

\* Steps that move no message and no change keep the invariant.
LEMMA SerialFrame ==
    ASSUME SerialInv,
           UNCHANGED <<mgmt, local, registry, gossip, applying, known>>,
           \A o \in Ops : Announcing(o)' <=> Announcing(o)
    PROVE  SerialInv'
<1>1. \A o \in Ops, g \in Gateways : Pending(o, g)' <=> Pending(o, g)
  BY DEF Pending
<1>2. \A o \in Ops : (Active(o)' <=> Active(o)) /\ (Settled(o)' <=> Settled(o))
  BY <1>1 DEF Active, Settled
<1>3. \A o \in Ops : Spreading(o) => Spreading(o)'
  BY <1>1 DEF Spreading, Outcome
<1>4. \A k \in Keys : Same(k) => Same(k)'
  BY DEF Same
<1>5. Stages' /\ Marks' /\ Reading'
  BY <1>2 DEF SerialInv, Stages, Marks, Reading
<1> QED
  BY <1>2, <1>3, <1>4, <1>5 DEF SerialInv

\* When nothing is under way no change is.
LEMMA QuietIsIdle ==
    ASSUME TypeOK, Mgmt!Quiescent, NEW o \in Ops
    PROVE  ~Active(o)
<1>1. mgmt[o] \notin {"read", "locking", "publish", "flushGossip", "flushListing"}
  BY DEF Mgmt!Quiescent, Mgmt!Done
<1>2. cmd[Info[o].at] # Mgmt!GossipCmd(o) /\ taken[Info[o].at] # Mgmt!GossipCmd(o)
  BY MgmtConstants, CommandFacts DEF Mgmt!Quiescent, Mgmt!SlotFree
<1>3. \A g \in Gateways : applying[g] # o
  BY MgmtConstants DEF Mgmt!Quiescent
<1> QED
  BY <1>1, <1>2, <1>3 DEF Active, Pending, Announcing, Mgmt!Quiescent

\* A change that is no longer under way has been made everywhere.
LEMMA SpreadIsSame ==
    ASSUME NEW o \in Ops, Spreading(o), ~Active(o)
    PROVE  Same(Info[o].key)
BY DEF Active, Spreading, Same

\* While a change is under way, what it has not touched is the same everywhere.
LEMMA OthersSame ==
    ASSUME SerialInv, NEW o \in Ops, Active(o), NEW k \in Keys,
           k # Info[o].key \/ ~Settled(o)
    PROVE  Same(k)
BY DEF SerialInv

\* With no change under way everything is the same everywhere.
LEMMA AllSame ==
    ASSUME TypeOK, SerialInv, Mgmt!Quiescent, NEW k \in Keys
    PROVE  Same(k)
BY QuietIsIdle DEF SerialInv

\* Steps that move the message of a change, and no entry.
LEMMA MessageMoves ==
    ASSUME SerialInv, UNCHANGED <<local, registry>>, Stages',
           \A o \in Ops : /\ Settled(o)' <=> Settled(o)
                          /\ mgmt'[o] = "read" => mgmt[o] = "read"
                          /\ Active(o)' => Active(o)
                          /\ Active(o) /\ Settled(o) /\ Spreading(o) => Spreading(o)'
    PROVE  SerialInv'
<1>1. Marks' /\ Reading'
  BY DEF SerialInv, Marks, Reading, Settled
<1>2. \A o \in Ops : Active(o)' /\ Settled(o)' => Spreading(o)'
  BY DEF SerialInv
<1>3. ASSUME NEW k \in Keys
      PROVE  Same(k)' \/ \E o \in Ops : Active(o)' /\ Settled(o)' /\ Info[o].key = k
  <2>1. CASE Same(k)
    BY <2>1 DEF Same
  <2>2. ASSUME NEW o \in Ops, Active(o), Settled(o), Info[o].key = k
        PROVE  Same(k)' \/ (Active(o)' /\ Settled(o)')
    <3>1. Spreading(o)'
      BY <2>2 DEF SerialInv
    <3>2. ~Active(o)' => Same(k)'
      BY <2>2, <3>1 DEF Active, Spreading, Same
    <3> QED
      BY <2>2, <3>2
  <2> QED
    BY <2>1, <2>2 DEF SerialInv
<1> QED
  BY <1>1, <1>2, <1>3 DEF SerialInv

-----------------------------------------------------------------------------
(* The steps of a change. *)

\* A change that begins while another is under way ends the serial behaviour.
LEMMA BeginsQuiet ==
    ASSUME SerialStart, NEW o \in Ops, mgmt[o] = "idle", mgmt'[o] # "idle"
    PROVE  Mgmt!Quiescent
BY DEF SerialStart

\* The first half of a POST.
LEMMA ReadSerial ==
    ASSUME TypeOK, TypeOK', MgmtInv, SerialInv, SerialStart, NEW o \in Ops, Mgmt!Read(o)
    PROVE  SerialInv'
<1> USE DEF TypeOK
<1>1. /\ mgmt[o] = "idle" /\ mgmt' = [mgmt EXCEPT ![o] = "read"]
      /\ Info[o].kind = "put"
      /\ local' = [local EXCEPT ![o] = registry[Info[o].at][Info[o].key]]
      /\ UNCHANGED <<cmd, taken, registry, gossip, applying, known>>
  BY DEF Mgmt!Read, Mgmt!Arriving, Mgmt!Goto, Mgmt!At, Mgmt!Key, Mgmt!busVars, Mgmt!loopVars
<1>2. Mgmt!Quiescent
  BY <1>1, BeginsQuiet
<1>3. \A p \in Ops : ~Active(p)
  BY <1>2, QuietIsIdle
<1>4. \A p \in Ops \ {o} : ~Active(p)'
  BY <1>1, <1>3 DEF Active, Pending, Announcing
<1>5. ~Settled(o)'
  BY <1>1 DEF Settled
<1>6. \A k \in Keys : Same(k)'
  BY <1>1, <1>2, AllSame DEF Same
<1>7. Stages'
  <2>1. \A p \in Ops : Announcing(p)' => Announcing(p)
    BY <1>1 DEF Announcing
  <2> QED
    BY <1>1, <2>1 DEF SerialInv, Stages
<1>8. Marks' /\ Reading'
  BY <1>1, <1>5, MgmtConstants DEF SerialInv, Marks, Reading, Settled
<1> QED
  BY <1>4, <1>5, <1>6, <1>7, <1>8 DEF SerialInv

\* A DELETE of what is not there.
LEMMA RemoveNothingSerial ==
    ASSUME TypeOK, TypeOK', MgmtInv, SerialInv, SerialStart, NEW o \in Ops,
           Mgmt!RemoveNothing(o)
    PROVE  SerialInv'
<1> USE DEF TypeOK
<1>1. /\ mgmt[o] = "idle" /\ mgmt' = [mgmt EXCEPT ![o] = "notFound"]
      /\ UNCHANGED <<cmd, taken, local, registry, gossip, applying, known>>
  BY DEF Mgmt!RemoveNothing, Mgmt!Arriving, Mgmt!Goto, Mgmt!busVars, Mgmt!loopVars
<1>2. \A p \in Ops : /\ Settled(p)' <=> Settled(p)
                     /\ mgmt'[p] = "read" => mgmt[p] = "read"
                     /\ Announcing(p)' <=> Announcing(p)
                     /\ Active(p)' <=> Active(p)
  BY <1>1 DEF Settled, Active, Pending, Announcing
<1>3. \A p \in Ops : Spreading(p) => Spreading(p)'
  BY <1>1, <1>2 DEF Pending, Spreading, Outcome
<1>4. Stages'
  BY <1>1, <1>2 DEF SerialInv, Stages
<1> QED
  BY <1>1, <1>2, <1>3, <1>4, MessageMoves

\* A DELETE: the entry is gone at home, and there everywhere else.
LEMMA RemoveSerial ==
    ASSUME TypeOK, TypeOK', MgmtInv, SerialInv, SerialStart, NEW o \in Ops, Mgmt!Remove(o)
    PROVE  SerialInv'
<1> USE DEF TypeOK
<1>0. PICK home \in Gateways, k \in Keys : home = Info[o].at /\ k = Info[o].key
  BY MgmtConstants
<1> DEFINE gone == [registry[home][k] EXCEPT !.deleted = "true"]
<1>1. /\ mgmt[o] = "idle" /\ mgmt' = [mgmt EXCEPT ![o] = "locking"]
      /\ Info[o].kind = "delete"
      /\ registry[home][k] # NoService
      /\ local' = [local EXCEPT ![o] = gone]
      /\ registry' = [registry EXCEPT ![home][k] = NoService]
      /\ UNCHANGED <<cmd, taken, gossip, applying, known>>
  BY <1>0
  DEF Mgmt!Remove, Mgmt!Arriving, Mgmt!Goto, Mgmt!At, Mgmt!Key, Mgmt!busVars, Mgmt!loopVars
<1> HIDE DEF gone
<1>2. Mgmt!Quiescent
  BY <1>1, BeginsQuiet
<1>3. \A p \in Ops : ~Active(p)
  BY <1>2, QuietIsIdle
<1>4. \A p \in Ops \ {o} : ~Active(p)'
  BY <1>1, <1>3 DEF Active, Pending, Announcing
<1>6. /\ registry'[home][k] = NoService
      /\ \A g \in Gateways, j \in Keys :
            g # home \/ j # k => registry'[g][j] = registry[g][j]
  BY <1>1
<1>7. \A j \in Keys : Same(j)
  BY <1>2, AllSame
<1>8. \A g \in Gateways \ {home} : registry'[g][k] # NoService
  BY <1>1, <1>6, <1>7 DEF Same
<1>9. \A g \in Gateways : applying[g] # o
  BY <1>3 DEF Active, Pending
<1>10. Active(o)' /\ Settled(o)' /\ \A g \in Gateways : Pending(o, g)'
  BY <1>0, <1>1 DEF Active, Pending, Announcing, Settled
<1>11. Spreading(o)'
  BY <1>0, <1>1, <1>6, <1>8, <1>9, <1>10 DEF Spreading, Outcome
<1>12. \A j \in Keys \ {k} : Same(j)'
  BY <1>6, <1>7 DEF Same
<1>13. Stages'
  <2>1. ~Settled(o)
    BY <1>1 DEF Settled
  <2>2. \A g \in Gateways : [to |-> g, by |-> o] \notin gossip
    BY <2>1 DEF MgmtInv, MgmtSettled
  <2>3. \A p \in Ops \ {o} : Announcing(p)' => Announcing(p)
    BY <1>1 DEF Announcing
  <2> QED
    BY <1>1, <1>9, <2>2, <2>3 DEF SerialInv, Stages
<1>14. Marked(gone)
  <2>1. registry[home][k] \in Mgmt!ServiceRecords
    BY <1>1
  <2>2. gone \in Mgmt!ServiceRecords /\ gone.deleted = "true"
    BY <2>1 DEF gone, Mgmt!ServiceRecords, Mgmt!Flags
  <2> QED
    BY <2>2, RegistryAssumption DEF Marked
<1>15. Marks'
  <2>1. \A p \in Ops : IF p = o THEN local'[p] = gone ELSE local'[p] = local[p] /\ mgmt'[p] = mgmt[p]
    BY <1>1
  <2>2. ASSUME NEW g \in Gateways, NEW j \in Keys PROVE ~Marked(registry'[g][j])
    <3>1. ~Marked(NoService)
      BY DEF Marked
    <3>2. registry'[g][j] = NoService \/ registry'[g][j] = registry[g][j]
      BY <1>6
    <3>3. ~Marked(registry[g][j])
      BY DEF SerialInv, Marks
    <3> QED
      BY <3>1, <3>2, <3>3
  <2> QED
    BY <1>1, <1>14, <2>1, <2>2, MgmtConstants DEF SerialInv, Marks, Settled, Marked
<1>16. Reading'
  <2>1. \A p \in Ops : mgmt'[p] # "read"
    BY <1>1, <1>3 DEF Active
  <2> QED
    BY <2>1 DEF Reading
<1> QED
  BY <1>0, <1>4, <1>10, <1>11, <1>12, <1>13, <1>15, <1>16 DEF SerialInv

\* What a POST without is_deleted stores is not marked.
LEMMA PutUnmarked ==
    ASSUME PlainBodies, NEW o \in Ops, NEW s \in Mgmt!ServiceRecords \cup {NoService}, ~Marked(s)
    PROVE  ~Marked(Mgmt!Put(s, o))
<1>1. Info[o].deleted # "true"
  BY DEF PlainBodies
<1>2. CASE s = NoService
  BY <1>1, <1>2 DEF Mgmt!Put, Mgmt!Create, Marked
<1>3. CASE s # NoService
  BY <1>1, <1>3 DEF Mgmt!Put, Mgmt!Update, Marked
<1> QED
  BY <1>2, <1>3

\* The second half of a POST: the entry is new at home, all others have the one
\* that was read.
LEMMA StoreSerial ==
    ASSUME PlainBodies, TypeOK, TypeOK', MgmtInv, SerialInv, NEW o \in Ops, Mgmt!Store(o)
    PROVE  SerialInv'
<1> USE DEF TypeOK
<1>0. PICK home \in Gateways, k \in Keys : home = Info[o].at /\ k = Info[o].key
  BY MgmtConstants
<1> DEFINE new == Mgmt!Put(local[o], o)
<1>1. /\ mgmt[o] = "read" /\ mgmt' = [mgmt EXCEPT ![o] = "locking"]
      /\ local' = [local EXCEPT ![o] = new]
      /\ registry' = [registry EXCEPT ![home][k] = new]
      /\ UNCHANGED <<cmd, taken, gossip, applying, known>>
  BY <1>0 DEF Mgmt!Store, Mgmt!Goto, Mgmt!At, Mgmt!Key, Mgmt!busVars, Mgmt!loopVars
<1>2. Info[o].kind = "put" /\ ~Marked(local[o])
  BY <1>1 DEF SerialInv, Reading, Marks
<1>3. ~Marked(new)
  BY <1>2, PutUnmarked
<1> HIDE DEF new
<1>4. Active(o) /\ ~Settled(o)
  BY <1>1 DEF Active, Settled
<1>5. \A p \in Ops \ {o} : ~Active(p)'
  <2>1. \A p \in Ops \ {o} : Active(p)' => Active(p)
    BY <1>1 DEF Active, Pending, Announcing
  <2> QED
    BY <1>4, <2>1 DEF SerialInv
<1>6. /\ registry'[home][k] = new
      /\ \A g \in Gateways, j \in Keys :
            g # home \/ j # k => registry'[g][j] = registry[g][j]
  BY <1>1
<1>7. \A j \in Keys \ {k} : Same(j)'
  BY <1>4, <1>6, OthersSame DEF Same
<1>8. Active(o)' /\ Settled(o)' /\ \A g \in Gateways : Pending(o, g)'
  BY <1>0, <1>1 DEF Active, Pending, Announcing, Settled
<1>9. Spreading(o)'
  BY <1>0, <1>1, <1>2, <1>6, <1>8 DEF Spreading, Outcome
<1>10. \A g \in Gateways : [to |-> g, by |-> o] \notin gossip /\ applying[g] # o
  BY <1>4, NoHandlerAssumption, MgmtConstants DEF MgmtInv, MgmtSettled
<1>11. Stages'
  <2>1. \A p \in Ops \ {o} : Announcing(p)' => Announcing(p)
    BY <1>1 DEF Announcing
  <2> QED
    BY <1>1, <1>10, <2>1 DEF SerialInv, Stages
<1>12. Marks'
  <2>1. \A p \in Ops : IF p = o THEN local'[p] = new ELSE local'[p] = local[p] /\ mgmt'[p] = mgmt[p]
    BY <1>1
  <2>2. ASSUME NEW g \in Gateways, NEW j \in Keys PROVE ~Marked(registry'[g][j])
    <3>1. registry'[g][j] = new \/ registry'[g][j] = registry[g][j]
      BY <1>6
    <3>2. ~Marked(registry[g][j])
      BY DEF SerialInv, Marks
    <3> QED
      BY <1>3, <3>1, <3>2
  <2>3. ASSUME NEW p \in Ops
        PROVE  /\ Info[p].kind = "put" => ~Marked(local'[p])
               /\ Info[p].kind = "delete" /\ Settled(p)' => Marked(local'[p])
    <3>1. CASE p = o
      BY <1>2, <1>3, <2>1, <3>1
    <3>2. CASE p # o
      <4>1. local'[p] = local[p] /\ (Settled(p)' <=> Settled(p))
        BY <2>1, <3>2 DEF Settled
      <4>2. /\ Info[p].kind = "put" => ~Marked(local[p])
            /\ Info[p].kind = "delete" /\ Settled(p) => Marked(local[p])
        BY DEF SerialInv, Marks
      <4> QED
        BY <4>1, <4>2
    <3> QED
      BY <3>1, <3>2
  <2> QED
    BY <2>2, <2>3 DEF Marks
<1>13. Reading'
  <2>1. \A p \in Ops : mgmt'[p] # "read"
    BY <1>1, <1>5 DEF Active
  <2> QED
    BY <2>1 DEF Reading
<1> QED
  BY <1>0, <1>5, <1>7, <1>8, <1>9, <1>11, <1>12, <1>13 DEF SerialInv

\* The handler on its way from the change to the answer, but for its messages.
LEMMA HandlerSerial ==
    ASSUME TypeOK, TypeOK', MgmtInv, SerialInv, NEW o \in Ops,
           \/ Mgmt!AcquireLock(o) \/ Mgmt!PushGossip(o) \/ Mgmt!PushListing(o)
           \/ Mgmt!Respond(o)
    PROVE  SerialInv'
<1> USE DEF TypeOK
<1>1. UNCHANGED <<taken, local, registry, gossip, applying, known>>
  BY DEF Mgmt!AcquireLock, Mgmt!PushGossip, Mgmt!PushListing, Mgmt!Respond, Mgmt!loopVars
<1>2. \E to \in {"publish", "flushGossip", "flushListing", "done"} :
         mgmt' = [mgmt EXCEPT ![o] = to]
  BY DEF Mgmt!AcquireLock, Mgmt!PushGossip, Mgmt!PushListing, Mgmt!Respond, Mgmt!Goto
<1>3. mgmt[o] \in {"locking", "publish", "flushGossip", "flushListing"}
  BY DEF Mgmt!AcquireLock, Mgmt!PushGossip, Mgmt!PushListing, Mgmt!Respond
<1>4. \A p \in Ops : Announcing(p)' <=> Announcing(p)
  <2>1. CASE Mgmt!AcquireLock(o)
    BY <1>1, <2>1 DEF Mgmt!AcquireLock, Mgmt!Goto, Announcing
  <2>2. CASE Mgmt!PushGossip(o)
    <3>1. /\ mgmt[o] = "publish" /\ mgmt' = [mgmt EXCEPT ![o] = "flushGossip"]
          /\ cmd[Info[o].at] = NoCmd
          /\ cmd' = [cmd EXCEPT ![Info[o].at] = Mgmt!GossipCmd(o)]
      BY <2>2, CommandFacts
      DEF Mgmt!PushGossip, Mgmt!Goto, Mgmt!Push, Mgmt!SlotFree, Mgmt!At
    <3>2. ASSUME NEW p \in Ops PROVE Announcing(p)' <=> Announcing(p)
      <4>1. cmd'[Info[p].at] =
                IF Info[p].at = Info[o].at THEN Mgmt!GossipCmd(o) ELSE cmd[Info[p].at]
        BY <3>1, MgmtConstants
      <4>2. NoCmd # Mgmt!GossipCmd(p) /\ (Mgmt!GossipCmd(o) = Mgmt!GossipCmd(p) <=> o = p)
        BY CommandFacts, MessagesApart
      <4>3. mgmt'[p] = IF p = o THEN mgmt'[o] ELSE mgmt[p]
        BY <3>1
      <4> QED
        BY <1>1, <3>1, <4>1, <4>2, <4>3 DEF Announcing
    <3> QED
      BY <3>2
  <2>3. CASE Mgmt!PushListing(o)
    <3>1. /\ mgmt[o] = "flushGossip" /\ mgmt' = [mgmt EXCEPT ![o] = "flushListing"]
          /\ cmd[Info[o].at] = NoCmd
          /\ cmd' = [cmd EXCEPT ![Info[o].at] = Mgmt!AddServiceCmd(o)]
      BY <2>3, CommandFacts
      DEF Mgmt!PushListing, Mgmt!Goto, Mgmt!Push, Mgmt!SlotFree, Mgmt!At
    <3>2. ASSUME NEW p \in Ops PROVE Announcing(p)' <=> Announcing(p)
      <4>1. cmd'[Info[p].at] =
                IF Info[p].at = Info[o].at THEN Mgmt!AddServiceCmd(o) ELSE cmd[Info[p].at]
        BY <3>1, MgmtConstants
      <4>2. NoCmd # Mgmt!GossipCmd(p) /\ Mgmt!AddServiceCmd(o) # Mgmt!GossipCmd(p)
        BY CommandFacts, MessagesApart
      <4>3. mgmt'[p] = IF p = o THEN mgmt'[o] ELSE mgmt[p]
        BY <3>1
      <4> QED
        BY <1>1, <3>1, <4>1, <4>2, <4>3 DEF Announcing
    <3> QED
      BY <3>2
  <2>4. CASE Mgmt!Respond(o)
    BY <1>1, <2>4 DEF Mgmt!Respond, Mgmt!Goto, Announcing
  <2> QED
    BY <2>1, <2>2, <2>3, <2>4
<1>5. \A p \in Ops, g \in Gateways : Pending(p, g)' <=> Pending(p, g)
  BY <1>1, <1>4 DEF Pending
<1>6. \A p \in Ops : /\ Settled(p)' <=> Settled(p)
                     /\ mgmt'[p] = "read" => mgmt[p] = "read"
  BY <1>2, <1>3 DEF Settled
<1>7. \A p \in Ops : Active(p)' => Active(p)
  <2>1. Active(o)
    BY <1>3, MgmtConstants DEF Active, Pending, Announcing
  <2>2. \A p \in Ops \ {o} : mgmt'[p] = mgmt[p]
    BY <1>2
  <2> QED
    BY <1>5, <2>1, <2>2 DEF Active
<1>8. \A p \in Ops : Spreading(p) => Spreading(p)'
  BY <1>1, <1>5 DEF Spreading, Outcome
<1>9. Stages'
  BY <1>1, <1>4 DEF SerialInv, Stages
<1> QED
  BY <1>1, <1>6, <1>7, <1>8, <1>9, MessageMoves

\* The loop receives a command: its message is still to be published.
LEMMA ReceiveSerial ==
    ASSUME TypeOK, TypeOK', MgmtInv, SerialInv, NEW g \in Gateways, Mgmt!ReceiveCommand(g)
    PROVE  SerialInv'
<1> USE DEF TypeOK
<1>1. /\ taken[g] = NoCmd /\ cmd' = [cmd EXCEPT ![g] = NoCmd]
      /\ taken' = [taken EXCEPT ![g] = cmd[g]]
      /\ UNCHANGED <<mgmt, local, registry, gossip, applying, known>>
  BY CommandFacts DEF Mgmt!ReceiveCommand, Mgmt!LoopIdle, Mgmt!Pop
<1>2. ASSUME NEW o \in Ops PROVE Announcing(o)' <=> Announcing(o)
  <2>1. /\ cmd'[Info[o].at] = IF Info[o].at = g THEN NoCmd ELSE cmd[Info[o].at]
        /\ taken'[Info[o].at] = IF Info[o].at = g THEN cmd[g] ELSE taken[Info[o].at]
    BY <1>1, MgmtConstants
  <2>2. NoCmd # Mgmt!GossipCmd(o)
    BY CommandFacts
  <2> QED
    BY <1>1, <2>1, <2>2 DEF Announcing
<1> QED
  BY <1>1, <1>2, SerialFrame

\* The loop lists a service: no message moves.
LEMMA ListSerial ==
    ASSUME TypeOK, TypeOK', MgmtInv, SerialInv, NEW g \in Gateways, Mgmt!ListService(g)
    PROVE  SerialInv'
<1> USE DEF TypeOK
<1>1. /\ taken[g].kind = "AddService" /\ taken' = [taken EXCEPT ![g] = NoCmd]
      /\ UNCHANGED <<cmd, mgmt, local, registry, gossip, applying, known>>
  BY CommandFacts DEF Mgmt!ListService, Mgmt!Executing, Mgmt!busVars
<1>2. \A o \in Ops : taken[g] # Mgmt!GossipCmd(o) /\ NoCmd # Mgmt!GossipCmd(o)
  BY <1>1, CommandFacts
<1>3. ASSUME NEW o \in Ops PROVE Announcing(o)' <=> Announcing(o)
  <2>1. taken'[Info[o].at] = IF Info[o].at = g THEN NoCmd ELSE taken[Info[o].at]
    BY <1>1, MgmtConstants
  <2> QED
    BY <1>1, <1>2, <2>1 DEF Announcing
<1> QED
  BY <1>1, <1>3, SerialFrame

\* The loop publishes the message of a change.
LEMMA PublishSerial ==
    ASSUME TypeOK, TypeOK', MgmtInv, SerialInv, NEW h \in Gateways, Mgmt!PublishGossip(h)
    PROVE  SerialInv'
<1> USE DEF TypeOK
<1>1. PICK o \in Ops : /\ taken[h] = Mgmt!GossipCmd(o) /\ taken[h].by = o
                       /\ Info[o].at = h /\ cmd[h] # Mgmt!GossipCmd(o)
                       /\ mgmt[o] \notin {"locking", "publish"}
  <2>1. taken[h] \in Mgmt!Commands /\ taken[h].kind = "PublishGossip"
    BY CommandFacts DEF Mgmt!PublishGossip, Mgmt!Executing
  <2>2. taken[h].by \in Ops /\ taken[h] = Mgmt!GossipCmd(taken[h].by)
    BY <2>1, CommandKinds
  <2>3. MgmtBus
    BY DEF MgmtInv
  <2> QED
    BY ONLY <2>2, <2>3 DEF MgmtBus
<1>2. /\ taken' = [taken EXCEPT ![h] = NoCmd]
      /\ gossip' = gossip \cup [to : Gateways \ {h}, by : {o}]
      /\ UNCHANGED <<cmd, mgmt, local, registry, applying, known>>
  BY <1>1, CommandFacts DEF Mgmt!PublishGossip, Mgmt!busVars
<1>3. ASSUME NEW p \in Ops PROVE Announcing(p)' <=> Announcing(p) /\ p # o
  <2>1. taken'[Info[p].at] = IF Info[p].at = h THEN NoCmd ELSE taken[Info[p].at]
    BY <1>2, MgmtConstants
  <2>2. NoCmd # Mgmt!GossipCmd(p)
    BY CommandFacts
  <2>3. Mgmt!GossipCmd(o) = Mgmt!GossipCmd(p) => o = p
    BY MessagesApart
  <2> QED
    BY <1>1, <1>2, <2>1, <2>2, <2>3 DEF Announcing
<1>4. Announcing(o)
  BY <1>1 DEF Announcing
<1>5. ASSUME NEW p \in Ops, NEW g \in Gateways
      PROVE  [to |-> g, by |-> p] \in gossip' <=>
                 [to |-> g, by |-> p] \in gossip \/ (p = o /\ g # h)
  BY <1>2
<1>6. ASSUME NEW p \in Ops, NEW g \in Gateways, g # Info[p].at
      PROVE  Pending(p, g)' <=> Pending(p, g)
  BY <1>1, <1>2, <1>3, <1>4, <1>5, <1>6 DEF Pending
<1>7. \A p \in Ops, g \in Gateways : Pending(p, g)' => Pending(p, g)
  BY <1>2, <1>3, <1>4, <1>5 DEF Pending
<1>8. \A p \in Ops : Active(p)' => Active(p)
  BY <1>2, <1>7 DEF Active
<1>9. ASSUME NEW p \in Ops, Spreading(p) PROVE Spreading(p)'
  BY <1>2, <1>6, <1>9 DEF Spreading, Outcome
<1>10. Stages'
  BY <1>2, <1>3, <1>4, <1>5 DEF SerialInv, Stages
<1> QED
  BY <1>2, <1>8, <1>9, <1>10, MessageMoves DEF Settled

\* The loop of a receiver takes the message, and knows the entry if it is a
\* deletion's.
LEMMA LookUpSerial ==
    ASSUME TypeOK, TypeOK', MgmtInv, SerialInv, NEW m \in gossip, Mgmt!LookUp(m)
    PROVE  SerialInv'
<1> USE DEF TypeOK
<1>1. PICK h \in Gateways, o \in Ops : m = [to |-> h, by |-> o] /\ m.to = h /\ m.by = o
  BY DEF Mgmt!Messages
<1>2. /\ applying[h] = NoHandler
      /\ gossip' = gossip \ {m}
      /\ applying' = [applying EXCEPT ![h] = o]
      /\ known' = [known EXCEPT ![h] = registry[h][Info[o].key] # NoService]
      /\ UNCHANGED <<cmd, taken, mgmt, local, registry>>
  BY <1>1 DEF Mgmt!LookUp, Mgmt!LoopIdle, Mgmt!Key, Mgmt!busVars
<1>3. \A p \in Ops : Announcing(p)' <=> Announcing(p)
  BY <1>2 DEF Announcing
<1>4. ASSUME NEW p \in Ops, NEW g \in Gateways
      PROVE  /\ [to |-> g, by |-> p] \in gossip' <=>
                    [to |-> g, by |-> p] \in gossip /\ ~(p = o /\ g = h)
             /\ applying'[g] = p <=> applying[g] = p \/ (p = o /\ g = h)
  <2>1. [to |-> g, by |-> p] = m <=> p = o /\ g = h
    BY <1>1
  <2>2. applying[h] # p
    BY <1>2, MgmtConstants
  <2> QED
    BY <1>2, <2>1, <2>2
<1>5. ASSUME NEW p \in Ops, NEW g \in Gateways
      PROVE  Pending(p, g)' <=> Pending(p, g)
  BY <1>1, <1>3, <1>4 DEF Pending
<1>6. \A p \in Ops : Active(p)' => Active(p)
  BY <1>2, <1>5 DEF Active
<1>7. ASSUME NEW p \in Ops, Spreading(p) PROVE Spreading(p)'
  <2> SUFFICES ASSUME NEW g \in Gateways, g # Info[p].at, Pending(p, g),
                      Info[p].kind = "delete", applying'[g] = p
               PROVE  known'[g]
    BY <1>2, <1>5, <1>7 DEF Spreading, Outcome
  <2>1. registry[g][Info[p].key] # NoService /\ (applying[g] = p => known[g])
    BY <1>7 DEF Spreading
  <2>2. CASE g = h
    <3>1. p = o
      BY <1>2, <2>2
    <3>2. known'[h] = (registry[h][Info[o].key] # NoService)
      BY <1>2
    <3> QED
      BY <2>1, <2>2, <3>1, <3>2
  <2>3. CASE g # h
    <3>1. applying[g] = p /\ known'[g] = known[g]
      BY <1>2, <2>3
    <3> QED
      BY <2>1, <3>1
  <2> QED
    BY <2>2, <2>3
<1>8. Stages'
  <2>1. ASSUME NEW p \in Ops, NEW g \in Gateways
        PROVE  /\ Announcing(p)' => [to |-> g, by |-> p] \notin gossip' /\ applying'[g] # p
               /\ [to |-> g, by |-> p] \in gossip' => applying'[g] # p
    <3>1. /\ Announcing(p) => [to |-> g, by |-> p] \notin gossip /\ applying[g] # p
          /\ [to |-> g, by |-> p] \in gossip => applying[g] # p
      BY DEF SerialInv, Stages
    <3> QED
      BY <1>1, <1>3, <1>4, <3>1
  <2> QED
    BY <2>1 DEF Stages
<1> QED
  BY <1>2, <1>6, <1>7, <1>8, MessageMoves DEF Settled

\* It applies the message: the entry becomes the outcome of the change.
LEMMA ApplySerial ==
    ASSUME TypeOK, TypeOK', MgmtInv, SerialInv, NEW h \in Gateways, Mgmt!Apply(h)
    PROVE  SerialInv'
<1> USE DEF TypeOK
<1>1. PICK o \in Ops : applying[h] = o
  BY DEF Mgmt!Apply
<1>2. PICK k \in Keys : k = Info[o].key
  BY MgmtConstants
<1>3. Settled(o) /\ Info[o].at # h /\ local[o] # NoService
  BY <1>1, MgmtConstants DEF MgmtInv, MgmtSettled
<1>4. Pending(o, h) /\ Active(o)
  BY <1>1 DEF Pending, Active
<1>5. Spreading(o)
  BY <1>3, <1>4 DEF SerialInv
<1>6. IF Info[o].kind = "delete" THEN known[h] /\ Marked(local[o]) ELSE ~Marked(local[o])
  <2>1. CASE Info[o].kind = "delete"
    BY <1>1, <1>3, <1>4, <1>5, <2>1 DEF Spreading, SerialInv, Marks
  <2>2. CASE Info[o].kind = "put"
    BY <2>2 DEF SerialInv, Marks
  <2> QED
    BY <2>1, <2>2, MgmtConstants
<1>7. (IF known[h] /\ local[o].deleted = "true" THEN NoService ELSE local[o]) = Outcome(o)
  BY <1>3, <1>6 DEF Outcome, Marked
<1>8. /\ registry' = [registry EXCEPT ![h][k] = Outcome(o)]
      /\ applying' = [applying EXCEPT ![h] = NoHandler]
      /\ UNCHANGED <<cmd, taken, mgmt, local, gossip, known>>
  BY <1>1, <1>2, <1>7 DEF Mgmt!Apply, Mgmt!Key, Mgmt!busVars
<1>9. /\ registry'[h][k] = Outcome(o)
      /\ \A g \in Gateways, j \in Keys :
            g # h \/ j # k => registry'[g][j] = registry[g][j]
  BY <1>8
<1>10. \A p \in Ops : (Announcing(p)' <=> Announcing(p)) /\ (Settled(p)' <=> Settled(p))
  BY <1>8 DEF Announcing, Settled
<1>11. ~Announcing(o) /\ [to |-> h, by |-> o] \notin gossip
  BY <1>1 DEF SerialInv, Stages
<1>12. ASSUME NEW p \in Ops, NEW g \in Gateways
       PROVE  Pending(p, g)' <=> Pending(p, g) /\ ~(p = o /\ g = h)
  <2>1. applying'[g] = p <=> applying[g] = p /\ g # h
    BY <1>8, MgmtConstants
  <2> QED
    BY <1>1, <1>8, <1>10, <1>11, <2>1 DEF Pending
<1>13. \A p \in Ops : Active(p)' => p = o
  <2>1. \A p \in Ops : Active(p)' => Active(p)
    BY <1>8, <1>12 DEF Active
  <2> QED
    BY <1>4, <2>1 DEF SerialInv
<1>14. Spreading(o)'
  <2> SUFFICES ASSUME NEW g \in Gateways
               PROVE  /\ g = Info[o].at \/ ~Pending(o, g)' => registry'[g][k] = Outcome(o)
                      /\ g # Info[o].at /\ Pending(o, g)' /\ Info[o].kind = "delete" =>
                            /\ registry'[g][k] # NoService
                            /\ applying'[g] = o => known'[g]
    BY <1>2, <1>8 DEF Spreading, Outcome
  <2>1. CASE g = h
    BY <1>3, <1>9, <1>12, <2>1
  <2>2. CASE g # h
    <3>1. registry'[g][k] = registry[g][k] /\ applying'[g] = applying[g]
      BY <1>8, <1>9, <2>2
    <3>2. Pending(o, g)' <=> Pending(o, g)
      BY <1>12, <2>2
    <3> QED
      BY <1>2, <1>5, <1>8, <3>1, <3>2 DEF Spreading
  <2> QED
    BY <2>1, <2>2
<1>15. \A j \in Keys \ {k} : Same(j)'
  BY <1>2, <1>4, <1>9, OthersSame DEF Same
<1>16. Same(k)' \/ Active(o)'
  <2>1. ASSUME ~Active(o)' PROVE Same(k)'
    <3>1. \A g \in Gateways : registry'[g][k] = Outcome(o)'
      BY <1>2, <1>14, <2>1 DEF Spreading, Active
    <3> QED
      BY <3>1 DEF Same
  <2> QED
    BY <2>1
<1>17. Stages'
  <2>1. \A p \in Ops, g \in Gateways : applying'[g] = p => applying[g] = p
    BY <1>8, MgmtConstants
  <2> QED
    BY <1>8, <1>10, <2>1 DEF SerialInv, Stages
<1>18. Marks'
  <2>1. ASSUME NEW g \in Gateways, NEW j \in Keys PROVE ~Marked(registry'[g][j])
    <3>1. ~Marked(Outcome(o))
      BY <1>6 DEF Outcome, Marked
    <3>2. registry'[g][j] = Outcome(o) \/ registry'[g][j] = registry[g][j]
      BY <1>9
    <3>3. ~Marked(registry[g][j])
      BY DEF SerialInv, Marks
    <3> QED
      BY <3>1, <3>2, <3>3
  <2> QED
    BY <1>8, <1>10, <2>1 DEF SerialInv, Marks, Marked
<1>19. Reading'
  <2>1. ASSUME NEW p \in Ops, mgmt'[p] = "read" PROVE FALSE
    <3>1. Active(p)' /\ ~Settled(p)
      BY <1>8, <2>1 DEF Active, Settled
    <3> QED
      BY <1>3, <1>13, <3>1
  <2> QED
    BY <2>1 DEF Reading
<1> QED
  BY <1>2, <1>3, <1>10, <1>13, <1>14, <1>15, <1>16, <1>17, <1>18, <1>19 DEF SerialInv

-----------------------------------------------------------------------------
(* Convergence. *)

\* No handler panics where the bus works.
LEMMA MgmtSerial ==
    ASSUME PlainBodies, TypeOK, TypeOK', MgmtInv, SerialInv, SerialStart, Works', MgmtNext
    PROVE  SerialInv'
<1>1. ASSUME NEW o \in Ops, Mgmt!LockPanics(o) \/ Mgmt!HandlerPanics(o) PROVE FALSE
  <2>1. Info[o].at \in Gateways
    BY MgmtConstants
  <2>2. poisoned'[Info[o].at]
    BY <1>1, <2>1
    DEF TypeOK, Mgmt!LockPanics, Mgmt!AcquireFails, Mgmt!HandlerPanics,
        Mgmt!PanicWithGuard, Mgmt!At, Mgmt!busVars
  <2> QED
    BY <2>1, <2>2 DEF Works, BusWorks
<1> QED
  BY <1>1, ReadSerial, RemoveSerial, RemoveNothingSerial, StoreSerial, HandlerSerial,
     ReceiveSerial, PublishSerial, ListSerial, ApplySerial, LookUpSerial
  DEF MgmtNext

\* Forwarding moves no message and no change, as long as it ends no loop.
LEMMA FwdSerial ==
    ASSUME TypeOK, TypeOK', FwdInv, SerialInv, Works', FwdNext
    PROVE  SerialInv'
<1>1. UNCHANGED <<taken, mgmt, local, registry, gossip, applying, known>>
  BY DEF FwdNext, registryVars
<1>2. ASSUME NEW o \in Ops PROVE Announcing(o)' <=> Announcing(o)
  <2>1. Info[o].at \in Gateways
    BY MgmtConstants
  <2>2. net'[Info[o].at] # "dead"
    BY <2>1 DEF Works, BusWorks, Alive
  <2>3. \/ cmd'[Info[o].at] = cmd[Info[o].at]
        \/ cmd[Info[o].at] \notin Mgmt!Commands /\ cmd'[Info[o].at] \notin Mgmt!Commands
    BY <2>1, <2>2, FwdLeavesMgmt DEF MgmtUntouched
  <2>4. Mgmt!GossipCmd(o) \in Mgmt!Commands
    BY CommandFacts
  <2> QED
    BY <1>1, <2>3, <2>4 DEF Announcing
<1> QED
  BY <1>1, <1>2, SerialFrame

\* At the start the preloaded services are the same everywhere.
LEMMA InitSerialInv == PlainBodies /\ Init => SerialInv
<1> SUFFICES ASSUME PlainBodies, Init PROVE SerialInv
  OBVIOUS
<1>1. /\ mgmt = [o \in Ops |-> IF o \in Preloaded THEN "done" ELSE "idle"]
      /\ local = [o \in Ops |-> IF o \in Preloaded THEN Mgmt!Create(o) ELSE NoService]
      /\ registry = [g \in Gateways |-> [k \in Keys |-> Mgmt!Preload(k)]]
      /\ gossip = {}
      /\ applying = [g \in Gateways |-> NoHandler]
      /\ cmd = [g \in Gateways |-> NoCmd] /\ taken = [g \in Gateways |-> NoCmd]
  BY DEF Init, Mgmt!Init, Mgmt!BusInit, Mgmt!NoCmd, NoCmd
<1>2. \A o \in Ops : ~Announcing(o)
  BY <1>1, MgmtConstants, CommandFacts DEF Announcing
<1>3. \A o \in Ops, g \in Gateways : ~Pending(o, g)
  BY <1>1, <1>2, MgmtConstants DEF Pending
<1>4. \A o \in Ops : ~Active(o)
  BY <1>1, <1>3 DEF Active
<1>5. \A k \in Keys : Same(k)
  BY <1>1 DEF Same
<1>6. \A o \in Ops : ~Marked(Mgmt!Create(o))
  BY DEF PlainBodies, Mgmt!Create, Marked
<1>7. ~Marked(NoService)
  BY DEF Marked
<1>8. Marks
  <2>1. \A o \in Ops : ~Marked(local[o])
    BY <1>1, <1>6, <1>7
  <2>2. \A o \in Ops : Info[o].kind = "delete" => ~Settled(o)
    BY <1>1, RegistryAssumption DEF Settled
  <2>3. \A g \in Gateways, k \in Keys : ~Marked(registry[g][k])
    BY <1>1, <1>6, <1>7, PreloadFacts
  <2> QED
    BY <2>1, <2>2, <2>3 DEF Marks
<1>9. Stages /\ Reading
  BY <1>1, <1>2, <1>4 DEF Stages, Reading, Active
<1> QED
  BY <1>4, <1>5, <1>8, <1>9 DEF SerialInv

\* Both servers keep the invariant as long as changes are serial and buses work.
LEMMA HistoryStep ==
    ASSUME PlainBodies, GInv, GInv', HInv, [HistoryNext]_historyVars
    PROVE  HInv'
<1> SUFFICES ASSUME serial', Works' PROVE SerialInv'
  BY DEF HInv
<1>1. CASE HistoryNext
  <2>1. Next /\ serial /\ SerialStart
    BY <1>1 DEF HistoryNext
  <2>2. Works
    BY <2>1, WorksBefore
  <2>3. SerialInv
    BY <2>1, <2>2 DEF HInv
  <2> QED
    BY <2>1, <2>3, Steps, MgmtSerial, FwdSerial DEF GInv
<1>2. CASE UNCHANGED historyVars
  <2>1. UNCHANGED vars /\ serial' = serial
    BY <1>2 DEF historyVars
  <2>2. UNCHANGED <<mgmt, local, registry, gossip, taken, applying, known, cmd>>
    BY <2>1 DEF vars, busVars, registryVars
  <2>3. Works
    BY <2>1, WorksBefore
  <2>4. SerialInv
    BY <2>1, <2>3 DEF HInv
  <2> QED
    BY <2>2, <2>4, SerialFrame DEF Announcing
<1> QED
  BY <1>1, <1>2

\* When changes are made one at a time and have spread, all gateways show the
\* same services, unless a bus was put out of use on the way.
THEOREM ConvergedWhenSerial == PlainBodies => (HistorySpec => []ConvergedIfSerial)
<1> SUFFICES ASSUME PlainBodies PROVE HistorySpec => []ConvergedIfSerial
  OBVIOUS
<1>1. HistoryInit => GInv /\ HInv
  BY InitGInv, InitSerialInv DEF HistoryInit, HInv
<1>2. GInv /\ HInv /\ [HistoryNext]_historyVars => GInv' /\ HInv'
  <2> SUFFICES ASSUME GInv, HInv, [HistoryNext]_historyVars PROVE GInv' /\ HInv'
    OBVIOUS
  <2>1. [Next]_vars
    BY DEF HistoryNext, historyVars
  <2>2. GInv'
    BY <2>1, InductiveStep
  <2> QED
    BY <2>2, HistoryStep
<1>3. GInv /\ HInv => ConvergedIfSerial
  <2> SUFFICES ASSUME GInv, HInv, serial, Mgmt!Quiescent, Works,
                      NEW g \in Gateways, NEW h \in Gateways
               PROVE  registry[g] = registry[h]
    BY DEF ConvergedIfSerial, Works
  <2>1. \A k \in Keys : registry[g][k] = registry[h][k]
    BY AllSame DEF GInv, HInv, Same
  <2> QED
    BY <2>1 DEF GInv, TypeOK
<1> QED
  BY <1>1, <1>2, <1>3, PTL DEF HistorySpec
=============================================================================
