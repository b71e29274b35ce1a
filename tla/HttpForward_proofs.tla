------------------------- MODULE HttpForward_proofs -------------------------
(***************************************************************************)
(* Proofs about HttpForward, for any set of gateways, requests, workers    *)
(* and services and any set of faults.                                     *)
(***************************************************************************)
EXTENDS HttpForward, TLAPS

\* What the constants promise.
LEMMA HomeType == \A r \in Requests : Home[r] \in Gateways /\ r # NoHandler
BY PlacementAssumption, RequestsAssumption, NoHandlerAssumption

\* Commands are records, told apart from an empty slot.
LEMMA CommandTypes ==
    /\ \A r \in Requests : SendRequestCmd(r) \in Commands /\ SubmitUsageCmd(r) \in Commands
    /\ NoCmd \notin Commands
    /\ \A c \in Commands : c.by \in Requests /\ c.kind \in {"SendRequest", "SubmitUsage"}
BY DEF SendRequestCmd, SubmitUsageCmd, Commands, NoCmd

\* A command names its kind and its request.
LEMMA CommandFacts ==
    /\ \A r \in Requests : SendRequestCmd(r).by = r /\ SubmitUsageCmd(r).by = r
    /\ \A q, r \in Requests : SendRequestCmd(q) # SubmitUsageCmd(r)
    /\ \A r \in Requests : SendRequestCmd(r).kind = "SendRequest" /\ SubmitUsageCmd(r).kind = "SubmitUsage"
    /\ \A c \in Commands :
          /\ c.kind = "SendRequest" => c = SendRequestCmd(c.by)
          /\ c.kind = "SubmitUsage" => c = SubmitUsageCmd(c.by)
BY DEF SendRequestCmd, SubmitUsageCmd, Commands

\* A message names its schema and its request.
LEMMA MessageFacts ==
    \A q, r \in Requests :
        /\ RequestMsg(q) = RequestMsg(r) => q = r
        /\ ResponseMsg(q) = ResponseMsg(r) => q = r
        /\ RequestMsg(q) # ResponseMsg(r)
BY DEF RequestMsg, ResponseMsg

\* The two kinds of messages are messages.
LEMMA MessageTypes ==
    \A r \in Requests : RequestMsg(r) \in Messages /\ ResponseMsg(r) \in Messages
BY DEF RequestMsg, ResponseMsg, Messages

\* Types at the start.
LEMMA InitTypeOK == Init => TypeOK
BY CatalogAssumption DEF Init, BusInit, TypeOK, PcStates

\* Every action keeps the types.
LEMMA NextTypeOK == TypeOK /\ [Next]_vars => TypeOK'
<1> SUFFICES ASSUME TypeOK, [Next]_vars PROVE TypeOK'
  OBVIOUS
<1> USE HomeType, CommandTypes, MessageTypes
    DEF TypeOK, PcStates, Listening, Holding, Done, Goto
<1>1. ASSUME NEW r \in Requests, Refuse(r) PROVE TypeOK'
  BY <1>1 DEF Refuse, busVars
<1>0. ASSUME NEW r \in Requests, ParsePanics(r) PROVE TypeOK'
  BY <1>0 DEF ParsePanics, busVars
<1>2. ASSUME NEW r \in Requests, Accept(r) PROVE TypeOK'
  BY <1>2 DEF Accept, busVars
<1>3. ASSUME NEW r \in Requests, Disconnect(r) PROVE TypeOK'
  BY <1>3 DEF Disconnect, Release
<1>4. ASSUME NEW r \in Requests, AcquireLock(r) PROVE TypeOK'
  BY <1>4, RequestsAssumption DEF AcquireLock, Acquire
<1>5. ASSUME NEW r \in Requests, LockPanics(r) PROVE TypeOK'
  BY <1>5 DEF LockPanics, busVars
<1>6. ASSUME NEW r \in Requests, PushRequest(r) PROVE TypeOK'
  BY <1>6 DEF PushRequest, Push
<1>7. ASSUME NEW r \in Requests, PushUsage(r) PROVE TypeOK'
  BY <1>7 DEF PushUsage, Push
<1>8. ASSUME NEW r \in Requests, PushPanics(r) PROVE TypeOK'
  BY <1>8 DEF PushPanics, PanicWithGuard, Release
<1>9. ASSUME NEW r \in Requests, FlushUsage(r) PROVE TypeOK'
  BY <1>9 DEF FlushUsage, busVars
<1>10. ASSUME NEW r \in Requests, ReceiveResponse(r) PROVE TypeOK'
  BY <1>10 DEF ReceiveResponse, Release
<1>11. ASSUME NEW g \in Gateways, TakeSendRequest(g) PROVE TypeOK'
  BY <1>11 DEF TakeSendRequest, Pop, SlotFree, Outgoing
<1>12. ASSUME NEW g \in Gateways, TakeSubmitUsage(g) PROVE TypeOK'
  BY <1>12 DEF TakeSubmitUsage, Pop, SlotFree
<1>13. ASSUME NEW g \in Gateways, ContractPanics(g) PROVE TypeOK'
  BY <1>13 DEF ContractPanics, LoopDies, LoopPanics
<1>14. ASSUME NEW r \in Requests, ServeHttp(r) PROVE TypeOK'
  BY <1>14 DEF ServeHttp, busVars
<1>15. ASSUME NEW r \in Requests, LookupPanics(r) PROVE TypeOK'
  BY <1>15 DEF LookupPanics, LoopDies, LoopPanics
<1>16. ASSUME NEW r \in Requests, ServePanics(r) PROVE TypeOK'
  <2>1. served' \in [Requests -> Nat]
    BY <1>16 DEF ServePanics
  <2>2. /\ net' \in [Gateways -> {"running", "dead"}]
        /\ cmd' \in [Gateways -> Commands \cup {NoCmd}]
    BY <1>16 DEF ServePanics, LoopDies, LoopPanics
  <2>3. wire' \subseteq Messages
    BY <1>16 DEF ServePanics
  <2> QED
    BY <1>16, <2>1, <2>2, <2>3 DEF ServePanics, LoopDies
<1>17. ASSUME NEW r \in Requests, Deliver(r) PROVE TypeOK'
  BY <1>17 DEF Deliver, busVars
<1>18. ASSUME NEW r \in Requests, DeliverPanics(r) PROVE TypeOK'
  BY <1>18 DEF DeliverPanics, LoopDies, LoopPanics
<1>19. ASSUME NEW m \in wire, Lose(m) PROVE TypeOK'
  BY <1>19 DEF Lose, busVars
<1>20. ASSUME NEW g \in Gateways, NEW s \in Services, Withdraw(g, s) PROVE TypeOK'
  BY <1>20 DEF Withdraw, busVars
<1>21. CASE UNCHANGED vars
  BY <1>21 DEF vars
<1>22. QED
  BY <1>0, <1>1, <1>2, <1>3, <1>4, <1>5, <1>6, <1>7, <1>8, <1>9, <1>10, <1>11,
     <1>12, <1>13, <1>14, <1>15, <1>16, <1>17, <1>18, <1>19, <1>20, <1>21
  DEF Next, HandlerStep, TakeCommand, HandleRequest, HandleResponse

\* The variables keep their types.
THEOREM TypeCorrect == Spec => []TypeOK
BY InitTypeOK, NextTypeOK, PTL DEF Spec

-----------------------------------------------------------------------------
(* The inductive invariant. *)

\* The invariant holds at the start.
LEMMA InitIInv == Init => IInv
BY InitTypeOK, HomeType, CommandFacts, ModeAssumption
DEF Init, BusInit, IInv, BusOwned, GuardMatchesHandler, LoopWaitsForHolder,
    OnePlace, Charged, Registered, ServedAtMostOnce,
    AnsweredIsServedAndBilled, PoisonedOnlyWhenDead, Ended, Quiet, SlotFree,
    Alive, Holding, Unsent, Charge, NoCmd

\* IInv is inductive: one step per action, and under it the conjuncts that the
\* action could disturb.
LEMMA Inductive == IInv /\ [Next]_vars /\ TypeOK' => IInv'
<1> SUFFICES ASSUME IInv, [Next]_vars, TypeOK' PROVE IInv'
  OBVIOUS
<1> USE HomeType, CommandTypes, CommandFacts, MessageFacts, ProviderAssumption
    DEF IInv, TypeOK, PcStates, Listening, Holding, Done, Unsent, Charge, Goto,
        Alive, SlotFree
<1>1. ASSUME NEW r \in Requests, Refuse(r) PROVE IInv'
  BY <1>1, SMTT(20) DEF Refuse, Arriving, busVars, BusOwned,
                        GuardMatchesHandler, LoopWaitsForHolder, OnePlace,
                        Charged, Registered, ServedAtMostOnce,
                        AnsweredIsServedAndBilled, PoisonedOnlyWhenDead,
                        Ended, Quiet
<1>0. ASSUME NEW r \in Requests, ParsePanics(r) PROVE IInv'
  BY <1>0, SMTT(20) DEF ParsePanics, Arriving, busVars, BusOwned,
                        GuardMatchesHandler, LoopWaitsForHolder, OnePlace,
                        Charged, Registered, ServedAtMostOnce,
                        AnsweredIsServedAndBilled, PoisonedOnlyWhenDead,
                        Ended, Quiet
\* The session is there from now on; nothing has been sent.
<1>2. ASSUME NEW r \in Requests, Accept(r) PROVE IInv'
  <2>1. OnePlace'
    BY <1>2 DEF Accept, Arriving, busVars, OnePlace
  <2>2. Registered'
    BY <1>2 DEF Accept, Arriving, busVars, Registered
  <2>3. Quiet'
    BY <1>2 DEF Accept, Arriving, busVars, Quiet
  <2> QED
    BY <1>2, <2>1, <2>2, <2>3, SMTT(20)
    DEF Accept, Arriving, busVars, BusOwned, GuardMatchesHandler,
        LoopWaitsForHolder, Charged, ServedAtMostOnce,
        AnsweredIsServedAndBilled, PoisonedOnlyWhenDead, Ended
\* The guard and a pending handover end together; the command may stay in the
\* slot.
<1>3. ASSUME NEW r \in Requests, Disconnect(r) PROVE IInv'
  <2>1. GuardMatchesHandler'
    BY <1>3 DEF Disconnect, Release, GuardMatchesHandler
  <2>2. LoopWaitsForHolder'
    BY <1>3 DEF Disconnect, Release, BusOwned, GuardMatchesHandler,
                LoopWaitsForHolder
  <2>3. OnePlace'
    BY <1>3 DEF Disconnect, Release, OnePlace
  <2>4. Charged'
    BY <1>3 DEF Disconnect, Release, Charged
  <2>5. Ended'
    BY <1>3 DEF Disconnect, Release, Ended
  <2> QED
    BY <1>3, <2>1, <2>2, <2>3, <2>4, <2>5, SMTT(20)
    DEF Disconnect, Release, BusOwned, Registered, ServedAtMostOnce,
        AnsweredIsServedAndBilled, PoisonedOnlyWhenDead, Quiet
\* No loop waits for a handler while the mutex is free, so none waits for
\* another one now.
<1>4. ASSUME NEW r \in Requests, AcquireLock(r) PROVE IInv'
  <2>1. BusOwned'
    BY <1>4 DEF AcquireLock, Acquire, BusOwned
  <2>2. GuardMatchesHandler'
    BY <1>4 DEF AcquireLock, Acquire, GuardMatchesHandler
  <2>3. LoopWaitsForHolder'
    BY <1>4 DEF AcquireLock, Acquire, LoopWaitsForHolder
  <2> QED
    BY <1>4, <2>1, <2>2, <2>3, SMTT(20)
    DEF AcquireLock, Acquire, OnePlace, Charged, Registered,
        ServedAtMostOnce, AnsweredIsServedAndBilled, PoisonedOnlyWhenDead,
        Ended, Quiet
<1>5. ASSUME NEW r \in Requests, LockPanics(r) PROVE IInv'
  BY <1>5, SMTT(20) DEF LockPanics, AcquireFails, busVars, BusOwned,
                        GuardMatchesHandler, LoopWaitsForHolder, OnePlace,
                        Charged, Registered, ServedAtMostOnce,
                        AnsweredIsServedAndBilled, PoisonedOnlyWhenDead,
                        Ended, Quiet
\* The holder is the only one whose command can be in the slot.
<1>6. ASSUME NEW r \in Requests, PushRequest(r) PROVE IInv'
  <2>1. BusOwned'
    BY <1>6 DEF PushRequest, Push, BusOwned
  <2>2. OnePlace'
    BY <1>6 DEF PushRequest, Push, OnePlace
  <2>3. Charged'
    BY <1>6 DEF PushRequest, Push, BusOwned, GuardMatchesHandler,
                LoopWaitsForHolder, OnePlace, Charged
  <2> QED
    BY <1>6, <2>1, <2>2, <2>3, SMTT(20)
    DEF PushRequest, Push, GuardMatchesHandler, LoopWaitsForHolder,
        Registered, ServedAtMostOnce, AnsweredIsServedAndBilled,
        PoisonedOnlyWhenDead, Ended, Quiet
\* The slot was free: the request has left it.
<1>7. ASSUME NEW r \in Requests, PushUsage(r) PROVE IInv'
  <2>1. BusOwned'
    BY <1>7 DEF PushUsage, Push, BusOwned
  <2>2. OnePlace'
    BY <1>7 DEF PushUsage, Push, OnePlace
  <2>3. Charged'
    BY <1>7 DEF PushUsage, Push, Charged
  <2> QED
    BY <1>7, <2>1, <2>2, <2>3, SMTT(20)
    DEF PushUsage, Push, GuardMatchesHandler, LoopWaitsForHolder, Registered,
        ServedAtMostOnce, AnsweredIsServedAndBilled, PoisonedOnlyWhenDead,
        Ended, Quiet
\* A push fails only when the loop is dead.
<1>8. ASSUME NEW r \in Requests, PushPanics(r) PROVE IInv'
  <2>1. GuardMatchesHandler'
    BY <1>8 DEF PushPanics, PanicWithGuard, Release, GuardMatchesHandler
  <2>2. LoopWaitsForHolder'
    BY <1>8 DEF PushPanics, PanicWithGuard, Release, BusOwned,
                GuardMatchesHandler, LoopWaitsForHolder
  <2>3. PoisonedOnlyWhenDead'
    BY <1>8 DEF PushPanics, PanicWithGuard, Release, PoisonedOnlyWhenDead
  <2>4. Ended'
    BY <1>8 DEF PushPanics, PanicWithGuard, Release, Ended
  <2> QED
    BY <1>8, <2>1, <2>2, <2>3, <2>4, SMTT(20)
    DEF PushPanics, PanicWithGuard, Release, BusOwned, OnePlace, Charged,
        Registered, ServedAtMostOnce, AnsweredIsServedAndBilled, Quiet
\* An empty slot means a charge made, or a dead loop.
<1>9. ASSUME NEW r \in Requests, FlushUsage(r) PROVE IInv'
  <2>1. Charged'
    BY <1>9 DEF FlushUsage, busVars, Charged
  <2> QED
    BY <1>9, <2>1, SMTT(20)
    DEF FlushUsage, busVars, BusOwned, GuardMatchesHandler,
        LoopWaitsForHolder, OnePlace, Registered, ServedAtMostOnce,
        AnsweredIsServedAndBilled, PoisonedOnlyWhenDead, Ended, Quiet
\* A loop that hands over is alive, so the charge was made.
<1>10. ASSUME NEW r \in Requests, ReceiveResponse(r) PROVE IInv'
  <2>1. GuardMatchesHandler'
    BY <1>10 DEF ReceiveResponse, Release, GuardMatchesHandler
  <2>2. LoopWaitsForHolder'
    BY <1>10 DEF ReceiveResponse, Release, LoopWaitsForHolder
  <2>3. OnePlace'
    BY <1>10 DEF ReceiveResponse, Release, OnePlace
  <2>4. AnsweredIsServedAndBilled'
    BY <1>10 DEF ReceiveResponse, Release, BusOwned, GuardMatchesHandler,
                 LoopWaitsForHolder, OnePlace, Charged,
                 AnsweredIsServedAndBilled, Ended
  <2>5. Ended'
    BY <1>10 DEF ReceiveResponse, Release, BusOwned, GuardMatchesHandler,
                 LoopWaitsForHolder, OnePlace, Ended
  <2> QED
    BY <1>10, <2>1, <2>2, <2>3, <2>4, <2>5, SMTT(20)
    DEF ReceiveResponse, Release, BusOwned, Charged, Registered,
        ServedAtMostOnce, PoisonedOnlyWhenDead, Quiet
\* From the slot to the wire.
<1>11. ASSUME NEW g \in Gateways, TakeSendRequest(g) PROVE IInv'
  <2>1. BusOwned'
    BY <1>11 DEF TakeSendRequest, Pop, Outgoing, LoopIdle, BusOwned
  <2>2. OnePlace'
    BY <1>11 DEF TakeSendRequest, Pop, Outgoing, LoopIdle, BusOwned,
                 GuardMatchesHandler, OnePlace
  <2>3. Charged'
    BY <1>11 DEF TakeSendRequest, Pop, Outgoing, LoopIdle, Charged
  <2>4. Ended'
    BY <1>11 DEF TakeSendRequest, Pop, Outgoing, LoopIdle, Ended
  <2> QED
    BY <1>11, <2>1, <2>2, <2>3, <2>4, SMTT(20)
    DEF TakeSendRequest, Pop, Outgoing, LoopIdle, GuardMatchesHandler,
        LoopWaitsForHolder, Registered, ServedAtMostOnce,
        AnsweredIsServedAndBilled, PoisonedOnlyWhenDead, Quiet
\* The command in the slot is the first charge of its request.
<1>12. ASSUME NEW g \in Gateways, TakeSubmitUsage(g) PROVE IInv'
  <2>1. BusOwned'
    BY <1>12 DEF TakeSubmitUsage, Pop, LoopIdle, BusOwned
  <2>2. OnePlace'
    BY <1>12 DEF TakeSubmitUsage, Pop, LoopIdle, BusOwned,
                 GuardMatchesHandler, OnePlace
  <2>3. Charged'
    BY <1>12 DEF TakeSubmitUsage, Pop, LoopIdle, BusOwned,
                 GuardMatchesHandler, Charged
  <2>4. AnsweredIsServedAndBilled'
    BY <1>12 DEF TakeSubmitUsage, Pop, LoopIdle, BusOwned,
                 GuardMatchesHandler, LoopWaitsForHolder, OnePlace, Charged,
                 AnsweredIsServedAndBilled, Ended
  <2> QED
    BY <1>12, <2>1, <2>2, <2>3, <2>4, SMTT(20)
    DEF TakeSubmitUsage, Pop, LoopIdle, GuardMatchesHandler,
        LoopWaitsForHolder, Registered, ServedAtMostOnce,
        PoisonedOnlyWhenDead, Ended, Quiet
\* The charge may have gone through all the same.
<1>13. ASSUME NEW g \in Gateways, ContractPanics(g) PROVE IInv'
  <2> DEFINE r == cmd[g].by
  <2>0. cmd[g] # NoCmd
    BY <1>13 DEF ContractPanics, NoCmd
  <2>1. r \in Requests /\ cmd[g] = SubmitUsageCmd(r) /\ Home[r] = g
    BY <1>13, <2>0 DEF ContractPanics, LoopIdle, BusOwned
  <2>2. billed[r] = 0 /\ pc[r] \in {"flushUsage", "cancelled"} /\ OnChain
    BY <1>13, <2>1 DEF ContractPanics, Charged
  <2>3. \A q \in Requests : billed'[q] = billed[q] \/ (q = r /\ billed'[q] = Charge)
    <3>1. CASE UNCHANGED billed
      BY <3>1
    <3>2. CASE billed' = [billed EXCEPT ![r] = @ + 1]
      BY <2>1, <2>2, <3>2
    <3> QED
      BY <1>13, <3>1, <3>2 DEF ContractPanics
  <2> HIDE DEF r
  <2>4. BusOwned'
    BY <1>13 DEF ContractPanics, LoopDies, LoopPanics, LoopIdle, BusOwned
  <2>5. OnePlace'
    BY <1>13, <2>1, <2>2, <2>3 DEF ContractPanics, LoopDies, LoopPanics, OnePlace
  <2>6. Charged'
    BY <1>13, <2>1, <2>2, <2>3 DEF ContractPanics, LoopDies, LoopPanics, BusOwned,
                                  Charged
  <2>7. AnsweredIsServedAndBilled'
    BY <1>13, <2>1, <2>2, <2>3 DEF ContractPanics, LoopDies, BusOwned, Charged,
                                  AnsweredIsServedAndBilled
  <2> QED
    BY <1>13, <2>4, <2>5, <2>6, <2>7, SMTT(20)
    DEF ContractPanics, LoopDies, LoopPanics, LoopIdle, GuardMatchesHandler,
        LoopWaitsForHolder, Registered, ServedAtMostOnce, PoisonedOnlyWhenDead,
        Ended, Quiet
\* A request on the wire has not been served.
<1>14. ASSUME NEW r \in Requests, ServeHttp(r) PROVE IInv'
  <2>1. OnePlace'
    BY <1>14 DEF ServeHttp, Arrived, LoopIdle, busVars, OnePlace
  <2>2. ServedAtMostOnce'
    BY <1>14 DEF ServeHttp, Arrived, LoopIdle, busVars, BusOwned,
                 GuardMatchesHandler, LoopWaitsForHolder, OnePlace,
                 ServedAtMostOnce
  <2>3. AnsweredIsServedAndBilled'
    BY <1>14 DEF ServeHttp, Arrived, LoopIdle, busVars, BusOwned,
                 GuardMatchesHandler, LoopWaitsForHolder, OnePlace,
                 AnsweredIsServedAndBilled
  <2>4. Ended'
    BY <1>14 DEF ServeHttp, Arrived, LoopIdle, busVars, BusOwned,
                 GuardMatchesHandler, LoopWaitsForHolder, OnePlace, Charged,
                 Registered, ServedAtMostOnce, AnsweredIsServedAndBilled,
                 PoisonedOnlyWhenDead, Ended, Quiet
  <2> QED
    BY <1>14, <2>1, <2>2, <2>3, <2>4, SMTT(20)
    DEF ServeHttp, Arrived, LoopIdle, busVars, BusOwned, GuardMatchesHandler,
        LoopWaitsForHolder, Charged, Registered, PoisonedOnlyWhenDead, Quiet
<1>15. ASSUME NEW r \in Requests, LookupPanics(r) PROVE IInv'
  BY <1>15, SMTT(20) DEF LookupPanics, Arrived, LoopIdle, LoopDies,
                         LoopPanics, BusOwned, GuardMatchesHandler,
                         LoopWaitsForHolder, OnePlace, Charged, Registered,
                         ServedAtMostOnce, AnsweredIsServedAndBilled,
                         PoisonedOnlyWhenDead, Ended, Quiet
\* Whether or not the call was made, no response is sent.
<1>16. ASSUME NEW r \in Requests, ServePanics(r) PROVE IInv'
  <2>1. BusOwned'
    BY <1>16 DEF ServePanics, Arrived, LoopIdle, LoopDies, LoopPanics,
                 AckFails, BusOwned
  <2>2. OnePlace'
    BY <1>16 DEF ServePanics, Arrived, LoopIdle, LoopDies, LoopPanics,
                 AckFails, OnePlace
  <2>3. ServedAtMostOnce'
    <3>1. served[r] = 0
      BY <1>16 DEF ServePanics, Arrived, OnePlace
    <3>2. served' \in {served, [served EXCEPT ![r] = @ + 1]}
      BY <1>16 DEF ServePanics
    <3> QED
      BY <3>1, <3>2 DEF ServedAtMostOnce
  <2>4. AnsweredIsServedAndBilled'
    BY <1>16 DEF ServePanics, Arrived, LoopIdle, LoopDies, LoopPanics,
                 AckFails, BusOwned, GuardMatchesHandler, LoopWaitsForHolder,
                 OnePlace, AnsweredIsServedAndBilled
  <2>5. Quiet'
    BY <1>16 DEF ServePanics, Arrived, LoopIdle, LoopDies, LoopPanics,
                 AckFails, Quiet
  <2> QED
    BY <1>16, <2>1, <2>2, <2>3, <2>4, <2>5, SMTT(20)
    DEF ServePanics, Arrived, LoopIdle, LoopDies, LoopPanics, AckFails,
        GuardMatchesHandler, LoopWaitsForHolder, Charged, Registered,
        PoisonedOnlyWhenDead, Ended
\* A listening handler with a response on the wire has sent its request: it
\* holds the mutex.
<1>17. ASSUME NEW r \in Requests, Deliver(r) PROVE IInv'
  <2>1. BusOwned'
    BY <1>17 DEF Deliver, Arrived, LoopIdle, busVars, BusOwned
  <2>2. LoopWaitsForHolder'
    BY <1>17 DEF Deliver, Arrived, LoopIdle, busVars, BusOwned,
                 GuardMatchesHandler, LoopWaitsForHolder, OnePlace
  <2>3. OnePlace'
    BY <1>17 DEF Deliver, Arrived, LoopIdle, busVars, OnePlace
  <2> QED
    BY <1>17, <2>1, <2>2, <2>3, SMTT(20)
    DEF Deliver, Arrived, LoopIdle, busVars, GuardMatchesHandler, Charged,
        Registered, ServedAtMostOnce, AnsweredIsServedAndBilled,
        PoisonedOnlyWhenDead, Ended, Quiet
\* Without faults the session is registered and its handler listening.
<1>18. ASSUME NEW r \in Requests, DeliverPanics(r) PROVE IInv'
  <2>1. BusOwned'
    BY <1>18 DEF DeliverPanics, Arrived, LoopIdle, LoopDies, LoopPanics,
                 AckFails, BusOwned
  <2>2. OnePlace'
    BY <1>18 DEF DeliverPanics, Arrived, LoopIdle, LoopDies, LoopPanics,
                 AckFails, OnePlace
  <2>3. PoisonedOnlyWhenDead'
    BY <1>18 DEF DeliverPanics, Arrived, LoopIdle, LoopDies, LoopPanics,
                 AckFails, PoisonedOnlyWhenDead
  <2>4. Ended'
    BY <1>18 DEF DeliverPanics, Arrived, LoopIdle, LoopDies, LoopPanics,
                 AckFails, Ended
  <2>5. Quiet'
    BY <1>18 DEF DeliverPanics, Arrived, LoopIdle, LoopDies, LoopPanics,
                 AckFails, BusOwned, GuardMatchesHandler, LoopWaitsForHolder,
                 OnePlace, Charged, Registered, ServedAtMostOnce,
                 AnsweredIsServedAndBilled, PoisonedOnlyWhenDead, Ended,
                 Quiet
  <2> QED
    BY <1>18, <2>1, <2>2, <2>3, <2>4, <2>5, SMTT(20)
    DEF DeliverPanics, Arrived, LoopIdle, LoopDies, LoopPanics, AckFails,
        GuardMatchesHandler, LoopWaitsForHolder, Charged, Registered,
        ServedAtMostOnce, AnsweredIsServedAndBilled
<1>19. ASSUME NEW m \in wire, Lose(m) PROVE IInv'
  BY <1>19, SMTT(20) DEF Lose, busVars, BusOwned, GuardMatchesHandler,
                         LoopWaitsForHolder, OnePlace, Charged, Registered,
                         ServedAtMostOnce, AnsweredIsServedAndBilled,
                         PoisonedOnlyWhenDead, Ended, Quiet
<1>20. ASSUME NEW g \in Gateways, NEW s \in Services, Withdraw(g, s) PROVE IInv'
  BY <1>20, SMTT(20) DEF Withdraw, busVars, BusOwned, GuardMatchesHandler,
                         LoopWaitsForHolder, OnePlace, Charged, Registered,
                         ServedAtMostOnce, AnsweredIsServedAndBilled,
                         PoisonedOnlyWhenDead, Ended, Quiet
<1>21. CASE UNCHANGED vars
  BY <1>21 DEF vars, BusOwned, GuardMatchesHandler, LoopWaitsForHolder,
               OnePlace, Charged, Registered, ServedAtMostOnce,
               AnsweredIsServedAndBilled, PoisonedOnlyWhenDead, Ended, Quiet
<1> QED
  BY <1>0, <1>1, <1>2, <1>3, <1>4, <1>5, <1>6, <1>7, <1>8, <1>9, <1>10, <1>11,
     <1>12, <1>13, <1>14, <1>15, <1>16, <1>17, <1>18, <1>19, <1>20, <1>21
  DEF Next, HandlerStep, TakeCommand, HandleRequest, HandleResponse

\* The invariant holds always: the code never leaves the states it describes.
THEOREM Invariance == Spec => []IInv
<1>1. IInv /\ [Next]_vars => IInv'
  BY NextTypeOK, Inductive DEF IInv
<1> QED
  BY <1>1, InitIInv, PTL DEF Spec

-----------------------------------------------------------------------------
(* The safety properties. *)

\* A gateway forwards one request at a time: the guard of the command bus
\* belongs to exactly the handler between its lock() and its end.
THEOREM Exclusion == Spec => []GuardMatchesHandler
<1>1. IInv => GuardMatchesHandler
  BY DEF IInv
<1> QED
  BY <1>1, Invariance, PTL

\* The loop hands a response over to nobody but the holder of the mutex.
THEOREM HandoverToHolder == Spec => []LoopWaitsForHolder
<1>1. IInv => LoopWaitsForHolder
  BY DEF IInv
<1> QED
  BY <1>1, Invariance, PTL

\* No request is served twice.
THEOREM AtMostOnce == Spec => []ServedAtMostOnce
<1>1. IInv => ServedAtMostOnce
  BY DEF IInv
<1> QED
  BY <1>1, Invariance, PTL

\* An answered request was served once and, on chain, charged once.
THEOREM Accounting == Spec => []AnsweredIsServedAndBilled
<1>1. IInv => AnsweredIsServedAndBilled
  BY DEF IInv
<1> QED
  BY <1>1, Invariance, PTL

\* The session of a response is always found.
THEOREM SessionFound == Spec => []ResponseHasSession
<1>1. IInv => ResponseHasSession
  BY DEF IInv, TypeOK, OnePlace, Registered, ResponseHasSession, Unsent
<1> QED
  BY <1>1, Invariance, PTL

\* Forwarding does not poison the mutex while the loop is alive.
THEOREM NoPoisonWhileAlive == Spec => []PoisonedOnlyWhenDead
<1>1. IInv => PoisonedOnlyWhenDead
  BY DEF IInv
<1> QED
  BY <1>1, Invariance, PTL

\* Without faults no loop panics.
THEOREM FaultFreeLoops ==
    ASSUME Faults = {}
    PROVE  Spec => []LoopSurvives
<1>1. IInv => LoopSurvives
  BY DEF IInv, Quiet, LoopSurvives
<1> QED
  BY <1>1, Invariance, PTL

\* Where users stay, whatever else goes wrong, the receiver of a response is
\* there when the loop hands it over.
THEOREM ReceiverKept ==
    ASSUME "disconnect" \notin Faults
    PROVE  Spec => []EventReceiverNotDropped
<1>1. IInv => EventReceiverNotDropped
  <2> SUFFICES ASSUME IInv, NEW r \in Requests, Arrived(Home[r], ResponseMsg(r))
               PROVE  pc[r] \in Listening
    BY DEF EventReceiverNotDropped
  <2>1. pc[r] \notin Unsent \cup {"answered"}
    BY DEF IInv, OnePlace, Ended, Arrived
  <2>2. pc[r] \notin {"cancelled", "panicked"}
    BY DEF IInv, Ended, Arrived, LoopIdle
  <2> QED
    BY <2>1, <2>2 DEF IInv, TypeOK, PcStates, Done, Listening, Unsent
<1> QED
  BY <1>1, Invariance, PTL

-----------------------------------------------------------------------------
(* Forwarding implements its contract. *)

\* The status of each label.
LEMMA StatusFacts ==
    /\ StatusOf("idle") = "new"
    /\ StatusOf("rejected") = "refused" /\ StatusOf("notFound") = "refused"
    /\ StatusOf("answered") = "answered"
    /\ StatusOf("cancelled") = "abandoned" /\ StatusOf("panicked") = "abandoned"
    /\ \A label \in Listening : StatusOf(label) = "accepted"
BY DEF StatusOf, Listening, Holding

\* A step that takes r's handler from one label to another.
LEMMA StatusStep ==
    ASSUME TypeOK, NEW r \in Requests, NEW label \in PcStates, Goto(r, label)
    PROVE  [q \in Requests |-> StatusOf(pc[q])]'
           = [[q \in Requests |-> StatusOf(pc[q])] EXCEPT ![r] = StatusOf(label)]
BY DEF TypeOK, Goto

\* Every step is a step of the contract or changes nothing that it sees.
LEMMA StepSimulation ==
    ASSUME IInv, [Next]_vars
    PROVE  [Contract!Next]_(Contract!vars)
<1> DEFINE status == [q \in Requests |-> StatusOf(pc[q])]
<1> USE DEF IInv, Contract!vars
<1>1. ASSUME NEW r \in Requests, NEW from, NEW to \in PcStates, pc[r] = from,
             Goto(r, to), StatusOf(from) # StatusOf(to), UNCHANGED <<served, billed>>
      PROVE  Contract!Moves(r, StatusOf(from), StatusOf(to))
  BY <1>1, StatusStep DEF Contract!Moves
<1>2. ASSUME NEW r \in Requests, NEW to \in Listening, pc[r] \in Listening,
             Goto(r, to), UNCHANGED <<served, billed>>
      PROVE  UNCHANGED Contract!vars
  <2>1. status' = [status EXCEPT ![r] = StatusOf(to)]
    BY <1>2, StatusStep DEF PcStates
  <2>2. status[r] = StatusOf(to)
    BY <1>2, StatusFacts
  <2>3. status' = status
    BY <2>1, <2>2
  <2> QED
    BY <1>2, <2>3
<1>3. ASSUME UNCHANGED <<pc, served, billed>>
      PROVE  UNCHANGED Contract!vars
  BY <1>3
<1>4. ASSUME NEW r \in Requests, Refuse(r) PROVE Contract!Refuse(r)
  BY <1>1, <1>4, StatusFacts DEF Refuse, Arriving, Contract!Refuse, PcStates, Done
<1>0. ASSUME NEW r \in Requests, ParsePanics(r) PROVE Contract!Refuse(r)
  BY <1>1, <1>0, StatusFacts
  DEF ParsePanics, Arriving, Contract!Refuse, PcStates, Done
<1>5. ASSUME NEW r \in Requests, Accept(r) PROVE Contract!Accept(r)
  BY <1>1, <1>5, StatusFacts
  DEF Accept, Arriving, Contract!Accept, PcStates, Listening
<1>6. ASSUME NEW r \in Requests, Disconnect(r) PROVE Contract!Abandon(r)
  <2>1. pc[r] \in Listening
    BY <1>6 DEF Disconnect, Listening
  <2> QED
    BY <1>1, <1>6, <2>1, StatusFacts
    DEF Disconnect, Contract!Abandon, PcStates, Done
<1>7. ASSUME NEW r \in Requests, LockPanics(r) \/ PushPanics(r) PROVE Contract!Abandon(r)
  <2>1. pc[r] \in Listening
    BY <1>7 DEF LockPanics, PushPanics, Listening, Holding
  <2> QED
    BY <1>1, <1>7, <2>1, StatusFacts
    DEF LockPanics, PushPanics, Contract!Abandon, PcStates, Done
<1>8. ASSUME NEW r \in Requests,
             AcquireLock(r) \/ PushRequest(r) \/ PushUsage(r) \/ FlushUsage(r)
      PROVE  UNCHANGED Contract!vars
  BY <1>2, <1>8
  DEF AcquireLock, PushRequest, PushUsage, FlushUsage, Listening, Holding
<1>9. ASSUME NEW r \in Requests, ReceiveResponse(r) PROVE Contract!Answer(r)
  <2>1. served[r] = 1 /\ billed[r] = Charge
    BY <1>9, HomeType DEF ReceiveResponse, BusOwned, OnePlace, Charged
  <2>2. pc[r] \in Listening
    BY <1>9 DEF ReceiveResponse, Listening, Holding
  <2> QED
    BY <1>1, <1>9, <2>1, <2>2, StatusFacts
    DEF ReceiveResponse, Contract!Answer, Charge, PcStates, Done
<1>10. ASSUME NEW g \in Gateways, TakeSubmitUsage(g) \/ ContractPanics(g)
       PROVE  [Contract!Next]_(Contract!vars)
  <2> DEFINE r == cmd[g].by
  <2>1. r \in Requests /\ Home[r] = g /\ cmd[g] = SubmitUsageCmd(r)
    BY <1>10, CommandTypes, CommandFacts
    DEF TakeSubmitUsage, ContractPanics, BusOwned, TypeOK, SlotFree, NoCmd
  <2>2. pc[r] \in {"flushUsage", "cancelled"} /\ billed[r] = 0
    BY <2>1 DEF Charged
  <2>3. UNCHANGED <<pc, served>>
    BY <1>10 DEF TakeSubmitUsage, ContractPanics, LoopDies
  <2>4. CASE UNCHANGED billed
    BY <1>3, <2>3, <2>4
  <2>5. CASE OnChain /\ billed' = [billed EXCEPT ![r] = @ + 1]
    <3>1. status[r] \in {"accepted", "abandoned"}
      BY <2>1, <2>2, StatusFacts DEF Listening, Holding
    <3>2. billed' = [billed EXCEPT ![r] = 1] /\ UNCHANGED <<status, served>>
      BY <1>3, <2>1, <2>2, <2>3, <2>5 DEF TypeOK
    <3> QED
      BY <2>1, <2>2, <2>5, <3>1, <3>2 DEF Contract!Bill, Contract!Next
  <2> QED
    BY <1>10, <2>4, <2>5 DEF TakeSubmitUsage, ContractPanics
<1>11. ASSUME NEW r \in Requests, RequestMsg(r) \in wire,
              served' = [served EXCEPT ![r] = @ + 1], UNCHANGED <<pc, billed>>
       PROVE  Contract!Serve(r)
  <2>1. served[r] = 0 /\ pc[r] \in PcStates
    BY <1>11 DEF OnePlace, TypeOK
  <2>2. pc[r] \in Listening \cup {"cancelled", "panicked"}
    BY <1>11, <2>1
    DEF OnePlace, AnsweredIsServedAndBilled, PcStates, Unsent, Listening, Holding, Done
  <2>3. status[r] \in {"accepted", "abandoned"}
    BY <2>2, StatusFacts
  <2>4. served' = [served EXCEPT ![r] = 1] /\ UNCHANGED <<status, billed>>
    BY <1>11, <2>1
  <2> QED
    BY <2>1, <2>3, <2>4 DEF Contract!Serve
<1>12. ASSUME NEW r \in Requests, ServeHttp(r) PROVE Contract!Serve(r)
  BY <1>11, <1>12 DEF ServeHttp, Arrived
<1>13. ASSUME NEW r \in Requests, ServePanics(r)
       PROVE  Contract!Serve(r) \/ UNCHANGED Contract!vars
  BY <1>3, <1>11, <1>13 DEF ServePanics, Arrived, LoopDies
<1>14. ASSUME NEW g \in Gateways, TakeSendRequest(g)
       PROVE  UNCHANGED Contract!vars
  BY <1>3, <1>14 DEF TakeSendRequest
<1>15. ASSUME NEW r \in Requests, LookupPanics(r) \/ HandleResponse(r)
       PROVE  UNCHANGED Contract!vars
  BY <1>3, <1>15 DEF LookupPanics, HandleResponse, Deliver, DeliverPanics, LoopDies
<1>16. ASSUME NEW m \in wire, Lose(m) PROVE UNCHANGED Contract!vars
  BY <1>3, <1>16 DEF Lose
<1>17. ASSUME NEW g \in Gateways, NEW s \in Services, Withdraw(g, s)
       PROVE  UNCHANGED Contract!vars
  BY <1>3, <1>17 DEF Withdraw
<1>18. CASE UNCHANGED vars
  BY <1>3, <1>18 DEF vars
<1> QED
  BY <1>0, <1>4, <1>5, <1>6, <1>7, <1>8, <1>9, <1>10, <1>12, <1>13, <1>14, <1>15,
     <1>16, <1>17, <1>18
  DEF Next, HandlerStep, TakeCommand, HandleRequest, Contract!Next

\* For every request of every gateway, forwarding does what ProxyContract
\* allows: charged and served once each before the answer, and no trace of a
\* refused request.
THEOREM Refinement == Spec => ImplementsContract
<1>1. Init => Contract!Init
  BY StatusFacts DEF Init, Contract!Init
<1>2. IInv /\ [Next]_vars => [Contract!Next]_(Contract!vars)
  BY StepSimulation
<1> QED
  BY <1>1, <1>2, Invariance, PTL DEF Spec, ImplementsContract, Contract!Spec
=============================================================================
