-------------------------- MODULE Registry_proofs --------------------------
(***************************************************************************)
(* Proofs about Registry, for any set of gateways, management requests,    *)
(* workers and service ids and any set of faults.                          *)
(***************************************************************************)
EXTENDS Registry, TLAPS

\* What the constants promise.
LEMMA InfoType ==
    \A o \in Ops :
        /\ o # NoHandler
        /\ At(o) \in Gateways /\ Key(o) \in Keys
        /\ Info[o].kind \in {"put", "delete"}
        /\ Info[o].peer \in Gateways \cup {NoPeer}
        /\ Info[o].deleted \in Flags
        /\ Info[o].providers \in BOOLEAN
BY InfoAssumption, OpsAssumption, NoHandlerAssumption DEF InfoRecords, At, Key

\* Commands are records, told apart from an empty slot, and name their request.
LEMMA CommandFacts ==
    /\ \A o \in Ops : GossipCmd(o) \in Commands /\ AddServiceCmd(o) \in Commands
    /\ NoCmd \notin Commands
    /\ \A o \in Ops : GossipCmd(o).by = o /\ AddServiceCmd(o).by = o
    /\ \A o \in Ops : GossipCmd(o).kind = "PublishGossip" /\ AddServiceCmd(o).kind = "AddService"
    /\ \A c \in Commands :
          /\ c.by \in Ops
          /\ c.kind = "PublishGossip" => c = GossipCmd(c.by)
          /\ c.kind = "AddService" => c = AddServiceCmd(c.by)
BY DEF GossipCmd, AddServiceCmd, Commands, NoCmd

\* A POST makes a service record of nothing, and of any entry.
LEMMA CreateType == \A o \in Ops : Create(o) \in ServiceRecords
BY InfoType DEF Create, ServiceRecords

LEMMA PutType ==
    ASSUME NEW o \in Ops, NEW s \in ServiceRecords \cup {NoService}
    PROVE  Put(s, o) \in ServiceRecords
<1>1. ASSUME s \in ServiceRecords PROVE Update(s, o) \in ServiceRecords
  <2>1. (s.providers \/ Info[o].providers) \in BOOLEAN
    OBVIOUS
  <2> QED
    BY <1>1, <2>1, InfoType DEF Update, ServiceRecords
<1> QED
  BY <1>1, CreateType DEF Put

\* The preloaded entries are service records.
LEMMA PreloadType == \A k \in Keys : Preload(k) \in ServiceRecords \cup {NoService}
<1> SUFFICES ASSUME NEW k \in Keys, \E o \in Preloaded : Key(o) = k
             PROVE  Preload(k) \in ServiceRecords
  BY DEF Preload
<1>1. (CHOOSE o \in Preloaded : Key(o) = k) \in Ops
  BY PreloadedAssumption
<1> QED
  BY <1>1, CreateType DEF Preload

\* Types at the start.
LEMMA InitTypeOK == Init => TypeOK
BY CreateType, PreloadType, PreloadedAssumption
DEF Init, BusInit, TypeOK, PcStates, Holding, Done

\* Every action keeps the types.
LEMMA NextTypeOK == TypeOK /\ [Next]_vars => TypeOK'
<1> SUFFICES ASSUME TypeOK, [Next]_vars PROVE TypeOK'
  OBVIOUS
<1> USE InfoType, CommandFacts DEF TypeOK, PcStates, Holding, Done, Goto, loopVars, busVars
<1>1. ASSUME NEW o \in Ops, Read(o) PROVE TypeOK'
  BY <1>1 DEF Read
<1>2. ASSUME NEW o \in Ops, Store(o) PROVE TypeOK'
  <2>1. Put(local[o], o) \in ServiceRecords
    BY PutType
  <2> QED
    BY <1>2, <2>1 DEF Store
<1>3. ASSUME NEW o \in Ops, Remove(o) PROVE TypeOK'
  <2>1. registry[At(o)][Key(o)] \in ServiceRecords
    BY <1>3 DEF Remove
  <2>2. [registry[At(o)][Key(o)] EXCEPT !.deleted = "true"] \in ServiceRecords
    BY <2>1 DEF ServiceRecords, Flags
  <2> QED
    BY <1>3, <2>2 DEF Remove
<1>4. ASSUME NEW o \in Ops, RemoveNothing(o) PROVE TypeOK'
  BY <1>4 DEF RemoveNothing
<1>5. ASSUME NEW o \in Ops, AcquireLock(o) PROVE TypeOK'
  BY <1>5, OpsAssumption DEF AcquireLock, Acquire
<1>6. ASSUME NEW o \in Ops, LockPanics(o) PROVE TypeOK'
  BY <1>6 DEF LockPanics
<1>7. ASSUME NEW o \in Ops, PushGossip(o) PROVE TypeOK'
  BY <1>7 DEF PushGossip, Push
<1>8. ASSUME NEW o \in Ops, PushListing(o) PROVE TypeOK'
  BY <1>8 DEF PushListing, Push
<1>9. ASSUME NEW o \in Ops, HandlerPanics(o) PROVE TypeOK'
  BY <1>9 DEF HandlerPanics, PanicWithGuard, Release
<1>10. ASSUME NEW o \in Ops, Respond(o) PROVE TypeOK'
  BY <1>10 DEF Respond, Release
<1>11. ASSUME NEW o \in Ops, Disconnect(o) PROVE TypeOK'
  BY <1>11 DEF Disconnect, Release
<1>12. ASSUME NEW g \in Gateways, ReceiveCommand(g) PROVE TypeOK'
  BY <1>12 DEF ReceiveCommand, Pop
<1>13. ASSUME NEW g \in Gateways, PublishGossip(g) PROVE TypeOK'
  <2>1. taken[g].by \in Ops
    BY <1>13 DEF PublishGossip, Executing
  <2>2. seq' \in [Gateways -> Nat] /\ published' \in [Ops -> Nat]
    BY <1>13, <2>1 DEF PublishGossip
  <2>3. gossip' \subseteq Messages
    BY <1>13, <2>1 DEF PublishGossip, Messages
  <2> QED
    BY <1>13, <2>2, <2>3 DEF PublishGossip
<1>14. ASSUME NEW g \in Gateways, PublishPanics(g) PROVE TypeOK'
  BY <1>14 DEF PublishPanics, LoopDies, LoopPanics
<1>15. ASSUME NEW g \in Gateways, ListService(g) PROVE TypeOK'
  <2>1. taken[g].by \in Ops
    BY <1>15 DEF ListService, Executing
  <2> QED
    BY <1>15, <2>1 DEF ListService
<1>16. ASSUME NEW g \in Gateways, ListingPanics(g) PROVE TypeOK'
  <2>1. taken[g].by \in Ops
    BY <1>16 DEF ListingPanics, Executing
  <2> QED
    BY <1>16, <2>1 DEF ListingPanics, LoopDies, LoopPanics
<1>17. ASSUME NEW m \in gossip, LookUp(m) PROVE TypeOK'
  BY <1>17 DEF LookUp, Messages
<1>18. ASSUME NEW g \in Gateways, Apply(g) PROVE TypeOK'
  BY <1>18 DEF Apply
<1>19. ASSUME NEW m \in gossip, Lose(m) PROVE TypeOK'
  BY <1>19 DEF Lose
<1>20. CASE UNCHANGED vars
  BY <1>20 DEF vars
<1>21. QED
  BY <1>1, <1>2, <1>3, <1>4, <1>5, <1>6, <1>7, <1>8, <1>9, <1>10, <1>11, <1>12,
     <1>13, <1>14, <1>15, <1>16, <1>17, <1>18, <1>19, <1>20
  DEF Next, HandlerStep, TakeCommand

\* The variables keep their types.
THEOREM TypeCorrect == Spec => []TypeOK
BY InitTypeOK, NextTypeOK, PTL DEF Spec

-----------------------------------------------------------------------------
(* The inductive invariant. *)

\* As long as the loop runs, what a handler has pushed is in the slot, in the
\* loop's hand or carried out, and what its answer promises is in the loop's hand
\* or carried out.  A service is listed behind its publication.
Flushed ==
    /\ \A o \in Ops :
          pc[o] = "flushGossip" /\ Alive(At(o)) =>
              \/ cmd[At(o)] = GossipCmd(o) \/ taken[At(o)] = GossipCmd(o)
              \/ published[o] > 0
    /\ \A o \in Ops :
          pc[o] = "flushListing" /\ Alive(At(o)) =>
              /\ taken[At(o)] = GossipCmd(o) \/ published[o] > 0
              /\ Market => \/ cmd[At(o)] = AddServiceCmd(o)
                           \/ taken[At(o)] = AddServiceCmd(o)
                           \/ o \in listed
    /\ \A o \in Ops \ Preloaded :
          pc[o] = "done" /\ Alive(At(o)) =>
              /\ taken[At(o)] = GossipCmd(o) \/ published[o] > 0
              /\ Info[o].kind = "put" /\ Market =>
                    taken[At(o)] = AddServiceCmd(o) \/ o \in listed
    /\ \A g \in Gateways, o \in Ops :
          /\ cmd[g] = AddServiceCmd(o) => taken[g] = GossipCmd(o) \/ published[o] > 0
          /\ taken[g] = AddServiceCmd(o) => published[o] > 0

\* A handler that answers 200 OK, or has, without its change being announced.
Unfounded(o) ==
    /\ o \notin Preloaded
    /\ pc[o] \in {"flushGossip", "flushListing", "done"}
    /\ ~Announced(o)

\* A loop that died left at most two of them: the one whose command it had in hand
\* and the holder of the mutex.  No handler can push any more.
FewUnfounded ==
    \A g \in Gateways :
        ~Alive(g) => \E a, b \in Handlers \cup {NoHandler} :
                        \A o \in Ops : At(o) = g /\ Unfounded(o) => o = a \/ o = b

\* The handler has made its change: its service is there and stays as it is.
Settled(o) == pc[o] \notin {"idle", "read", "notFound"}

\* Only handlers that have made their change are heard of.
SentAreSettled ==
    /\ \A o \in Ops : Settled(o) => local[o] # NoService
    /\ \A g \in Gateways : cmd[g] # NoCmd => Settled(cmd[g].by)
    /\ \A g \in Gateways : taken[g] # NoCmd => Settled(taken[g].by)
    /\ \A m \in gossip : Settled(m.by)
    /\ \A g \in Gateways : applying[g] # NoHandler => Settled(applying[g])

\* One of the requests whose fields the service carries names its owner.
Attributed(service, k) ==
    service # NoService =>
        \E o \in service.edits : Key(o) = k /\ service.owner \in {At(o), Info[o].peer}

AllAttributed ==
    /\ \A g \in Gateways, k \in Keys : Attributed(registry[g][k], k)
    /\ \A o \in Ops : Attributed(local[o], Key(o))

IInv ==
    /\ TypeOK
    /\ GuardMatchesHandler
    /\ Flushed
    /\ FewUnfounded
    /\ ListedIsPublished
    /\ SentAreSettled
    /\ AllAttributed

\* A POST names the owner of what it makes, or leaves the owner as it was.
LEMMA PutAttributed ==
    ASSUME NEW o \in Ops, NEW s \in ServiceRecords \cup {NoService}, Attributed(s, Key(o))
    PROVE  Attributed(Put(s, o), Key(o))
<1>1. CASE s = NoService
  BY <1>1 DEF Put, Create, Attributed
<1>2. CASE s # NoService
  <2>1. Put(s, o) = Update(s, o)
    BY <1>2 DEF Put
  <2>2. Put(s, o).edits = s.edits \cup {o}
    BY <2>1 DEF Update
  <2>3. Put(s, o).owner = IF Info[o].peer = NoPeer THEN s.owner ELSE Info[o].peer
    BY <2>1 DEF Update
  <2> QED
    BY <1>2, <2>2, <2>3 DEF Attributed
<1> QED
  BY <1>1, <1>2

\* The services that are there at the start belong to where they were created.
LEMMA PreloadAttributed ==
    /\ \A k \in Keys : Attributed(Preload(k), k)
    /\ \A o \in Ops : Attributed(Create(o), Key(o))
<1>1. \A o \in Ops : Attributed(Create(o), Key(o))
  BY DEF Attributed, Create
<1>2. ASSUME NEW k \in Keys PROVE Attributed(Preload(k), k)
  <2>1. CASE \E o \in Preloaded : Key(o) = k
    <3> DEFINE c == CHOOSE o \in Preloaded : Key(o) = k
    <3>1. c \in Ops /\ Key(c) = k
      BY <2>1, PreloadedAssumption
    <3>2. Preload(k) = Create(c)
      BY <2>1 DEF Preload
    <3> QED
      BY <1>1, <3>1, <3>2
  <2>2. CASE ~ \E o \in Preloaded : Key(o) = k
    BY <2>2 DEF Preload, Attributed
  <2> QED
    BY <2>1, <2>2
<1> QED
  BY <1>1, <1>2

\* The invariant holds at the start.
LEMMA InitIInv == Init => IInv
<1> SUFFICES ASSUME Init PROVE IInv
  OBVIOUS
<1> USE InfoType, PreloadedAssumption DEF Init, BusInit
<1>1. GuardMatchesHandler
  BY DEF GuardMatchesHandler, Holding
<1>2. Flushed
  BY CommandFacts DEF Flushed
<1>3. FewUnfounded /\ ListedIsPublished
  BY DEF FewUnfounded, Alive, ListedIsPublished
<1>4. SentAreSettled
  BY CreateType, NoServiceAssumption DEF SentAreSettled, Settled
<1>5. AllAttributed
  <2>1. \A g \in Gateways, k \in Keys : registry[g][k] = Preload(k)
    OBVIOUS
  <2>2. \A o \in Ops : local[o] = Create(o) \/ local[o] = NoService
    OBVIOUS
  <2>3. \A o \in Ops : Attributed(NoService, Key(o))
    BY DEF Attributed
  <2> QED
    BY <2>1, <2>2, <2>3, PreloadAttributed DEF AllAttributed
<1> QED
  BY InitTypeOK, <1>1, <1>2, <1>3, <1>4, <1>5 DEF IInv

\* No step but a loop's death disturbs FewUnfounded.
LEMMA FewUnfoundedFrame ==
    ASSUME FewUnfounded, UNCHANGED net,
           \A o \in Ops : ~Alive(At(o)) /\ Unfounded(o)' => Unfounded(o)
    PROVE  FewUnfounded'
<1> SUFFICES ASSUME NEW g \in Gateways, ~Alive(g)
             PROVE  \E a, b \in Handlers \cup {NoHandler} :
                        \A o \in Ops : At(o) = g /\ Unfounded(o)' => o = a \/ o = b
  BY DEF FewUnfounded, Alive, At
<1>1. PICK a \in Handlers \cup {NoHandler}, b \in Handlers \cup {NoHandler} :
          \A o \in Ops : At(o) = g /\ Unfounded(o) => o = a \/ o = b
  BY DEF FewUnfounded
<1> QED
  BY <1>1

\* While the loop runs every unfounded answer that is out names its command.
LEMMA UnfoundedInHand ==
    ASSUME TypeOK, Flushed, GuardMatchesHandler, NEW o \in Ops, Alive(At(o)), Unfounded(o)
    PROVE  o = lock[At(o)] \/ (taken[At(o)] # NoCmd /\ o = taken[At(o)].by)
<1>1. CASE pc[o] = "done"
  <2>1. taken[At(o)] = GossipCmd(o) \/ taken[At(o)] = AddServiceCmd(o)
    BY <1>1 DEF Flushed, Unfounded, Announced
  <2> QED
    BY <2>1, CommandFacts
<1>2. CASE pc[o] # "done"
  BY <1>2 DEF Unfounded, GuardMatchesHandler, Holding
<1> QED
  BY <1>1, <1>2

\* A death leaves those two.
LEMMA DeathLeavesFew ==
    ASSUME TypeOK, Flushed, GuardMatchesHandler, FewUnfounded, NEW g \in Gateways,
           Executing(g, "PublishGossip") \/ Executing(g, "AddService"),
           LoopDies(g), listed \subseteq listed'
    PROVE  FewUnfounded'
<1> SUFFICES ASSUME NEW h \in Gateways, ~Alive(h)'
             PROVE  \E a, b \in Handlers \cup {NoHandler} :
                        \A o \in Ops : At(o) = h /\ Unfounded(o)' => o = a \/ o = b
  BY DEF FewUnfounded, At
<1>1. \A o \in Ops : Unfounded(o)' => Unfounded(o)
  BY DEF Unfounded, Announced, LoopDies
<1>2. CASE h = g
  <2>1. Alive(g) /\ taken[g] # NoCmd
    BY DEF Executing
  <2>2. taken[g].by \in Handlers /\ lock[g] \in Handlers \cup {NoHandler}
    BY <2>1, OpsAssumption, CommandFacts DEF TypeOK
  <2>3. \A o \in Ops : At(o) = g /\ Unfounded(o)' => o = taken[g].by \/ o = lock[g]
    BY <1>1, <2>1, UnfoundedInHand
  <2> QED
    BY <1>2, <2>2, <2>3
<1>3. CASE h # g
  <2>1. ~Alive(h)
    BY <1>3 DEF LoopDies, LoopPanics, Alive, TypeOK
  <2>2. PICK a \in Handlers \cup {NoHandler}, b \in Handlers \cup {NoHandler} :
            \A o \in Ops : At(o) = h /\ Unfounded(o) => o = a \/ o = b
    BY <2>1 DEF FewUnfounded
  <2> QED
    BY <1>1, <2>2
<1> QED
  BY <1>2, <1>3

\* IInv is inductive: one step per action.
LEMMA Inductive == IInv /\ [Next]_vars /\ TypeOK' => IInv'
<1> SUFFICES ASSUME IInv, [Next]_vars, TypeOK' PROVE IInv'
  OBVIOUS
<1> USE InfoType, CommandFacts
    DEF IInv, TypeOK, PcStates, Holding, Done, Goto, loopVars, busVars, Alive, SlotFree, Settled
<1>1. ASSUME NEW o \in Ops, Read(o) PROVE IInv'
  <2>1. GuardMatchesHandler'
    BY <1>1 DEF Read, Arriving, GuardMatchesHandler
  <2>2. Flushed'
    BY <1>1 DEF Read, Arriving, Flushed
  <2>3. FewUnfounded'
    BY <1>1, FewUnfoundedFrame DEF Read, Arriving, Unfounded, Announced
  <2>4. ListedIsPublished'
    BY <1>1 DEF Read, Arriving, ListedIsPublished
  <2>5. SentAreSettled'
    BY <1>1 DEF Read, Arriving, SentAreSettled
  <2>6. AllAttributed'
    BY <1>1 DEF Read, Arriving, AllAttributed, Attributed
  <2> QED
    BY <2>1, <2>2, <2>3, <2>4, <2>5, <2>6
<1>2. ASSUME NEW o \in Ops, Store(o) PROVE IInv'
  <2>1. GuardMatchesHandler'
    BY <1>2 DEF Store, GuardMatchesHandler
  <2>2. Flushed'
    BY <1>2 DEF Store, Flushed
  <2>3. FewUnfounded'
    BY <1>2, FewUnfoundedFrame DEF Store, Unfounded, Announced
  <2>4. ListedIsPublished'
    BY <1>2 DEF Store, ListedIsPublished
  <2>5. SentAreSettled'
    BY <1>2, PutType, NoServiceAssumption DEF Store, SentAreSettled
  <2>6. AllAttributed'
    <3>1. Attributed(Put(local[o], o), Key(o))
      BY PutAttributed DEF AllAttributed
    <3> QED
      BY <1>2, <3>1 DEF Store, AllAttributed
  <2> QED
    BY <2>1, <2>2, <2>3, <2>4, <2>5, <2>6
<1>3. ASSUME NEW o \in Ops, Remove(o) PROVE IInv'
  <2>1. GuardMatchesHandler'
    BY <1>3 DEF Remove, Arriving, GuardMatchesHandler
  <2>2. Flushed'
    BY <1>3 DEF Remove, Arriving, Flushed
  <2>3. FewUnfounded'
    BY <1>3, FewUnfoundedFrame DEF Remove, Arriving, Unfounded, Announced
  <2>4. ListedIsPublished'
    BY <1>3 DEF Remove, Arriving, ListedIsPublished
  <2>5. SentAreSettled'
    <3>1. registry[At(o)][Key(o)] \in ServiceRecords
      BY <1>3 DEF Remove
    <3>2. [registry[At(o)][Key(o)] EXCEPT !.deleted = "true"] \in ServiceRecords
      BY <3>1 DEF ServiceRecords, Flags
    <3>3. local'[o] = [registry[At(o)][Key(o)] EXCEPT !.deleted = "true"]
      BY <1>3 DEF Remove
    <3>4. local'[o] # NoService
      BY ONLY <3>2, <3>3, NoServiceAssumption
    <3> QED
      BY <1>3, <3>4 DEF Remove, Arriving, SentAreSettled
  <2>6. AllAttributed'
    <3> DEFINE gone == [registry[At(o)][Key(o)] EXCEPT !.deleted = "true"]
    <3>1. registry[At(o)][Key(o)] \in ServiceRecords
      BY <1>3 DEF Remove
    <3>2. gone.edits = registry[At(o)][Key(o)].edits /\ gone.owner = registry[At(o)][Key(o)].owner
      BY <3>1 DEF ServiceRecords
    <3>3. Attributed(registry[At(o)][Key(o)], Key(o)) /\ registry[At(o)][Key(o)] # NoService
      BY <1>3 DEF Remove, AllAttributed
    <3>4. Attributed(gone, Key(o))
      BY <3>2, <3>3 DEF Attributed
    <3>5. \A k \in Keys : Attributed(NoService, k)
      BY DEF Attributed
    <3> HIDE DEF gone
    <3>6. local' = [local EXCEPT ![o] = gone]
      BY <1>3 DEF Remove, gone
    <3>7. \A p \in Ops : Attributed(local'[p], Key(p))
      BY <3>4, <3>6 DEF AllAttributed
    <3>8. \A h \in Gateways, k \in Keys : Attributed(registry'[h][k], k)
      BY <1>3, <3>5 DEF Remove, AllAttributed
    <3> QED
      BY <3>7, <3>8 DEF AllAttributed
  <2> QED
    BY <2>1, <2>2, <2>3, <2>4, <2>5, <2>6
<1>4. ASSUME NEW o \in Ops, RemoveNothing(o) PROVE IInv'
  <2>1. GuardMatchesHandler'
    BY <1>4 DEF RemoveNothing, Arriving, GuardMatchesHandler
  <2>2. Flushed'
    BY <1>4 DEF RemoveNothing, Arriving, Flushed
  <2>3. FewUnfounded'
    BY <1>4, FewUnfoundedFrame DEF RemoveNothing, Arriving, Unfounded, Announced
  <2>4. ListedIsPublished'
    BY <1>4 DEF RemoveNothing, Arriving, ListedIsPublished
  <2>5. SentAreSettled'
    BY <1>4 DEF RemoveNothing, Arriving, SentAreSettled
  <2>6. AllAttributed'
    BY <1>4 DEF RemoveNothing, Arriving, AllAttributed, Attributed
  <2> QED
    BY <2>1, <2>2, <2>3, <2>4, <2>5, <2>6
<1>5. ASSUME NEW o \in Ops, AcquireLock(o) PROVE IInv'
  <2>1. GuardMatchesHandler'
    BY <1>5 DEF AcquireLock, Acquire, GuardMatchesHandler
  <2>2. Flushed'
    BY <1>5 DEF AcquireLock, Acquire, Flushed
  <2>3. FewUnfounded'
    BY <1>5, FewUnfoundedFrame DEF AcquireLock, Acquire, Unfounded, Announced
  <2>4. ListedIsPublished'
    BY <1>5 DEF AcquireLock, Acquire, ListedIsPublished
  <2>5. SentAreSettled'
    BY <1>5 DEF AcquireLock, Acquire, SentAreSettled
  <2>6. AllAttributed'
    BY <1>5 DEF AcquireLock, Acquire, AllAttributed, Attributed
  <2> QED
    BY <2>1, <2>2, <2>3, <2>4, <2>5, <2>6
<1>6. ASSUME NEW o \in Ops, LockPanics(o) PROVE IInv'
  <2>1. GuardMatchesHandler'
    BY <1>6 DEF LockPanics, GuardMatchesHandler
  <2>2. Flushed'
    BY <1>6 DEF LockPanics, Flushed
  <2>3. FewUnfounded'
    BY <1>6, FewUnfoundedFrame DEF LockPanics, Unfounded, Announced
  <2>4. ListedIsPublished'
    BY <1>6 DEF LockPanics, ListedIsPublished
  <2>5. SentAreSettled'
    BY <1>6 DEF LockPanics, SentAreSettled
  <2>6. AllAttributed'
    BY <1>6 DEF LockPanics, AllAttributed, Attributed
  <2> QED
    BY <2>1, <2>2, <2>3, <2>4, <2>5, <2>6
<1>7. ASSUME NEW o \in Ops, PushGossip(o) PROVE IInv'
  <2>1. GuardMatchesHandler'
    BY <1>7 DEF PushGossip, Push, GuardMatchesHandler
  <2>2. Flushed'
    BY <1>7 DEF PushGossip, Push, Flushed
  <2>3. FewUnfounded'
    BY <1>7, FewUnfoundedFrame DEF PushGossip, Push, Unfounded, Announced
  <2>4. ListedIsPublished'
    BY <1>7 DEF PushGossip, Push, ListedIsPublished
  <2>5. SentAreSettled'
    BY <1>7 DEF PushGossip, Push, SentAreSettled
  <2>6. AllAttributed'
    BY <1>7 DEF PushGossip, Push, AllAttributed, Attributed
  <2> QED
    BY <2>1, <2>2, <2>3, <2>4, <2>5, <2>6
<1>8. ASSUME NEW o \in Ops, PushListing(o) PROVE IInv'
  <2>1. GuardMatchesHandler'
    BY <1>8 DEF PushListing, Push, GuardMatchesHandler
  <2>2. Flushed'
    <3>1. /\ pc[o] = "flushGossip" /\ pc' = [pc EXCEPT ![o] = "flushListing"]
          /\ cmd[At(o)] = NoCmd /\ Alive(At(o))
          /\ cmd' = [cmd EXCEPT ![At(o)] = AddServiceCmd(o)]
          /\ UNCHANGED <<net, taken, published, listed>>
      BY <1>8 DEF PushListing, Push
    <3>2. taken[At(o)] = GossipCmd(o) \/ published[o] > 0
      BY <3>1 DEF Flushed
    <3>3. \A p \in Ops \ {o} :
             At(p) = At(o) => pc[p] \notin {"flushGossip", "flushListing"}
      BY <3>1 DEF GuardMatchesHandler
    <3>4. \A p \in Ops : AddServiceCmd(p) = AddServiceCmd(o) => p = o
      BY ONLY CommandFacts
    <3> QED
      BY <3>1, <3>2, <3>3, <3>4 DEF Flushed
  <2>3. FewUnfounded'
    BY <1>8, FewUnfoundedFrame DEF PushListing, Push, Unfounded, Announced
  <2>4. ListedIsPublished'
    BY <1>8 DEF PushListing, Push, ListedIsPublished
  <2>5. SentAreSettled'
    BY <1>8 DEF PushListing, Push, SentAreSettled
  <2>6. AllAttributed'
    BY <1>8 DEF PushListing, Push, AllAttributed, Attributed
  <2> QED
    BY <2>1, <2>2, <2>3, <2>4, <2>5, <2>6
<1>9. ASSUME NEW o \in Ops, HandlerPanics(o) PROVE IInv'
  <2>1. GuardMatchesHandler'
    BY <1>9 DEF HandlerPanics, PanicWithGuard, Release, GuardMatchesHandler
  <2>2. Flushed'
    BY <1>9 DEF HandlerPanics, PanicWithGuard, Release, Flushed
  <2>3. FewUnfounded'
    BY <1>9, FewUnfoundedFrame DEF HandlerPanics, PanicWithGuard, Release, Unfounded, Announced
  <2>4. ListedIsPublished'
    BY <1>9 DEF HandlerPanics, PanicWithGuard, Release, ListedIsPublished
  <2>5. SentAreSettled'
    BY <1>9 DEF HandlerPanics, PanicWithGuard, Release, SentAreSettled
  <2>6. AllAttributed'
    BY <1>9 DEF HandlerPanics, PanicWithGuard, Release, AllAttributed, Attributed
  <2> QED
    BY <2>1, <2>2, <2>3, <2>4, <2>5, <2>6
<1>10. ASSUME NEW o \in Ops, Respond(o) PROVE IInv'
  <2>1. GuardMatchesHandler'
    BY <1>10 DEF Respond, Release, GuardMatchesHandler
  <2>2. Flushed'
    BY <1>10 DEF Respond, Release, Flushed
  <2>3. FewUnfounded'
    BY <1>10, FewUnfoundedFrame DEF Respond, Release, Unfounded, Announced
  <2>4. ListedIsPublished'
    BY <1>10 DEF Respond, Release, ListedIsPublished
  <2>5. SentAreSettled'
    BY <1>10 DEF Respond, Release, SentAreSettled
  <2>6. AllAttributed'
    BY <1>10 DEF Respond, Release, AllAttributed, Attributed
  <2> QED
    BY <2>1, <2>2, <2>3, <2>4, <2>5, <2>6
<1>11. ASSUME NEW o \in Ops, Disconnect(o) PROVE IInv'
  <2>1. GuardMatchesHandler'
    BY <1>11 DEF Disconnect, Release, GuardMatchesHandler
  <2>2. Flushed'
    BY <1>11 DEF Disconnect, Release, Flushed
  <2>3. FewUnfounded'
    BY <1>11, FewUnfoundedFrame DEF Disconnect, Release, Unfounded, Announced
  <2>4. ListedIsPublished'
    BY <1>11 DEF Disconnect, Release, ListedIsPublished
  <2>5. SentAreSettled'
    BY <1>11 DEF Disconnect, Release, SentAreSettled
  <2>6. AllAttributed'
    BY <1>11 DEF Disconnect, Release, AllAttributed, Attributed
  <2> QED
    BY <2>1, <2>2, <2>3, <2>4, <2>5, <2>6
<1>12. ASSUME NEW g \in Gateways, ReceiveCommand(g) PROVE IInv'
  <2>1. GuardMatchesHandler'
    BY <1>12 DEF ReceiveCommand, Pop, GuardMatchesHandler
  <2>2. Flushed'
    <3>1. /\ taken[g] = NoCmd /\ cmd[g] # NoCmd
          /\ taken' = [taken EXCEPT ![g] = cmd[g]] /\ cmd' = [cmd EXCEPT ![g] = NoCmd]
          /\ UNCHANGED <<net, pc, published, listed>>
      BY <1>12 DEF ReceiveCommand, Pop, LoopIdle
    <3>2. \A h \in Gateways, o \in Ops :
             /\ cmd[h] = GossipCmd(o) \/ taken[h] = GossipCmd(o) => taken'[h] = GossipCmd(o) \/ cmd'[h] = GossipCmd(o)
             /\ taken[h] = GossipCmd(o) => taken'[h] = GossipCmd(o)
             /\ taken[h] = AddServiceCmd(o) => taken'[h] = AddServiceCmd(o)
             /\ cmd[h] = AddServiceCmd(o) => cmd'[h] = AddServiceCmd(o) \/ taken'[h] = AddServiceCmd(o)
             /\ cmd'[h] = AddServiceCmd(o) => cmd[h] = AddServiceCmd(o)
             /\ taken'[h] = AddServiceCmd(o) =>
                   taken[h] = AddServiceCmd(o) \/ (cmd[h] = AddServiceCmd(o) /\ taken[h] = NoCmd)
      <4> SUFFICES ASSUME NEW h \in Gateways PROVE
             \/ taken'[h] = taken[h] /\ cmd'[h] = cmd[h]
             \/ taken[h] = NoCmd /\ taken'[h] = cmd[h] /\ cmd'[h] = NoCmd
        OBVIOUS
      <4> QED
        BY <3>1
    <3> QED
      BY <3>1, <3>2 DEF Flushed
  <2>3. FewUnfounded'
    BY <1>12, FewUnfoundedFrame DEF ReceiveCommand, Pop, Unfounded, Announced
  <2>4. ListedIsPublished'
    BY <1>12 DEF ReceiveCommand, Pop, ListedIsPublished
  <2>5. SentAreSettled'
    BY <1>12 DEF ReceiveCommand, Pop, SentAreSettled
  <2>6. AllAttributed'
    BY <1>12 DEF ReceiveCommand, Pop, AllAttributed, Attributed
  <2> QED
    BY <2>1, <2>2, <2>3, <2>4, <2>5, <2>6
<1>13. ASSUME NEW g \in Gateways, PublishGossip(g) PROVE IInv'
  <2>1. GuardMatchesHandler'
    BY <1>13 DEF PublishGossip, Executing, GuardMatchesHandler
  <2>2. Flushed'
    BY <1>13 DEF PublishGossip, Executing, Flushed
  <2>3. FewUnfounded'
    BY <1>13, FewUnfoundedFrame DEF PublishGossip, Executing, Unfounded, Announced
  <2>4. ListedIsPublished'
    BY <1>13 DEF PublishGossip, Executing, ListedIsPublished
  <2>5. SentAreSettled'
    BY <1>13 DEF PublishGossip, Executing, SentAreSettled
  <2>6. AllAttributed'
    BY <1>13 DEF PublishGossip, Executing, AllAttributed, Attributed
  <2> QED
    BY <2>1, <2>2, <2>3, <2>4, <2>5, <2>6
<1>14. ASSUME NEW g \in Gateways, PublishPanics(g) PROVE IInv'
  <2>1. GuardMatchesHandler'
    BY <1>14 DEF PublishPanics, Executing, LoopDies, LoopPanics, GuardMatchesHandler
  <2>2. Flushed'
    BY <1>14 DEF PublishPanics, Executing, LoopDies, LoopPanics, Flushed
  <2>3. FewUnfounded'
    BY <1>14, DeathLeavesFew DEF PublishPanics
  <2>4. ListedIsPublished'
    BY <1>14 DEF PublishPanics, Executing, LoopDies, LoopPanics, ListedIsPublished
  <2>5. SentAreSettled'
    BY <1>14 DEF PublishPanics, Executing, LoopDies, LoopPanics, SentAreSettled
  <2>6. AllAttributed'
    BY <1>14 DEF PublishPanics, Executing, LoopDies, LoopPanics, AllAttributed, Attributed
  <2> QED
    BY <2>1, <2>2, <2>3, <2>4, <2>5, <2>6
<1>15. ASSUME NEW g \in Gateways, ListService(g) PROVE IInv'
  <2>1. GuardMatchesHandler'
    BY <1>15 DEF ListService, Executing, GuardMatchesHandler
  <2>2. Flushed'
    BY <1>15 DEF ListService, Executing, Flushed
  <2>3. FewUnfounded'
    BY <1>15, FewUnfoundedFrame DEF ListService, Executing, Unfounded, Announced
  <2>4. ListedIsPublished'
    <3>1. published[taken[g].by] > 0
      BY <1>15 DEF ListService, Executing, Flushed
    <3> QED
      BY <1>15, <3>1 DEF ListService, ListedIsPublished
  <2>5. SentAreSettled'
    BY <1>15 DEF ListService, Executing, SentAreSettled
  <2>6. AllAttributed'
    BY <1>15 DEF ListService, Executing, AllAttributed, Attributed
  <2> QED
    BY <2>1, <2>2, <2>3, <2>4, <2>5, <2>6
<1>16. ASSUME NEW g \in Gateways, ListingPanics(g) PROVE IInv'
  <2>1. GuardMatchesHandler'
    BY <1>16 DEF ListingPanics, Executing, LoopDies, LoopPanics, GuardMatchesHandler
  <2>2. Flushed'
    BY <1>16 DEF ListingPanics, Executing, LoopDies, LoopPanics, Flushed
  <2>3. FewUnfounded'
    BY <1>16, DeathLeavesFew DEF ListingPanics
  <2>4. ListedIsPublished'
    <3>1. published[taken[g].by] > 0
      BY <1>16 DEF ListingPanics, Executing, Flushed
    <3> QED
      BY <1>16, <3>1 DEF ListingPanics, LoopDies, ListedIsPublished
  <2>5. SentAreSettled'
    BY <1>16 DEF ListingPanics, Executing, LoopDies, LoopPanics, SentAreSettled
  <2>6. AllAttributed'
    BY <1>16 DEF ListingPanics, Executing, LoopDies, LoopPanics, AllAttributed, Attributed
  <2> QED
    BY <2>1, <2>2, <2>3, <2>4, <2>5, <2>6
<1>17. ASSUME NEW m \in gossip, LookUp(m) PROVE IInv'
  <2>1. GuardMatchesHandler'
    BY <1>17 DEF LookUp, GuardMatchesHandler
  <2>2. Flushed'
    BY <1>17 DEF LookUp, Flushed
  <2>3. FewUnfounded'
    BY <1>17, FewUnfoundedFrame DEF LookUp, Unfounded, Announced
  <2>4. ListedIsPublished'
    BY <1>17 DEF LookUp, ListedIsPublished
  <2>5. SentAreSettled'
    BY <1>17 DEF LookUp, SentAreSettled
  <2>6. AllAttributed'
    BY <1>17 DEF LookUp, AllAttributed, Attributed
  <2> QED
    BY <2>1, <2>2, <2>3, <2>4, <2>5, <2>6
<1>18. ASSUME NEW g \in Gateways, Apply(g) PROVE IInv'
  <2>1. GuardMatchesHandler'
    BY <1>18 DEF Apply, GuardMatchesHandler
  <2>2. Flushed'
    BY <1>18 DEF Apply, Flushed
  <2>3. FewUnfounded'
    BY <1>18, FewUnfoundedFrame DEF Apply, Unfounded, Announced
  <2>4. ListedIsPublished'
    BY <1>18 DEF Apply, ListedIsPublished
  <2>5. SentAreSettled'
    BY <1>18 DEF Apply, SentAreSettled
  <2>6. AllAttributed'
    BY <1>18 DEF Apply, AllAttributed, Attributed
  <2> QED
    BY <2>1, <2>2, <2>3, <2>4, <2>5, <2>6
<1>19. ASSUME NEW m \in gossip, Lose(m) PROVE IInv'
  <2>1. GuardMatchesHandler'
    BY <1>19 DEF Lose, GuardMatchesHandler
  <2>2. Flushed'
    BY <1>19 DEF Lose, Flushed
  <2>3. FewUnfounded'
    BY <1>19, FewUnfoundedFrame DEF Lose, Unfounded, Announced
  <2>4. ListedIsPublished'
    BY <1>19 DEF Lose, ListedIsPublished
  <2>5. SentAreSettled'
    BY <1>19 DEF Lose, SentAreSettled
  <2>6. AllAttributed'
    BY <1>19 DEF Lose, AllAttributed, Attributed
  <2> QED
    BY <2>1, <2>2, <2>3, <2>4, <2>5, <2>6
<1>20. CASE UNCHANGED vars
  <2>1. FewUnfounded'
    BY <1>20, FewUnfoundedFrame DEF vars, Unfounded, Announced
  <2> QED
    BY <1>20, <2>1
    DEF vars, GuardMatchesHandler, Flushed, ListedIsPublished, SentAreSettled, AllAttributed
<1>21. QED
  BY <1>1, <1>2, <1>3, <1>4, <1>5, <1>6, <1>7, <1>8, <1>9, <1>10, <1>11, <1>12,
     <1>13, <1>14, <1>15, <1>16, <1>17, <1>18, <1>19, <1>20
  DEF Next, HandlerStep, TakeCommand

\* The invariant holds in every reachable state.
LEMMA Invariance == Spec => []IInv
<1>1. IInv /\ [Next]_vars => IInv'
  BY NextTypeOK, Inductive DEF IInv
<1> QED
  BY InitIInv, <1>1, PTL DEF Spec

-----------------------------------------------------------------------------
(* What follows from it. *)

\* The guard of command_sender belongs to exactly the handler between its lock()
\* and its end.
THEOREM GuardCorrect == Spec => []GuardMatchesHandler
BY Invariance, PTL DEF IInv

\* What the invariant says of answers that are out.
LEMMA FewAreFalse == IInv => DoneIsAnnounced
<1> SUFFICES ASSUME IInv, NEW g \in Gateways
             PROVE  /\ Alive(g) => \A o \in Unannounced(g) : taken[g] # NoCmd /\ taken[g].by = o
                    /\ \A o, p, q \in Unannounced(g) : o = p \/ p = q \/ o = q
  BY DEF DoneIsAnnounced
<1>1. \A o \in Unannounced(g) : o \in Ops /\ At(o) = g /\ Unfounded(o) /\ pc[o] = "done"
  BY DEF Unannounced, Unfounded
<1>2. ASSUME Alive(g), NEW o \in Unannounced(g) PROVE taken[g] # NoCmd /\ taken[g].by = o
  <2>1. taken[g] = GossipCmd(o) \/ taken[g] = AddServiceCmd(o)
    BY <1>1, <1>2 DEF IInv, Flushed, Unfounded, Announced
  <2> QED
    BY <1>1, <2>1, CommandFacts
<1>3. CASE Alive(g)
  BY <1>2, <1>3
<1>4. CASE ~Alive(g)
  <2>1. PICK a \in Handlers \cup {NoHandler}, b \in Handlers \cup {NoHandler} :
            \A o \in Ops : At(o) = g /\ Unfounded(o) => o = a \/ o = b
    BY <1>4 DEF IInv, FewUnfounded
  <2> QED
    BY <1>1, <1>4, <2>1
<1> QED
  BY <1>3, <1>4

\* 200 OK is for a change that was announced or that the loop is carrying out; at
\* most two answers of a gateway turn out false, when its loop dies.
THEOREM AnswersHonest == Spec => []DoneIsAnnounced
BY Invariance, FewAreFalse, PTL

\* Nothing is listed in the market contract that was not announced.
THEOREM ListingsAnnounced == Spec => []ListedIsPublished
BY Invariance, PTL DEF IInv

\* An attributed registry agrees with the listings of the management API.
LEMMA AttributedListings == TypeOK /\ AllAttributed => OwnerRegistered
<1> SUFFICES ASSUME TypeOK, AllAttributed, NEW g \in Gateways
             PROVE  /\ \A k \in list_local_services(g) : RegisteredAt(g, k, g)
                    /\ \A k \in list_remote_services(g) :
                          \E h \in list_service_peers(g) \ {g} : RegisteredAt(g, k, h)
  BY DEF OwnerRegistered
<1>1. ASSUME NEW k \in get_services(g) PROVE RegisteredAt(g, k, registry[g][k].owner)
  BY <1>1 DEF get_services, AllAttributed, Attributed, RegisteredAt
<1> QED
  BY <1>1
  DEF list_local_services, list_remote_services, list_service_peers, get_services

\* No interleaving attributes a service to a gateway where it was not registered.
THEOREM OwnersCorrect == Spec => []OwnerRegistered
BY Invariance, AttributedListings, PTL DEF IInv
=============================================================================
