----------------------------- MODULE CommandBus -----------------------------
(***************************************************************************)
(* The path from a gateway's request handlers to its network event loop:   *)
(* one futures mpsc::channel(0) whose Sender sits behind a std Mutex that  *)
(* every handler of the gateway shares (SharedHandler, service.rs), and    *)
(* the task network_event_loop that owns the Receiver (network.rs).        *)
(*                                                                         *)
(* The handlers of HTTP forwarding, of the management API and of the       *)
(* websocket actors all go through this one bus, so the modules of those   *)
(* components EXTEND this one.                                             *)
(*                                                                         *)
(* channel(0) gives each Sender one slot: send() pushes when the sender's  *)
(* earlier message has been popped (poll_ready) and completes once its own *)
(* message has been popped (flush).  When the Receiver is dropped the      *)
(* queue is drained, a waiting flush completes with Ok, and the next push  *)
(* fails.                                                                  *)
(***************************************************************************)
CONSTANTS
    Gateways,   \* the gateway processes
    Handlers,   \* the handler futures that use the shared sender
    NoHandler   \* "nobody"

ASSUME NoHandlerAssumption == NoHandler \notin Handlers

VARIABLES
    lock,       \* lock[g]: holder of the MutexGuard on g's command_sender
    poisoned,   \* poisoned[g]: a holder panicked, lock().unwrap() panics too
    cmd,        \* cmd[g]: the message in the shared sender's slot, or NoCmd
    net         \* net[g]: the task network_event_loop, "running" or "dead"

busVars == <<lock, poisoned, cmd, net>>

NoCmd == [kind |-> "none", by |-> NoHandler]

BusInit ==
    /\ lock = [g \in Gateways |-> NoHandler]
    /\ poisoned = [g \in Gateways |-> FALSE]
    /\ cmd = [g \in Gateways |-> NoCmd]
    /\ net = [g \in Gateways |-> "running"]

Alive(g) == net[g] = "running"

-----------------------------------------------------------------------------
(* The mutex. *)

Acquire(g, h) ==
    /\ lock[g] = NoHandler
    /\ ~poisoned[g]
    /\ lock' = [lock EXCEPT ![g] = h]

\* lock() on a poisoned mutex still waits for the holder, then unwrap panics.
AcquireFails(g) ==
    /\ lock[g] = NoHandler
    /\ poisoned[g]

\* Mutated: the guard is leaked.
ReleaseForgotten(g) == UNCHANGED lock

Release(g) == lock' = [lock EXCEPT ![g] = NoHandler]

\* A panic of the holder unwinds through the guard: released and poisoned.
PanicWithGuard(g) ==
    /\ Release(g)
    /\ poisoned' = [poisoned EXCEPT ![g] = TRUE]

-----------------------------------------------------------------------------
(* The channel. *)

SlotFree(g) == cmd[g] = NoCmd

Push(g, c) ==
    /\ Alive(g)
    /\ SlotFree(g)
    /\ cmd' = [cmd EXCEPT ![g] = c]

Pop(g) ==
    /\ Alive(g)
    /\ ~SlotFree(g)
    /\ cmd' = [cmd EXCEPT ![g] = NoCmd]

\* A panic in network_event_loop ends the task and drops the Receiver.
LoopPanics(g) ==
    /\ net' = [net EXCEPT ![g] = "dead"]
    /\ cmd' = [cmd EXCEPT ![g] = NoCmd]
=============================================================================
