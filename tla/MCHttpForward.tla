---------------------------- MODULE MCHttpForward ----------------------------
(* Small instances of HttpForward: a client gateway and the provider. *)
EXTENDS HttpForward, TLC

CONSTANTS gc, gp,           \* the client and the provider gateway
          r1, r2, r3, r4,   \* requests
          w1, w2, wp,       \* workers
          s1                \* the service

\* r1, r2 and the unparsable r4 arrive at the client gateway, r3 at the provider.
MCHome == r1 :> gc @@ r2 :> gc @@ r3 :> gp @@ r4 :> gc
MCHomeClients == [r \in Requests |-> gc]
MCServiceOf == [r \in Requests |-> s1]
MCOwnWorkers == r1 :> w1 @@ r2 :> w2 @@ r3 :> wp @@ r4 :> w1
MCSharedWorker == [r \in Requests |-> w1]
MCSharedWorkers == r1 :> w1 @@ r2 :> w1 @@ r3 :> wp @@ r4 :> w1
=============================================================================
