----------------------------- MODULE MCGateway -----------------------------
(* A client gateway and the provider, with one request and three changes. *)
EXTENDS GatewayHistory, TLC

CONSTANTS gc, gp,           \* the client and the provider gateway
          r1,               \* the request
          p1, p2, d1,       \* two POSTs and a DELETE
          k1,               \* the service
          wf, wa, wb        \* workers

Request(kind, at, worker, deleted, providers) ==
    [kind |-> kind, at |-> at, worker |-> worker, key |-> k1, peer |-> NoPeer,
     deleted |-> deleted, providers |-> providers]

\* The service is registered at the provider, updated at the client gateway by
\* a body without a provider, and deleted at the provider, on one worker with
\* the registration.
MCInfo ==
    p1 :> Request("put", gp, wa, "false", TRUE) @@
    p2 :> Request("put", gc, wb, "none", FALSE) @@
    d1 :> Request("delete", gp, wa, "none", FALSE)

MCHome == [r \in Requests |-> gc]
MCWorkerOf == [r \in Requests |-> wf]
MCServiceOf == [r \in Requests |-> k1]
=============================================================================
