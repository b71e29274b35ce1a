----------------------------- MODULE MCRegistry -----------------------------
(* Small instances of Registry: two gateways, one service id. *)
EXTENDS Registry, TLC

CONSTANTS ga, gb,           \* gateways
          p1, p2, d1,       \* two POSTs and a DELETE
          k1,               \* the service id
          wa, wb, wc        \* workers

Request(kind, at, worker, peer, deleted, providers) ==
    [kind |-> kind, at |-> at, worker |-> worker, key |-> k1, peer |-> peer,
     deleted |-> deleted, providers |-> providers]

\* A POST and a DELETE at ga on two workers, and at gb an update that claims the
\* service for ga and names no provider.
MCInfoFaults ==
    p1 :> Request("put", ga, wa, NoPeer, "false", TRUE) @@
    p2 :> Request("put", gb, wc, ga, "none", FALSE) @@
    d1 :> Request("delete", ga, wb, NoPeer, "none", FALSE)

\* The service exists (p1); it is deleted and registered again at ga.
MCInfoRace ==
    p1 :> Request("put", ga, wa, NoPeer, "false", TRUE) @@
    p2 :> Request("put", ga, wb, NoPeer, "false", TRUE) @@
    d1 :> Request("delete", ga, wa, NoPeer, "none", FALSE)
=============================================================================
