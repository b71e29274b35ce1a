---------------------------- MODULE MCWsForward ----------------------------
(* Small instances of WsForward: one or two client gateways, one provider. *)
EXTENDS WsForward, TLC

CONSTANTS ga, gb, gp,       \* client gateways and the provider
          sa, sb,           \* sessions
          wa, wb            \* workers

MCOneClient == [s \in Sessions |-> ga]
MCTwoClients == sa :> ga @@ sb :> gb
MCLimits == sa :> 2 @@ sb :> 0
MCLimitsBoth == sa :> 2 @@ sb :> 1
MCLimitOne == [s \in Sessions |-> 1]
MCOneWorker == [s \in Sessions |-> wa]
MCTwoWorkers == sa :> wa @@ sb :> wb
=============================================================================
