--------------------------- MODULE MCDataExchange ---------------------------
(* Two clients of a provider, in a star, as the option --peer connects them. *)
EXTENDS DataExchangeHistory, TLC

CONSTANTS ga, gb, gp,       \* two client gateways and the provider
          request, response,    \* an HTTP request of ga and its response
          connect,              \* a websocket request of ga
          data                  \* a websocket frame of gb

MCFrom == response :> gp @@ data :> gb @@ [x \in Exchanges |-> ga]
MCTo == response :> ga @@ [x \in Exchanges |-> gp]
MCSchema == response :> 3 @@ data :> 1 @@ [x \in Exchanges |-> 0]
MCReply == request :> response @@ [x \in Exchanges |-> NoExchange]
MCBootstrap == gp :> NoPeer @@ [g \in Gateways |-> gp]

\* The response is too large by one byte, the frame is as large as it may be.
MCMaxSize == 2
MCSize == response :> 3 @@ data :> 2 @@ [x \in Exchanges |-> 1]
=============================================================================
