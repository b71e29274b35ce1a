------------------------------ MODULE LossyWire ------------------------------
(***************************************************************************)
(* What HttpForward and WsForward take the network between two gateways    *)
(* for: messages in no order, each lost or taken by the receiving loop, at *)
(* most once, and replies that are sent only for a request that was taken. *)
(***************************************************************************)
CONSTANTS
    Exchanges,
    Reply       \* Reply[x]: the message that the handler of x sends

VARIABLE status

Init == status = [x \in Exchanges |-> "unsent"]

Send(x) ==
    /\ status[x] = "unsent"
    /\ \A y \in Exchanges : Reply[y] = x => status[y] = "taken"
    /\ \/ status' = [status EXCEPT ![x] = "wire"]
       \/ status' = [status EXCEPT ![x] = "lost"]

Take(x) == status[x] = "wire" /\ status' = [status EXCEPT ![x] = "taken"]

Lose(S) ==
    /\ S \subseteq {x \in Exchanges : status[x] = "wire"}
    /\ status' = [x \in Exchanges |-> IF x \in S THEN "lost" ELSE status[x]]

Next ==
    \/ \E x \in Exchanges : Send(x) \/ Take(x)
    \/ \E S \in SUBSET Exchanges : Lose(S)

Spec == Init /\ [][Next]_status
=============================================================================
